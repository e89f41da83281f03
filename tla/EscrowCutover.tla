----------------------------- MODULE EscrowCutover -----------------------------
(* Replacing the escrow contract under a running site (ops/cutover-escrow.sh    *)
(* with packages/database/src/escrow-cutover.ts and its command, the ledger     *)
(* export and apps/worker/src/backfill.ts).  One operator runs the script; any  *)
(* step may fail, the script may be interrupted between two steps, and it is    *)
(* run again.  The services are stopped, and their units start again only when  *)
(* nothing has been changed.                                                    *)
EXTENDS Naturals

CONSTANTS MaxChanges,  \* changes of the retired projection while the services run
          MaxFailures  \* attempts that fail

VARIABLES
  units,      \* the release that runs: "old", "new" or "none"
  env,        \* the contract of the active environment
  schema,     \* "old", "partly" migrated or "new"
  database,   \* the projection, see Projection
  created,    \* the retired contract has a goal
  valid,      \* the replacement is the contract of the staged manifest
  backups,    \* the verified backups
  step,       \* the step of the script
  stopped,    \* services_stopped
  mutated,    \* cutover_mutated
  replaced,   \* the projection that the reset removed, a history variable
  ledger,     \* whether the goals of the retired projection are exported
  failures

cutoverVars == <<units, env, schema, database, created, valid, backups, step, stopped, mutated,
                 replaced, ledger, failures>>

\* What a database holds of an escrow: indexed goals, active Safe proposals or
\* unsubmitted intents, and the rest, which changes with every event.
Retired == [of |-> "retired", goals |-> 0, proposals |-> 0, rest |-> 0]
Nothing == [Retired EXCEPT !.of = "nothing"]
Replacement == [Retired EXCEPT !.of = "replacement"]

CutoverInit ==
  /\ units = "old" /\ env = "retired" /\ schema = "old" /\ database = Retired
  /\ created = FALSE /\ valid \in BOOLEAN
  /\ backups = {} /\ step = "idle" /\ stopped = FALSE /\ mutated = FALSE
  /\ replaced = Nothing /\ ledger = FALSE /\ failures = 0

At(s, next) == step = s /\ step' = next
World == <<created, valid, failures>>

-----------------------------------------------------------------------------
(* The services, and the chain. *)

\* Somebody creates a goal with the retired contract (external).
CreateGoal ==
  /\ ~created /\ created' = TRUE
  /\ UNCHANGED <<units, env, schema, database, valid, backups, step, stopped, mutated,
                 replaced, ledger, failures>>

\* The old release indexes the goal, or proposals and other events come and go.
OldReleaseWrites ==
  /\ units = "old" /\ database.of = "retired"
  /\ \/ created /\ database.goals = 0 /\ database' = [database EXCEPT !.goals = 1]
     \/ database' = [database EXCEPT !.proposals = 1 - @]
     \/ database.rest < MaxChanges /\ database' = [database EXCEPT !.rest = @ + 1]
  /\ UNCHANGED <<units, env, schema, backups, step, stopped, mutated, replaced, ledger, World>>

-----------------------------------------------------------------------------
(* The script. *)

\* The script leaves the services running.
KeepServing ==
  /\ At("idle", "accounted") /\ env = "retired"
  /\ stopped' = TRUE /\ mutated' = FALSE
  /\ UNCHANGED <<units, env, schema, database, backups, replaced, ledger, World>>

\* The environments are compared first; then the units stop.
StopServices ==
  /\ At("idle", "accounted") /\ env = "retired"
  /\ units' = "none" /\ stopped' = TRUE /\ mutated' = FALSE
  /\ UNCHANGED <<env, schema, database, backups, replaced, ledger, World>>

\* The retired contract accounts for nothing and has logged no GoalCreated.
CheckAccounted ==
  /\ At("accounted", "manifest") /\ ~created
  /\ UNCHANGED <<units, env, schema, database, backups, stopped, mutated, replaced, ledger, World>>

\* check-chain-source: verifyEscrowManifest on the replacement.
CheckManifest ==
  /\ At("manifest", "backup") /\ valid
  /\ UNCHANGED <<units, env, schema, database, backups, stopped, mutated, replaced, ledger, World>>

\* The backup that is there is checked, and no new one is made.
ReuseBackup == backups

WithBackup == backups \union {database}

Backup ==
  /\ At("backup", "deploy") /\ backups' = WithBackup
  /\ UNCHANGED <<units, env, schema, database, stopped, mutated, replaced, ledger, World>>

\* pnpm db:deploy, and only then cutover_mutated=1.
Deploy ==
  /\ At("deploy", "mark") /\ schema' = "new"
  /\ UNCHANGED <<units, env, database, backups, stopped, mutated, replaced, ledger, World>>

Mark ==
  /\ At("mark", "export") /\ mutated' = TRUE
  /\ UNCHANGED <<units, env, schema, database, backups, stopped, replaced, ledger, World>>

\* The seed and the export of the public ledger.
ExportLedger ==
  /\ At("export", "blockers") /\ ledger' = (database.of = "retired")
  /\ UNCHANGED <<units, env, schema, database, backups, stopped, mutated, replaced, World>>

\* Only goals keep the reset from happening.
GoalsOnly == database.goals # 0

\* escrowCutoverBlockers, read before the transaction of the reset.
HasBlockers == database.goals # 0 \/ database.proposals # 0

ReadBlockers ==
  /\ At("blockers", "reset") /\ ~HasBlockers
  /\ UNCHANGED <<units, env, schema, database, backups, stopped, mutated, replaced, ledger, World>>

\* resetForEscrowCutover, in one transaction.
Reset ==
  /\ At("reset", "backfill")
  /\ replaced' = database /\ database' = Nothing
  /\ UNCHANGED <<units, env, schema, backups, stopped, mutated, ledger, World>>

\* The backfill indexes the replacement, and reconciles.
Backfill ==
  /\ At("backfill", "promote") /\ database' = Replacement
  /\ UNCHANGED <<units, env, schema, backups, stopped, mutated, replaced, ledger, World>>

Promote ==
  /\ At("promote", "activate") /\ env' = "replacement"
  /\ UNCHANGED <<units, schema, database, backups, stopped, mutated, replaced, ledger, World>>

\* activate-release.sh restarts the units with the new release.
Activate ==
  /\ At("activate", "activated") /\ units' = "new"
  /\ UNCHANGED <<env, schema, database, backups, stopped, mutated, replaced, ledger, World>>

Complete ==
  /\ At("activated", "complete") /\ stopped' = FALSE
  /\ UNCHANGED <<units, env, schema, database, backups, mutated, replaced, ledger, World>>

\* The units start again whatever was done.
RestartAlways == stopped

\* recover_cutover
RestartsUnits == stopped /\ ~mutated

\* A step fails or the script is interrupted: a migration may be half applied,
\* a backfill half done, some units may have restarted.
Fails ==
  /\ step \notin {"idle", "failed", "complete"} /\ failures < MaxFailures
  /\ step' = "failed" /\ failures' = failures + 1
  /\ schema' \in IF step = "deploy" /\ schema # "new" THEN {schema, "partly"} ELSE {schema}
  /\ database' \in IF step = "backfill" THEN {database, Replacement} ELSE {database}
  /\ units' \in IF RestartsUnits THEN {"old"} ELSE IF step = "activate" THEN {units, "new"} ELSE {units}
  /\ UNCHANGED <<env, backups, stopped, mutated, replaced, ledger, created, valid>>

\* The script is run again, after a failure that changed the database with the
\* last backup, the release and its environment restored, as its message asks.
RunAgain ==
  /\ step = "failed" /\ step' = "idle"
  /\ IF mutated
     THEN /\ database' = IF replaced.of = "retired" THEN replaced ELSE database
          /\ database' \in backups
          /\ schema' = "old" /\ env' = "retired" /\ units' = "none" /\ replaced' = Nothing
     ELSE UNCHANGED <<database, schema, env, units, replaced>>
  /\ stopped' = FALSE /\ mutated' = FALSE
  /\ UNCHANGED <<backups, ledger, World>>

CutoverNext ==
  \/ CreateGoal \/ OldReleaseWrites
  \/ StopServices \/ CheckAccounted \/ CheckManifest \/ Backup \/ Deploy \/ Mark \/ ExportLedger
  \/ ReadBlockers \/ Reset \/ Backfill \/ Promote \/ Activate \/ Complete
  \/ Fails \/ RunAgain

CutoverSpec == CutoverInit /\ [][CutoverNext]_cutoverVars

-----------------------------------------------------------------------------
(* Properties. *)

\* The release that runs is the one whose escrow the rows and the environment
\* describe, at every step and after every failure (recover_cutover), and a new
\* release has its own schema.  Nothing is said of the schema under a restarted old
\* release: cutover_mutated is set only after db:deploy has run, so that a failure
\* in between restarts the units over migrated tables.
ReleaseFitsDatabase ==
  /\ units = "old" => database.of = "retired" /\ env = "retired"
  /\ units = "new" => database.of = "replacement" /\ env = "replacement" /\ schema = "new"

\* What the reset removes is in a verified backup, as it was when it was removed,
\* and holds no goal, proposal or intent, although the checks precede the reset
\* by several steps and the attempt may be a later one (resetForEscrowCutover:
\* "Callers must stop writers and run escrowCutoverBlockers first").
ResetIsGuarded ==
  replaced.of = "retired" =>
    replaced \in backups /\ replaced.goals = 0 /\ replaced.proposals = 0 /\ ledger

CutoverInv == ReleaseFitsDatabase /\ ResetIsGuarded
=============================================================================
