-------------------------------- MODULE MCSite --------------------------------
(* The pages of the web application with the API behind them, and the two        *)
(* releases that replace a contract: ten parts that share nothing, checked in   *)
(* one run.  `part' names the one that runs in a behavior, which keeps its state *)
(* in the first of the variables x1, x2, ...; the others are 0.                  *)
EXTENDS Naturals, FiniteSets, TLC

CONSTANTS Clicks, Confirmations, MaxBlock,               \* the stake page
          Wallets, Challenges, MaxReads, MaxEvents,      \* sessions
          Requests, CacheTtl, MaxWait,                   \* principals
          MaxChanges, MaxFailures, Signed,               \* the releases
          Slots,                                         \* the admin page
          Payouts, MaxContributions, MaxTime, MaxRebuilds, PageSize,  \* a goal's page
          Accounts, MaxWrites, MaxSwitches,              \* profiles
          MaxReplies, EarlierLimit, TargetLimit, MaxRefreshes, \* a topic's page
          Years, Months, MaxPeriods                      \* the calendar of a goal

ASSUME SiteAssumption == CacheTtl \in Nat /\ MaxWait \in Nat /\ PageSize > 0

VARIABLES part, x1, x2, x3, x4, x5, x6, x7, x8, x9, x10, x11,
          x12, x13, x14, x15, x16, x17, x18, x19, x20

\* How the two clicks of a stake share the blocks and the failures.
Cases == {<<1, 2>>, <<2, 1>>}

\* What the administrator tries: two kinds of action, and how often.
Plans == {[kinds |-> {"direct", "acceptance"}, clicks |-> 3],
          [kinds |-> {"managers", "payout"}, clicks |-> 2],
          [kinds |-> {"lifecycle", "payout"}, clicks |-> 2]}

Stake == INSTANCE StakePage WITH
  history <- x1, allowance <- x2, matured <- x3, head <- x4, through <- x5, session <- x6,
  account <- x7, view <- x8, load <- x9, busy <- x10, pending <- x11, action <- x12,
  toggle <- x13, flow <- x14, indexed <- x15, left <- x16

Session == INSTANCE Sessions WITH
  row <- x1, tokens <- x2, verify <- x3, account <- x4, cookie <- x5, shown <- x6,
  flow <- x7, leaving <- x8, reads <- x9, crossed <- x10, events <- x11

Principal == INSTANCE Principals WITH
  safeOwner <- x1, owner <- x2, projected <- x3, cache <- x4, principal <- x5, age <- x6

Cutover == INSTANCE EscrowCutover WITH
  units <- x1, env <- x2, schema <- x3, database <- x4, created <- x5, valid <- x6,
  backups <- x7, step <- x8, stopped <- x9, mutated <- x10, replaced <- x11, ledger <- x12,
  failures <- x13

Release == INSTANCE MarketRelease WITH
  units <- x1, journal <- x2, mined <- x3, tables <- x4, redis <- x5, feature <- x6,
  paused <- x7, priced <- x8, phase <- x9, step <- x10, checked <- x11, cleared <- x12,
  failures <- x13

Admin == INSTANCE AdminPage WITH
  queue <- x1, audit <- x2, post <- x3, job <- x4, reading <- x5, state <- x6,
  listed <- x7, delivery <- x8, busy <- x9, uncertain <- x10, dialog <- x11,
  replacement <- x12, unlocked <- x13, crossed <- x14, missed <- x15, misread <- x16,
  accepted <- x17, plan <- x18, clicks <- x19, failures <- x20, MaxFailures <- 1

Ledger == INSTANCE PublicLedger WITH
  goal <- x1, periods <- x2, rows <- x3, mined <- x4, payout <- x5, now <- x6,
  request <- x7, list <- x8, page <- x9, rebuilds <- x10, visit <- x11, known <- x12

Profile == INSTANCE Profiles WITH
  contract <- x1, log <- x2, applied <- x3, row <- x4, request <- x5, cached <- x6,
  account <- x7, read <- x8, form <- x9, panel <- x10, busy <- x11, flow <- x12,
  switches <- x13, visit <- x14

Thread == INSTANCE ForumThread WITH
  top <- x1, shown <- x2, cursor <- x3, hash <- x4, earlier <- x5, target <- x6,
  overtaken <- x7, refreshes <- x8

Calendar == INSTANCE MonthlyCalendar WITH now <- x1, form <- x2, goal <- x3

from4 == <<x4, x5, x6, x7, x8, x9, x10, x11, x12, x13, x14, x15, x16, x17, x18, x19, x20>>
from7 == <<x7, x8, x9, x10, x11, x12, x13, x14, x15, x16, x17, x18, x19, x20>>
from9 == <<x9, x10, x11, x12, x13, x14, x15, x16, x17, x18, x19, x20>>
from12 == <<x12, x13, x14, x15, x16, x17, x18, x19, x20>>
from13 == <<x13, x14, x15, x16, x17, x18, x19, x20>>
from14 == <<x14, x15, x16, x17, x18, x19, x20>>
from15 == <<x15, x16, x17, x18, x19, x20>>
from17 == <<x17, x18, x19, x20>>

SiteInit ==
  \/ /\ part = "stake" /\ Stake!Init
     /\ x17 = 0 /\ x18 = 0 /\ x19 = 0 /\ x20 = 0
  \/ /\ part = "sessions" /\ Session!SessionsInit
     /\ x12 = 0 /\ x13 = 0 /\ x14 = 0 /\ x15 = 0 /\ x16 = 0 /\ x17 = 0 /\ x18 = 0 /\ x19 = 0 /\ x20 = 0
  \/ /\ part = "principals" /\ Principal!PrincipalsInit
     /\ x7 = 0 /\ x8 = 0 /\ x9 = 0 /\ x10 = 0 /\ x11 = 0 /\ x12 = 0 /\ x13 = 0 /\ x14 = 0 /\ x15 = 0
     /\ x16 = 0 /\ x17 = 0 /\ x18 = 0 /\ x19 = 0 /\ x20 = 0
  \/ /\ part = "cutover" /\ Cutover!CutoverInit
     /\ x14 = 0 /\ x15 = 0 /\ x16 = 0 /\ x17 = 0 /\ x18 = 0 /\ x19 = 0 /\ x20 = 0
  \/ /\ part = "release" /\ Release!ReleaseInit
     /\ x14 = 0 /\ x15 = 0 /\ x16 = 0 /\ x17 = 0 /\ x18 = 0 /\ x19 = 0 /\ x20 = 0
  \/ /\ part = "admin" /\ Admin!AdminInit
  \/ /\ part = "ledger" /\ Ledger!LedgerInit
     /\ x13 = 0 /\ x14 = 0 /\ x15 = 0 /\ x16 = 0 /\ x17 = 0 /\ x18 = 0 /\ x19 = 0 /\ x20 = 0
  \/ /\ part = "profiles" /\ Profile!ProfilesInit
     /\ x15 = 0 /\ x16 = 0 /\ x17 = 0 /\ x18 = 0 /\ x19 = 0 /\ x20 = 0
  \/ /\ part = "thread" /\ Thread!ThreadInit
     /\ x9 = 0 /\ x10 = 0 /\ x11 = 0 /\ x12 = 0 /\ x13 = 0 /\ x14 = 0 /\ x15 = 0 /\ x16 = 0 /\ x17 = 0
     /\ x18 = 0 /\ x19 = 0 /\ x20 = 0
  \/ /\ part = "calendar" /\ Calendar!CalendarInit
     /\ x4 = 0 /\ x5 = 0 /\ x6 = 0 /\ x7 = 0 /\ x8 = 0 /\ x9 = 0 /\ x10 = 0 /\ x11 = 0 /\ x12 = 0
     /\ x13 = 0 /\ x14 = 0 /\ x15 = 0 /\ x16 = 0 /\ x17 = 0 /\ x18 = 0 /\ x19 = 0 /\ x20 = 0

SiteNext ==
  \/ part = "stake" /\ Stake!Next /\ UNCHANGED <<part, from17>>
  \/ part = "sessions" /\ Session!SessionsNext /\ UNCHANGED <<part, from12>>
  \/ part = "principals" /\ Principal!PrincipalsNext /\ UNCHANGED <<part, from7>>
  \/ part = "cutover" /\ Cutover!CutoverNext /\ UNCHANGED <<part, from14>>
  \/ part = "release" /\ Release!ReleaseNext /\ UNCHANGED <<part, from14>>
  \/ part = "admin" /\ Admin!AdminNext /\ UNCHANGED <<part>>
  \/ part = "ledger" /\ Ledger!LedgerNext /\ UNCHANGED <<part, from13>>
  \/ part = "profiles" /\ Profile!ProfilesNext /\ UNCHANGED <<part, from15>>
  \/ part = "thread" /\ Thread!ThreadNext /\ UNCHANGED <<part, from9>>
  \/ part = "calendar" /\ Calendar!CalendarNext /\ UNCHANGED <<part, from4>>

siteVars == <<part, x1, x2, x3, x4, x5, x6, from7>>

SiteSpec == SiteInit /\ [][SiteNext]_siteVars

\* Clicks, challenges, requests, transactions and payouts are interchangeable, and so are
\* wallets and accounts; the parts use the same names for them.
Interchangeable == Permutations(Clicks) \cup Permutations(Wallets)

-----------------------------------------------------------------------------
(* The page of a campaign shows the chain it was indexed to, to who is signed  *)
(* in, and a stake is signed by the wallet that clicked: StakeInv of StakePage *)
(* (keyword-market-campaign-detail.tsx, ads-chain.adapter.ts).                 *)
StakeInv == part = "stake" => Stake!StakeInv

(* A session is of who signed its challenge, and a root principal owned the    *)
(* escrow a moment ago: SessionsInv of Sessions and PrincipalsInv of           *)
(* Principals (auth.service.ts, use-wallet-session.ts, safe.service.ts).       *)
AccessInv ==
  /\ part = "sessions" => Session!SessionsInv
  /\ part = "principals" => Principal!PrincipalsInv


(* What five pages show and send, each up to where the code lets requests      *)
(* cross (README, known departures).                                           *)
(*   AdminInv of AdminPage: actions that fail, or stay unanswered half-way,    *)
(*     leave nothing pending unpolled and no acceptance exported twice unasked;*)
(*     not where a second action cleared the flag of the first, or an older    *)
(*     reading was shown last.                                                 *)
(*   LedgerInv of PublicLedger: goal, contributions and payouts, read one after*)
(*     the other while handlers and jobs write, never add up to too much, and  *)
(*     a list read across a rebuild repeats nothing.                           *)
(*   ProfilesInv of Profiles: the row follows the chain through every fork; a  *)
(*     late answer of the gateway marks no other picture unless a fork used a  *)
(*     revision again; a profile or contribution is of the account chosen when *)
(*     the button was clicked, not of one switched to after it.                *)
(*   ThreadInv of ForumThread: no reply is shown twice, whatever crosses; none *)
(*     is missing unless loadEarlier answered for a page that was left.        *)
(*   CalendarInv of MonthlyCalendar: the dates shown are the contract's.       *)
(* (use-admin-workspace.ts, public.service.ts, sponsor-profile-form.tsx,       *)
(* contribution-panel.tsx, use-forum-replies.ts, monthly-schedule.ts)          *)
PagesInv ==
  /\ part = "admin" => Admin!AdminInv
  /\ part = "ledger" => Ledger!LedgerInv
  /\ part = "profiles" => Profile!ProfilesInv
  /\ part = "thread" => Thread!ThreadInv
  /\ part = "calendar" => Calendar!CalendarInv
=============================================================================
