-------------------------------- MODULE Profiles --------------------------------
(* The profile an account keeps on the escrow contract, from its writing to its  *)
(* picture: the worker's projection of its events (event-handlers.ts), the file   *)
(* the API proxies and the browser caches for a year (public.service.ts avatar),  *)
(* the form that writes it (sponsor-profile-form.tsx) and the panel that takes its *)
(* default for the credit of a contribution (contribution-panel.tsx).  A behavior *)
(* watches one of the three.  The contract and the gateway are external.          *)
EXTENDS Naturals, Sequences, FiniteSets

CONSTANTS Accounts, Clicks, Requests,
          MaxWrites,   \* profiles written on the chain
          MaxSwitches  \* accounts switched in the wallet, and forks

\* Files that are pictures, one that is not, a malformed URI; the indexer skips a
\* profile with a garbled name.
Pictures == {"picture", "portrait"}
Avatars == Pictures \cup {"page", "malformed", "garbled"}
Blank == [avatar |-> "none", public |-> FALSE]
NoProfile == [revision |-> 0, active |-> FALSE, avatar |-> "none", public |-> FALSE]
Nobody == "nobody"

VARIABLES
  contract,  \* the profile of each account
  log,       \* the events of the chain: a profile with its account
  applied,   \* how many of them the worker has applied
  row,       \* sponsorProfile, with avatarStatus
  request,   \* avatar requests on the server
  cached,    \* the answers browsers keep, immutable
  account,   \* the account of the wallet
  read,      \* what the page has read of each profile, or NoRead
  form,      \* profile and loadedProfileRef of the form, with the account it is of
  panel,     \* visibility, visibilityChosenRef, with the account that decided it
  busy,      \* a status that disables the buttons
  flow,      \* what a click started: what it writes, by whom that was decided, who signed
  switches,
  visit      \* what the behavior watches: "avatar", "form" or "panel"

profileVars == <<contract, log, applied, row, request, cached, account, read, form, panel, busy,
                 flow, switches, visit>>
chain == <<contract, log>>
server == <<applied, row, request, cached>>
web == <<account, read, form, panel, busy, flow>>

NoRead == [NoProfile EXCEPT !.revision = MaxWrites + 1]
Idle == [pc |-> "idle", kind |-> "none", of |-> Nobody, what |-> Blank, by |-> Nobody,
         from |-> Nobody, crossed |-> FALSE]
NoRequest == [pc |-> "idle", account |-> Nobody, revision |-> 0, avatar |-> "none"]
EmptyRow == [revision |-> 0, active |-> FALSE, avatar |-> "none", public |-> FALSE, status |-> "NOT_SET"]

ProfilesInit ==
  /\ visit \in {"avatar", "form", "panel"}
  /\ contract = [a \in Accounts |-> NoProfile] /\ log = <<>> /\ applied = 0
  /\ row = [a \in Accounts |-> EmptyRow]
  /\ request = [q \in Requests |-> NoRequest] /\ cached = {}
  /\ account \in {IF visit = "avatar" THEN Nobody ELSE b : b \in Accounts \cup {Nobody}}
  /\ read = [a \in Accounts |-> NoRead]
  /\ form = [what |-> Blank, of |-> Nobody, loaded |-> <<Nobody, 0>>]
  /\ panel = [public |-> FALSE, chosen |-> FALSE, by |-> Nobody]
  /\ busy = FALSE /\ flow = [c \in Clicks |-> Idle] /\ switches = 0

-----------------------------------------------------------------------------
(* The contract, and the worker's projection. *)

Write(a, active, what) ==
  LET profile == [revision |-> contract[a].revision + 1, active |-> active,
                  avatar |-> what.avatar, public |-> what.public] IN
  /\ Len(log) < MaxWrites
  /\ contract' = [contract EXCEPT ![a] = profile]
  /\ log' = Append(log, [account |-> a, profile |-> profile])

\* The account writes from elsewhere; once while a page is watched.
WriteElsewhere ==
  /\ visit = "avatar" \/ log = <<>>
  /\ \E a \in Accounts :
       \/ visit = "avatar" /\ \E avatar \in Avatars : Write(a, TRUE, [avatar |-> avatar, public |-> FALSE])
       \/ visit /= "avatar" /\ \E public \in BOOLEAN : Write(a, TRUE, [avatar |-> "picture", public |-> public])
       \/ contract[a].active /\ Write(a, FALSE, Blank)
  /\ UNCHANGED <<server, web, switches, visit>>

StatusOf(avatar) ==
  CASE avatar = "none" -> "NOT_SET" [] avatar = "malformed" -> "INVALID" [] OTHER -> "UNAVAILABLE"

\* A name with bytes that are not UTF-8 text is passed over.
ApplyProfile ==
  LET event == log[applied + 1] IN
  /\ visit = "avatar" /\ applied < Len(log) /\ applied' = applied + 1
  /\ row' = IF event.profile.avatar = "garbled" THEN row
            ELSE [row EXCEPT ![event.account] =
                    [revision |-> event.profile.revision, active |-> event.profile.active,
                     avatar |-> event.profile.avatar, public |-> event.profile.public,
                     status |-> StatusOf(event.profile.avatar)]]
  /\ UNCHANGED <<chain, request, cached, web, switches, visit>>

KeepsProfiles == row
ResetProfiles == [a \in Accounts |-> EmptyRow]

\* The last event is not in the chain any more; the projection starts over.
ForkProfiles ==
  /\ visit = "avatar" /\ switches < MaxSwitches /\ switches' = switches + 1 /\ log /= <<>>
  /\ log' = SubSeq(log, 1, Len(log) - 1)
  /\ LET a == log[Len(log)].account
         before == {i \in 1..(Len(log) - 1) : log[i].account = a}
     IN contract' = [contract EXCEPT ![a] =
          IF before = {} THEN NoProfile
          ELSE log[CHOOSE i \in before : \A j \in before : j <= i].profile]
  /\ applied' = 0 /\ row' = ResetProfiles
  /\ UNCHANGED <<request, cached, web, visit>>

-----------------------------------------------------------------------------
(* The picture. *)

AnyRevision(a, revision) == TRUE
HasRevision(a, revision) == row[a].revision = revision

\* A page asks with the revision it was rendered with, the current one or an earlier.
AskAvatar(q, a, revision) ==
  /\ visit = "avatar" /\ request[q].pc = "idle" /\ revision \in 1..contract[a].revision
  /\ row[a].active /\ HasRevision(a, revision)
  /\ row[a].avatar /= "none" /\ row[a].status /= "INVALID"
  /\ request' = [request EXCEPT ![q] =
       [pc |-> "fetching", account |-> a, revision |-> revision, avatar |-> row[a].avatar]]
  /\ UNCHANGED <<chain, applied, row, cached, web, switches, visit>>

\* markStatus writes where the row still has the revision.
MarksAny(a, revision) == row[a].revision > 0
Marks(a, revision) == row[a].revision = revision

Mark(q, status) ==
  LET a == request[q].account IN
  row' = IF Marks(a, request[q].revision) THEN [row EXCEPT ![a].status = status] ELSE row

\* The gateway does not answer; the answer is too long, cut off or no picture; or the
\* picture is served, for the browser to keep under the address it was asked with.
AvatarAnswered(q) ==
  LET asked == request[q] IN
  /\ asked.pc = "fetching" /\ request' = [request EXCEPT ![q] = NoRequest]
  /\ \/ Mark(q, "UNAVAILABLE") /\ UNCHANGED cached
     \/ Mark(q, "INVALID") /\ UNCHANGED cached
     \/ /\ asked.avatar \in Pictures /\ Mark(q, "AVAILABLE")
        /\ cached' = cached \cup
             {[account |-> asked.account, revision |-> asked.revision, avatar |-> asked.avatar]}
  /\ UNCHANGED <<chain, applied, web, switches, visit>>

-----------------------------------------------------------------------------
(* The pages: what a render does with the account and what was read of it. *)

\* An account that connects starts with nothing of the one before.
KeepsChoice == panel
ResetPanel == [public |-> FALSE, chosen |-> FALSE, by |-> Nobody]

ResetForm == [what |-> Blank, of |-> Nobody, loaded |-> <<Nobody, 0>>]

\* The default of the profile, unless the user has chosen.
Defaulted(p, a, profile) ==
  IF a = Nobody \/ profile = NoRead \/ p.chosen THEN p
  ELSE [p EXCEPT !.public = profile.public, !.by = a]

\* A revision is loaded once.
Loaded(f, a, profile) ==
  IF a = Nobody \/ profile = NoRead \/ f.loaded = <<a, profile.revision>> THEN f
  ELSE [what |-> [avatar |-> profile.avatar, public |-> profile.public], of |-> a,
        loaded |-> <<a, profile.revision>>]

ReadOf(a) == IF a = Nobody THEN NoRead ELSE read[a]

\* A click that is waiting is no longer that account's.
Crossed == [c \in Clicks |-> IF flow[c].pc = "idle" THEN Idle ELSE [flow[c] EXCEPT !.crossed = TRUE]]

\* The wallet connects, switches or disconnects; a read may still be cached.
SwitchAccount(a) ==
  /\ visit /= "avatar" /\ switches < MaxSwitches /\ switches' = switches + 1
  /\ a /= account /\ account' = a
  /\ panel' = IF visit = "panel" THEN Defaulted(ResetPanel, a, ReadOf(a)) ELSE panel
  /\ form' = IF visit = "form" THEN Loaded(ResetForm, a, ReadOf(a)) ELSE form
  /\ busy' = IF visit = "form" THEN FALSE ELSE busy
  /\ flow' = Crossed
  /\ UNCHANGED <<chain, server, read, visit>>

\* Only a change of the profile runs the effects again; f is the form until then.
Refetch(a, f) ==
  LET changed == a = account /\ contract[a] /= read[a] IN
  /\ read' = [read EXCEPT ![a] = contract[a]]
  /\ panel' = IF changed /\ visit = "panel" THEN Defaulted(panel, a, contract[a]) ELSE panel
  /\ form' = IF changed /\ visit = "form" THEN Loaded(f, a, contract[a]) ELSE f

\* The first read of an account, or one on focus.
ReadProfile ==
  /\ visit /= "avatar" /\ account /= Nobody /\ contract[account] /= read[account]
  /\ Refetch(account, form)
  /\ UNCHANGED <<chain, server, account, busy, flow, switches, visit>>

Offered == account /= Nobody /\ (visit = "form" => read[account] /= NoRead)

Edit(public) ==
  /\ visit = "form" /\ Offered
  /\ form' = [form EXCEPT !.what = [avatar |-> "portrait", public |-> public], !.of = account]
  /\ UNCHANGED <<chain, server, account, read, panel, busy, flow, switches, visit>>

ChooseVisibility(public) ==
  /\ visit = "panel" /\ panel' = [public |-> public, chosen |-> TRUE, by |-> account]
  /\ UNCHANGED <<chain, server, account, read, form, busy, flow, switches, visit>>

-----------------------------------------------------------------------------
(* save, clear and contribute. *)

Goes(c, pc) == flow' = [flow EXCEPT ![c] = IF pc = "idle" THEN Idle ELSE [@ EXCEPT !.pc = pc]]

\* The values are those of the render the click was made on.
Click(c, kind) ==
  /\ flow[c].pc = "idle" /\ Offered /\ ~busy
  /\ CASE visit = "form" -> kind \in {"save", "clear"} [] visit = "panel" -> kind = "contribute"
       [] OTHER -> FALSE
  /\ kind = "save" => form.what.avatar /= "none"
  /\ kind = "clear" => read[account].active
  /\ flow' = [flow EXCEPT ![c] =
       [pc |-> "switching", kind |-> kind, of |-> account, from |-> Nobody, crossed |-> FALSE,
        what |-> IF kind = "contribute" THEN [avatar |-> "none", public |-> panel.public] ELSE form.what,
        by |-> IF kind = "contribute" THEN panel.by ELSE form.of]]
  /\ UNCHANGED <<chain, server, account, read, form, panel, busy, switches, visit>>

\* The wallet is on the network: balance and allowance are read before a contribution.
Switched(c) ==
  /\ flow[c].pc = "switching" /\ busy' = TRUE
  /\ Goes(c, IF flow[c].kind = "contribute" THEN "reading" ELSE "signing")
  /\ UNCHANGED <<chain, server, account, read, form, panel, switches, visit>>

\* The allowance is enough, or the wallet approves and the approval is confirmed.
Allowed(c) ==
  /\ flow[c].pc = "reading" /\ Goes(c, "signing") /\ busy' = TRUE
  /\ UNCHANGED <<chain, server, account, read, form, panel, switches, visit>>

\* The other asset is picked: the button is offered again.
PickAsset ==
  /\ visit = "panel" /\ busy /\ busy' = FALSE
  /\ UNCHANGED <<chain, server, account, read, form, panel, flow, switches, visit>>

\* Whichever account the wallet has signs; the transaction is included.
Sign(c) ==
  LET f == flow[c] IN
  /\ f.pc = "signing" /\ account /= Nobody
  /\ CASE f.kind = "save" -> Write(account, TRUE, f.what)
       [] f.kind = "clear" -> Write(account, FALSE, Blank)
       [] OTHER -> UNCHANGED chain
  /\ flow' = [flow EXCEPT ![c].pc = "confirming", ![c].from = account] /\ busy' = TRUE
  /\ UNCHANGED <<server, account, read, form, panel, switches, visit>>

\* waitForFinality reads the profile of the account of the click again.  A cleared form
\* is emptied, whoever it is of by then.
Ends(c) ==
  LET f == flow[c]
      again == [form EXCEPT !.loaded = <<Nobody, 0>>]
  IN
  /\ f.pc = "confirming" /\ Goes(c, IF f.kind = "clear" THEN "emptying" ELSE "idle")
  /\ busy' = (f.kind /= "save")
  /\ IF f.kind = "contribute" THEN UNCHANGED <<read, form, panel>> ELSE Refetch(f.of, again)
  /\ UNCHANGED <<chain, server, account, switches, visit>>

Empties(c) ==
  /\ flow[c].pc = "emptying" /\ Goes(c, "idle") /\ busy' = FALSE
  /\ form' = [form EXCEPT !.what = Blank, !.of = Nobody]
  /\ UNCHANGED <<chain, server, account, read, panel, switches, visit>>

\* A refusal in the wallet, too little balance, a revert, an RPC that does not answer.
Fails(c) ==
  /\ flow[c].pc \notin {"idle", "emptying"} /\ Goes(c, "idle") /\ busy' = FALSE
  /\ UNCHANGED <<chain, server, account, read, form, panel, switches, visit>>

ProfilesNext ==
  \/ WriteElsewhere \/ ApplyProfile \/ ForkProfiles
  \/ \E q \in Requests : \/ \E a \in Accounts, revision \in 1..MaxWrites : AskAvatar(q, a, revision)
                         \/ AvatarAnswered(q)
  \/ \E a \in Accounts \cup {Nobody} : SwitchAccount(a)
  \/ ReadProfile \/ PickAsset
  \/ \E public \in BOOLEAN : Edit(public) \/ ChooseVisibility(public)
  \/ \E c \in Clicks : \/ \E kind \in {"save", "clear", "contribute"} : Click(c, kind)
                       \/ Switched(c) \/ Allowed(c) \/ Sign(c) \/ Ends(c) \/ Empties(c) \/ Fails(c)

ProfilesSpec == ProfilesInit /\ [][ProfilesNext]_profileVars

-----------------------------------------------------------------------------
(* Properties. *)

\* The projection of a profile is the last indexable event of its account among those
\* applied, also after a reorganization (applyProfileUpdate, applyProfileClear,
\* resetProfileProjectionAfterReorg).
RowIsOfTheChain ==
  \A a \in Accounts :
    LET events == {i \in 1..applied : log[i].account = a /\ log[i].profile.avatar /= "garbled"} IN
    IF events = {} THEN row[a] = EmptyRow
    ELSE \E i \in events :
           /\ \A j \in events : j <= i
           /\ [row[a] EXCEPT !.status = "any"] =
                [k \in DOMAIN row[a] |-> IF k = "status" THEN "any" ELSE log[i].profile[k]]

\* While no fork reuses a revision, a file is called available only if it is a picture:
\* a slow answer for an earlier file marks nothing (markStatus).
AvailableIsPicture ==
  \A a \in Accounts : switches = 0 /\ row[a].status = "AVAILABLE" => row[a].avatar \in Pictures

\* While no fork reuses a revision, what a browser keeps for a year under an account
\* and a revision is the file of that revision (avatar, Cache-Control: immutable).
CachedIsOfRevision ==
  switches = 0 =>
    \A entry \in cached : \A i \in DOMAIN log :
      log[i].account = entry.account /\ log[i].profile.revision = entry.revision
        => log[i].profile.avatar = entry.avatar

\* Unless the wallet switched while it was in flight, a contribution shows the profile of
\* the account that pays only by that account's choice or default, and a profile is
\* written only with what was loaded or edited for its account (the effects on address).
AccountDecides ==
  \A c \in Clicks :
    flow[c].pc = "confirming" /\ (flow[c].kind = "save" \/ flow[c].what.public) /\ ~flow[c].crossed
      => flow[c].by = flow[c].from

ProfilesInv == RowIsOfTheChain /\ AvailableIsPicture /\ CachedIsOfRevision /\ AccountDecides

=============================================================================
