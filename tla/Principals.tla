------------------------------ MODULE Principals ------------------------------
(* Who may act as the administrator (src/apps/api/src/auth/auth.service.ts,     *)
(* src/apps/api/src/safe/safe.service.ts).  SUPER_ADMIN goes to the projected   *)
(* owner of the escrow and, while that is the Safe, to the Safe's owners, which *)
(* are read from the chain and cached.  Requests overlap, and each reads its    *)
(* sources one after the other.  The module follows one wallet; the roles that  *)
(* the database and the GOAL_MANAGER rows give are left out.                    *)
EXTENDS Naturals

CONSTANTS Requests,
          CacheTtl,  \* SAFE_INFO_CACHE_MS, in ticks
          MaxWait    \* how long a request may take, in ticks

VARIABLES
  safeOwner,  \* the wallet owns the Safe, on the chain
  owner,      \* the owner of the escrow, on the chain: "wallet" or "safe"
  projected,  \* the OWNER row of chainAuthority
  cache,      \* cachedInfo, with the ticks it has left
  principal,  \* the requests in progress, with their age
  age         \* age[f]: for how long the fact f has not held, a history variable

principalVars == <<safeOwner, owner, projected, cache, principal, age>>

NoInfo == [known |-> FALSE, owns |-> FALSE]
NoCache == [info |-> NoInfo, left |-> 0]
NoRequest == [pc |-> "idle", kind |-> "none", age |-> 0, projected |-> "none", info |-> NoInfo,
              root |-> FALSE]

\* The longest time after which an answer may still rest on a fact.
Horizon == CacheTtl + MaxWait
Facts == {"safeOwner", "walletOwner"}
Holds(fact) == IF fact = "safeOwner" THEN safeOwner ELSE projected = "wallet"

PrincipalsInit ==
  /\ safeOwner \in BOOLEAN /\ owner \in {"wallet", "safe"} /\ projected = owner
  /\ cache = NoCache
  /\ principal = [r \in Requests |-> NoRequest]
  /\ age = [f \in Facts |-> IF Holds(f) THEN 0 ELSE Horizon + 1]

Becomes(r, x) == principal' = [principal EXCEPT ![r] = x]
Others == <<safeOwner, owner, projected, age>>

-----------------------------------------------------------------------------
(* A request: SessionGuard, or a handler that asks for the owner itself. *)

\* authenticate: the session with its user.
Authenticate(r) ==
  /\ principal[r].pc = "idle"
  /\ Becomes(r, [NoRequest EXCEPT !.pc = "authorities", !.kind = "session"])
  /\ UNCHANGED <<Others, cache>>

\* principalFor reads the projection.
ReadAuthorities(r) ==
  /\ principal[r].pc = "authorities"
  /\ Becomes(r, [principal[r] EXCEPT !.pc = "safe", !.projected = projected])
  /\ UNCHANGED <<Others, cache>>

\* effectiveRoles
IsRoot(x, info) == x.projected = "wallet" \/ (x.projected = "safe" /\ info.owns)

\* The principal; a Safe that cannot be read has no owner here.
Decided(x, info) ==
  [NoRequest EXCEPT !.pc = "decided", !.kind = x.kind, !.info = info, !.root = IsRoot(x, info)]

\* A cached answer is used whatever its age.
FreshWhenever == cache.info.known

CacheIsFresh == cache.info.known /\ cache.left > 0

RuntimeInfo(r) ==
  /\ principal[r].pc = "safe"
  /\ Becomes(r, IF CacheIsFresh THEN Decided(principal[r], cache.info)
                ELSE [principal[r] EXCEPT !.pc = "reading"])
  /\ UNCHANGED <<Others, cache>>

\* The handler asks for the Safe as principalFor does.
AssertCached == "safe"

\* assertOwner and assertSafeEscrowOwner read the chain, whatever is cached.
AssertForced == "reading"

AssertOwner(r) ==
  /\ principal[r].pc = "idle"
  /\ Becomes(r, [NoRequest EXCEPT !.pc = AssertForced, !.kind = "assert"])
  /\ UNCHANGED <<Others, cache>>

ReadChain(r) ==
  /\ principal[r].pc = "reading"
  /\ Becomes(r, [principal[r] EXCEPT !.pc = "read", !.info = [known |-> TRUE, owns |-> safeOwner]])
  /\ UNCHANGED <<Others, cache>>

\* The answer is cached from its arrival on, over one that arrived before it.
ReadEnds(r) ==
  /\ principal[r].pc = "read"
  /\ cache' = [info |-> principal[r].info, left |-> CacheTtl]
  /\ Becomes(r, Decided(principal[r], principal[r].info))
  /\ UNCHANGED Others

\* A failed reading falls back to the last answer.
FailureFromCache == cache.info

WithoutSafe == NoInfo

ReadFails(r) ==
  /\ principal[r].pc \in {"reading", "read"}
  /\ Becomes(r, Decided(principal[r], WithoutSafe))
  /\ UNCHANGED <<Others, cache>>

\* The handler has run, or RolesGuard refused it.
Answer(r) ==
  /\ principal[r].pc = "decided" /\ Becomes(r, NoRequest)
  /\ UNCHANGED <<Others, cache>>

-----------------------------------------------------------------------------
(* What changes meanwhile. *)

Observe == age' = [f \in Facts |-> IF Holds(f)' THEN 0 ELSE age[f]]

\* The owners of the Safe (external).
ChangeSafeOwners ==
  /\ safeOwner' = ~safeOwner
  /\ UNCHANGED <<owner, projected, cache, principal>> /\ Observe

\* acceptOwnership of the escrow (external).
AcceptOwnership ==
  /\ owner' \in {"wallet", "safe"} \ {owner}
  /\ UNCHANGED <<safeOwner, projected, cache, principal, age>>

\* The indexer projects the confirmed owner.
ApplyAuthorityChange ==
  /\ projected # owner /\ projected' = owner
  /\ UNCHANGED <<safeOwner, owner, cache, principal>> /\ Observe

\* A tick; requests end within MaxWait.
Tick ==
  /\ \A r \in Requests : principal[r].pc = "decided" \/ principal[r].pc = "idle"
                         \/ principal[r].age < MaxWait
  /\ \A r \in Requests : principal[r].pc # "decided"
  /\ principal' = [r \in Requests |->
       IF principal[r].pc = "idle" THEN principal[r] ELSE [principal[r] EXCEPT !.age = @ + 1]]
  /\ cache' = [cache EXCEPT !.left = IF @ = 0 THEN 0 ELSE @ - 1]
  /\ age' = [f \in Facts |-> IF Holds(f) \/ age[f] > Horizon THEN age[f] ELSE age[f] + 1]
  /\ UNCHANGED <<safeOwner, owner, projected>>

PrincipalsNext ==
  \/ \E r \in Requests :
       \/ Authenticate(r) \/ ReadAuthorities(r) \/ RuntimeInfo(r) \/ AssertOwner(r)
       \/ ReadChain(r) \/ ReadEnds(r) \/ ReadFails(r) \/ Answer(r)
  \/ ChangeSafeOwners \/ AcceptOwnership \/ ApplyAuthorityChange \/ Tick

PrincipalsSpec == PrincipalsInit /\ [][PrincipalsNext]_principalVars

-----------------------------------------------------------------------------
(* Properties. *)

\* Root authority follows the chain although it is read in pieces: whoever is
\* granted SUPER_ADMIN was the projected owner during the request, or owned the
\* Safe no longer ago than a reading and its caching last
\* (effectiveRoles, principalFor, runtimeInfo).
RootFollowsOwner ==
  \A r \in Requests : principal[r].root => age["walletOwner"] <= MaxWait \/ age["safeOwner"] <= Horizon

\* A handler that asserts the Safe's owner relies on no cached answer
\* (assertOwner with force).
AssertedOwnerIsCurrent ==
  \A r \in Requests :
    principal[r].kind = "assert" /\ principal[r].pc = "decided" /\ principal[r].info.owns
      => age["safeOwner"] <= MaxWait

PrincipalsInv == RootFollowsOwner /\ AssertedOwnerIsCurrent
=============================================================================
