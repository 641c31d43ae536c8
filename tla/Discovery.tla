----------------------------- MODULE Discovery -----------------------------
(***************************************************************************)
(* The provider searches of a worker process: DiscoveryConcurrency with    *)
(* its registry of tenant semaphores, the circuit breaker of a provider    *)
(* and DiscoveryService._search_one, on one event loop.                    *)
(*                                                                         *)
(* Code between two awaits is one action.  The registry lock is never held *)
(* across an await, so taking it does not suspend; releasing a semaphore   *)
(* does not either.  What a search waits for are the three semaphores and  *)
(* the provider.                                                           *)
(***************************************************************************)
EXTENDS Integers, FiniteSets

CONSTANTS
    Searches,       \* tasks that search, over and over
    TenantOf,       \* Searches -> tenant
    ProviderOf,     \* Searches -> provider
    GlobalLimit, TenantLimit, ProviderLimit,
    FailureThreshold

ASSUME DiscoveryAssumption ==
    /\ IsFiniteSet(Searches)
    /\ {GlobalLimit, TenantLimit, ProviderLimit, FailureThreshold} \subseteq Nat \ {0}

VARIABLES
    search,     \* Searches -> [at, sem]: where the task is, and the semaphore
                \* object of its tenant that the registry gave to it
    registry,   \* tenant -> [sem, refs]: _tenants and _tenant_references
    breaker     \* provider -> [state, failures, cool, probe]

discoveryVars == <<search, registry, breaker>>

Tenants   == {TenantOf[s] : s \in Searches}
Providers == {ProviderOf[s] : s \in Searches}

\* Semaphore objects have an identity: one that left the registry may still
\* be in use.  An object nobody refers to may be taken for a new one.
NoSemaphore == 0
Semaphores  == 1..Cardinality(Searches)

Stages == {"idle", "tenant", "provider", "global", "calling"}

At(stages) == {s \in Searches : search[s].at \in stages}

\* async with tenant, provider_gate, self._global: what each stage holds.
HoldsTenant(s)   == search[s].at \in {"provider", "global", "calling"}
HoldsProvider(s) == search[s].at \in {"global", "calling"}

\* failures is kept up to the threshold, which is all it is compared with;
\* cool says that recovery_seconds have passed since opened_at.
Closed == [state |-> "CLOSED", failures |-> 0, cool |-> FALSE, probe |-> FALSE]

DiscoveryTypes ==
    /\ search \in [Searches -> [at : Stages, sem : Semaphores \cup {NoSemaphore}]]
    /\ registry \in [Tenants -> [sem : Semaphores \cup {NoSemaphore}, refs : Nat]]
    /\ breaker \in [Providers -> [state : {"CLOSED", "OPEN", "HALF_OPEN"},
                                  failures : 0..FailureThreshold,
                                  cool : BOOLEAN, probe : BOOLEAN]]

DiscoveryInit ==
    /\ search = [s \in Searches |-> [at |-> "idle", sem |-> NoSemaphore]]
    /\ registry = [t \in Tenants |-> [sem |-> NoSemaphore, refs |-> 0]]
    /\ breaker = [p \in Providers |-> Closed]

-----------------------------------------------------------------------------
(***************************************************************************)
(* CircuitBreaker.                                                         *)
(***************************************************************************)
HalfOpen(b) == [b EXCEPT !.state = "HALF_OPEN", !.probe = FALSE]

\* allow_request first lets an open breaker that has cooled down probe.
Waking(b) == IF b.state = "OPEN" /\ b.cool THEN HalfOpen(b) ELSE b

Allows(b) ==
    \/ Waking(b).state = "CLOSED"
    \/ Waking(b).state = "HALF_OPEN" /\ ~Waking(b).probe

\* Mutant: the probe is not recorded.
AfterUnrecorded(b) == Waking(b)

AfterRequest(b) ==
    IF Waking(b).state = "HALF_OPEN" THEN [Waking(b) EXCEPT !.probe = TRUE] ELSE b

Opened(b) == [b EXCEPT !.state = "OPEN", !.cool = FALSE, !.probe = FALSE]

AfterFailure(b) ==
    IF b.state = "HALF_OPEN" THEN Opened(b)
    ELSE LET n == IF b.failures < FailureThreshold THEN b.failures + 1 ELSE b.failures
             c == [b EXCEPT !.failures = n, !.probe = FALSE]
         IN  IF n = FailureThreshold THEN Opened(c) ELSE c

\* _search_one: only these outcomes reach the breaker.  "other" is an error
\* of another category (CONTENT, PERMANENT: an unreadable answer, HTTP 4xx).
Outcomes == {"ok", "transient", "other"}

Recorded(b, outcome) ==
    CASE outcome = "ok"        -> Closed
      [] outcome = "transient" -> AfterFailure(b)
      [] outcome = "other"     -> b

-----------------------------------------------------------------------------
(***************************************************************************)
(* DiscoveryConcurrency.                                                   *)
(***************************************************************************)
\* _semaphores: the registry's semaphore of the tenant, or a new one.
Register(s) ==
    LET t     == TenantOf[s]
        known == registry[t].sem # NoSemaphore
        used  == {search[x].sem : x \in Searches} \cup {registry[u].sem : u \in Tenants}
        new   == CHOOSE g \in Semaphores : g \notin used
        sem   == IF known THEN registry[t].sem ELSE new
    IN  /\ search[s].at = "idle"
        /\ registry' = [registry EXCEPT ![t] = [sem |-> sem, refs |-> @.refs + 1]]
        /\ search' = [search EXCEPT ![s] = [at |-> "tenant", sem |-> sem]]
        /\ UNCHANGED breaker

EnterTenant(s) ==
    /\ search[s].at = "tenant"
    /\ Cardinality({x \in Searches : search[x].sem = search[s].sem /\ HoldsTenant(x)})
            < TenantLimit
    /\ search' = [search EXCEPT ![s].at = "provider"]
    /\ UNCHANGED <<registry, breaker>>

EnterProvider(s) ==
    /\ search[s].at = "provider"
    /\ Cardinality({x \in Searches : ProviderOf[x] = ProviderOf[s] /\ HoldsProvider(x)})
            < ProviderLimit
    /\ search' = [search EXCEPT ![s].at = "global"]
    /\ UNCHANGED <<registry, breaker>>

\* Mutant: the semaphore leaves the registry with the first search that ends.
ForgetTenant(s) ==
    /\ registry' = [registry EXCEPT ![TenantOf[s]] =
            [sem |-> NoSemaphore, refs |-> IF @.refs = 0 THEN 0 ELSE @.refs - 1]]
    /\ search' = [search EXCEPT ![s] = [at |-> "idle", sem |-> NoSemaphore]]

\* The end of acquire: the semaphores and, by _release_tenant_reference, the
\* reference to the tenant's are given back.
Release(s) ==
    /\ registry' = [registry EXCEPT ![TenantOf[s]] =
            IF @.refs = 1 THEN [sem |-> NoSemaphore, refs |-> 0]
            ELSE [sem |-> @.sem, refs |-> @.refs - 1]]
    /\ search' = [search EXCEPT ![s] = [at |-> "idle", sem |-> NoSemaphore]]

-----------------------------------------------------------------------------
(***************************************************************************)
(* DiscoveryService._search_one, inside of acquire.                        *)
(***************************************************************************)
Admitted(s) ==
    /\ search[s].at = "global"
    /\ Cardinality(At({"calling"})) < GlobalLimit

\* The deadline passed while the search was waiting.
TooLate(s) ==
    /\ Admitted(s)
    /\ Release(s)
    /\ UNCHANGED breaker

Refused(s) ==
    /\ Admitted(s)
    /\ ~Allows(breaker[ProviderOf[s]])
    /\ Release(s)
    /\ UNCHANGED breaker

Call(s) ==
    /\ Admitted(s)
    /\ Allows(breaker[ProviderOf[s]])
    /\ breaker' = [breaker EXCEPT ![ProviderOf[s]] = AfterRequest(@)]
    /\ search' = [search EXCEPT ![s].at = "calling"]
    /\ UNCHANGED registry

\* The provider answers, fails, or asyncio.timeout ends the call.
Answer(s, outcome) ==
    /\ search[s].at = "calling"
    /\ Release(s)
    /\ breaker' = [breaker EXCEPT ![ProviderOf[s]] = Recorded(@, outcome)]

\* The step is cancelled, wherever its search is: nothing is recorded.
Cancelled(s) ==
    /\ search[s].at # "idle"
    /\ Release(s)
    /\ UNCHANGED breaker

\* recovery_seconds have passed since the breaker opened.  A call gets 2 or 8
\* seconds and the recovery takes 30, so every call of before has ended.
Cool(p) ==
    /\ breaker[p].state = "OPEN" /\ ~breaker[p].cool
    /\ \A s \in At({"calling"}) : ProviderOf[s] # p
    /\ breaker' = [breaker EXCEPT ![p].cool = TRUE]
    /\ UNCHANGED <<search, registry>>

DiscoveryNext ==
    \/ \E s \in Searches :
        \/ Register(s) \/ EnterTenant(s) \/ EnterProvider(s)
        \/ TooLate(s) \/ Refused(s) \/ Call(s) \/ Cancelled(s)
        \/ \E outcome \in Outcomes : Answer(s, outcome)
    \/ \E p \in Providers : Cool(p)

DiscoverySpec == DiscoveryInit /\ [][DiscoveryNext]_discoveryVars

-----------------------------------------------------------------------------
(***************************************************************************)
(* Properties.                                                             *)
(***************************************************************************)

\* The limits hold for calls at every level, although a tenant's semaphore is
\* dropped from the registry and made anew while searches of the tenant come,
\* wait, are cancelled and go (acquire, _release_tenant_reference).
LimitsHold ==
    /\ Cardinality(At({"calling"})) <= GlobalLimit
    /\ \A t \in Tenants :
        Cardinality({s \in At({"calling"}) : TenantOf[s] = t}) <= TenantLimit
    /\ \A p \in Providers :
        Cardinality({s \in At({"calling"}) : ProviderOf[s] = p}) <= ProviderLimit

\* A provider that is being probed gets one call and no other, although calls
\* of before it opened end late, in any order and with any outcome
\* (allow_request, record_success, record_failure).
ProbeIsAlone ==
    \A p \in Providers :
        breaker[p].state = "HALF_OPEN" =>
            Cardinality({s \in At({"calling"}) : ProviderOf[s] = p}) <= 1

\* A probe ends: the breaker does not wait for a probe that nobody makes, in
\* which case it would refuse the provider for good.
NeverBlacklisted ==
    \A p \in Providers :
        breaker[p].state = "HALF_OPEN" /\ breaker[p].probe =>
            \E s \in At({"calling"}) : ProviderOf[s] = p
=============================================================================
