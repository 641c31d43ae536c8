--------------------------- MODULE ServicesProofs ---------------------------
(***************************************************************************)
(* Proofs about the two models of what happens beside the step store: the  *)
(* searches of Discovery, for any number of searches, tenants, providers   *)
(* and any limits, and the row locks of LockOrder, for any number of steps *)
(* and attempts.                                                           *)
(***************************************************************************)
EXTENDS Discovery, LockOrder, FiniteSetTheorems, TLAPS

(***************************************************************************)
(* Discovery: types and the registry of semaphores.                        *)
(***************************************************************************)

\* The searches of a tenant that have asked for its semaphore.
Busy(t) == {s \in Searches : TenantOf[s] = t /\ search[s].at # "idle"}

\* References are counted right, a tenant has a semaphore exactly while one of
\* its searches needs it, and all of these have the same one.
Registered ==
    /\ \A t \in Tenants :
        /\ registry[t].refs = Cardinality(Busy(t))
        /\ registry[t].sem = NoSemaphore <=> Busy(t) = {}
    /\ \A s \in Searches :
        search[s].sem = IF search[s].at = "idle" THEN NoSemaphore
                        ELSE registry[TenantOf[s]].sem

\* Holders of a tenant's semaphore, of a provider's, and of the global one.
OfSemaphore(g) == {x \in Searches : search[x].sem = g /\ HoldsTenant(x)}
OfProvider(p)  == {x \in Searches : ProviderOf[x] = p /\ HoldsProvider(x)}

\* No semaphore has more holders than it was made for.
Bounded ==
    /\ \A g \in Semaphores : Cardinality(OfSemaphore(g)) <= TenantLimit
    /\ \A p \in Providers : Cardinality(OfProvider(p)) <= ProviderLimit
    /\ Cardinality(At({"calling"})) <= GlobalLimit

\* Subsets of the searches are finite.
LEMMA FiniteSearches ==
    ASSUME NEW S \in SUBSET Searches
    PROVE  IsFiniteSet(S) /\ Cardinality(S) \in Nat
BY DiscoveryAssumption, FS_Subset, FS_CardinalityType

\* A task that moves from one stage to another.
Moves(s, stage) ==
    /\ search' = [search EXCEPT ![s].at = stage]
    /\ UNCHANGED registry

\* How a search that moves looks.
LEMMA MoveEffect ==
    ASSUME DiscoveryTypes, NEW s \in Searches, NEW stage \in Stages, Moves(s, stage)
    PROVE  /\ search' \in [Searches -> [at : Stages, sem : Semaphores \cup {NoSemaphore}]]
           /\ \A x \in Searches : /\ search'[x].sem = search[x].sem
                                  /\ search'[x].at = IF x = s THEN stage ELSE search[x].at
BY DEF Moves, DiscoveryTypes

\* How a search that ends leaves search and registry.
LEMMA ReleaseEffect ==
    ASSUME DiscoveryTypes, NEW s \in Searches, Release(s)
    PROVE  /\ search' \in [Searches -> [at : Stages, sem : Semaphores \cup {NoSemaphore}]]
           /\ search'[s].at = "idle" /\ search'[s].sem = NoSemaphore
           /\ \A x \in Searches \ {s} : search'[x] = search[x]
           /\ \A t \in Tenants \ {TenantOf[s]} : registry'[t] = registry[t]
           /\ registry[TenantOf[s]].refs = 1 =>
                /\ registry'[TenantOf[s]].sem = NoSemaphore
                /\ registry'[TenantOf[s]].refs = 0
           /\ registry[TenantOf[s]].refs # 1 =>
                /\ registry'[TenantOf[s]].sem = registry[TenantOf[s]].sem
                /\ registry'[TenantOf[s]].refs = registry[TenantOf[s]].refs - 1
<1>1. TenantOf[s] \in Tenants
  BY DEF Tenants
<1>2. [at |-> "idle", sem |-> NoSemaphore]
        \in [at : Stages, sem : Semaphores \cup {NoSemaphore}]
  BY DEF Stages
<1> QED BY <1>1, <1>2 DEF Release, DiscoveryTypes

\* A semaphore that nobody uses exists when a search asks for a new one.
LEMMA FreshSemaphore ==
    ASSUME DiscoveryTypes, Registered, NEW s \in Searches, search[s].at = "idle"
    PROVE  LET used == {search[x].sem : x \in Searches} \cup {registry[u].sem : u \in Tenants}
           IN  \E g \in Semaphores : g \notin used
<1> DEFINE used == {search[x].sem : x \in Searches} \cup {registry[u].sem : u \in Tenants}
           rest == Searches \ {s}
<1> SUFFICES ASSUME \A g \in Semaphores : g \in used PROVE FALSE
  OBVIOUS
<1>1. \A g \in Semaphores : g # NoSemaphore
  BY FiniteSearches DEF Semaphores, NoSemaphore
<1>2. ASSUME NEW g \in Semaphores PROVE \E x \in rest : search[x].sem = g
  <2>1. CASE \E x \in Searches : search[x].sem = g
    BY <1>1, <2>1 DEF Registered
  <2>2. CASE \E u \in Tenants : registry[u].sem = g
    <3>1. PICK u \in Tenants : registry[u].sem = g
      BY <2>2
    <3>2. PICK x \in Busy(u) : TRUE
      BY <1>1, <3>1 DEF Registered
    <3> QED BY <3>1, <3>2 DEF Busy, Registered
  <2> QED BY <2>1, <2>2
<1> DEFINE f == [g \in Semaphores |-> CHOOSE x \in rest : search[x].sem = g]
<1>3. f \in [Semaphores -> rest] /\ \A g \in Semaphores : search[f[g]].sem = g
  BY <1>2
<1>4. /\ IsFiniteSet(Semaphores) /\ Cardinality(Semaphores) = Cardinality(Searches)
      /\ Cardinality(Searches) \in Nat
  BY FiniteSearches, FS_Interval DEF Semaphores
<1>5. IsFiniteSet(rest) /\ Cardinality(rest) = Cardinality(Searches) - 1
  BY DiscoveryAssumption, FS_RemoveElement
<1> HIDE DEF f, rest
<1>6. \E g, h \in Semaphores : g # h /\ f[g] = f[h]
  BY <1>3, <1>4, <1>5, FS_PigeonHole
<1> QED BY <1>3, <1>6

\* How a search that asks for the semaphore of its tenant leaves the state.
LEMMA RegisterEffect ==
    ASSUME DiscoveryTypes, Registered, NEW s \in Searches, Register(s)
    PROVE  \E g \in Semaphores :
            /\ registry[TenantOf[s]].sem # NoSemaphore => g = registry[TenantOf[s]].sem
            /\ search' = [search EXCEPT ![s] = [at |-> "tenant", sem |-> g]]
            /\ registry' = [registry EXCEPT ![TenantOf[s]] =
                                [sem |-> g, refs |-> registry[TenantOf[s]].refs + 1]]
<1> DEFINE t    == TenantOf[s]
           used == {search[x].sem : x \in Searches} \cup {registry[u].sem : u \in Tenants}
           new  == CHOOSE g \in Semaphores : g \notin used
           sem  == IF registry[t].sem # NoSemaphore THEN registry[t].sem ELSE new
<1>1. t \in Tenants
  BY DEF Tenants
<1>2. new \in Semaphores
  BY FreshSemaphore DEF Register
<1>3. sem \in Semaphores
  BY <1>1, <1>2 DEF DiscoveryTypes
<1>4. /\ search' = [search EXCEPT ![s] = [at |-> "tenant", sem |-> sem]]
      /\ registry' = [registry EXCEPT ![t] = [sem |-> sem, refs |-> registry[t].refs + 1]]
  BY DEF Register
<1> HIDE DEF new
<1> QED BY <1>3, <1>4

\* What a step does to searches and registry.
Settles ==
    \/ \E s \in Searches : Register(s)
    \/ \E s \in Searches : /\ search[s].at = "tenant" /\ Moves(s, "provider")
                           /\ Cardinality(OfSemaphore(search[s].sem)) < TenantLimit
    \/ \E s \in Searches : /\ search[s].at = "provider" /\ Moves(s, "global")
                           /\ Cardinality(OfProvider(ProviderOf[s])) < ProviderLimit
    \/ \E s \in Searches : /\ search[s].at = "global" /\ Moves(s, "calling")
                           /\ Cardinality(At({"calling"})) < GlobalLimit
    \/ \E s \in Searches : search[s].at # "idle" /\ Release(s)
    \/ UNCHANGED <<search, registry>>

\* Every step does one of these.
LEMMA HowSearchesSettle == [DiscoveryNext]_discoveryVars => Settles
<1> SUFFICES ASSUME [DiscoveryNext]_discoveryVars PROVE Settles
  OBVIOUS
<1>1. ASSUME NEW s \in Searches, EnterTenant(s) PROVE Settles
  BY <1>1 DEF EnterTenant, Settles, Moves, OfSemaphore
<1>2. ASSUME NEW s \in Searches, EnterProvider(s) PROVE Settles
  BY <1>2 DEF EnterProvider, Settles, Moves, OfProvider
<1>3. ASSUME NEW s \in Searches, Call(s) PROVE Settles
  BY <1>3 DEF Call, Admitted, Settles, Moves
<1>4. ASSUME NEW s \in Searches,
             TooLate(s) \/ Refused(s) \/ Cancelled(s)
                \/ \E outcome \in Outcomes : Answer(s, outcome)
      PROVE Settles
  BY <1>4 DEF TooLate, Refused, Cancelled, Answer, Admitted, Settles
<1>5. CASE UNCHANGED discoveryVars \/ \E p \in Providers : Cool(p)
  BY <1>5 DEF Cool, discoveryVars, Settles
<1> QED BY <1>1, <1>2, <1>3, <1>4, <1>5 DEF DiscoveryNext, Settles

\* What is known of a provider.
Breakers == [state : {"CLOSED", "OPEN", "HALF_OPEN"}, failures : 0..FailureThreshold,
             cool : BOOLEAN, probe : BOOLEAN]

\* The breaker's operations keep its shape.
LEMMA BreakerTypes ==
    ASSUME NEW b \in Breakers
    PROVE  /\ AfterRequest(b) \in Breakers
           /\ \A outcome \in Outcomes : Recorded(b, outcome) \in Breakers
           /\ [b EXCEPT !.cool = TRUE] \in Breakers
<1>1. FailureThreshold \in Nat \ {0}
  BY DiscoveryAssumption
<1>2. ASSUME NEW c \in Breakers
      PROVE  /\ HalfOpen(c) \in Breakers /\ Opened(c) \in Breakers
             /\ [c EXCEPT !.probe = TRUE] \in Breakers
  BY DEF HalfOpen, Opened, Breakers
<1>3. AfterRequest(b) \in Breakers
  <2>1. Waking(b) \in Breakers
    BY <1>2 DEF Waking
  <2> QED BY <1>2, <2>1 DEF AfterRequest
<1>4. AfterFailure(b) \in Breakers
  <2> DEFINE n == IF b.failures < FailureThreshold THEN b.failures + 1 ELSE b.failures
             c == [b EXCEPT !.failures = n, !.probe = FALSE]
  <2>1. n \in 0..FailureThreshold
    BY <1>1 DEF Breakers
  <2>2. AfterFailure(b) = IF b.state = "HALF_OPEN" THEN Opened(b)
                          ELSE IF n = FailureThreshold THEN Opened(c) ELSE c
    BY DEF AfterFailure
  <2> HIDE DEF n
  <2>3. c \in Breakers
    BY <2>1 DEF Breakers
  <2> HIDE DEF c
  <2>4. Opened(b) \in Breakers /\ Opened(c) \in Breakers
    BY <1>2, <2>3
  <2> QED BY <2>2, <2>3, <2>4
<1>5. Closed \in Breakers
  BY <1>1 DEF Closed, Breakers
<1>6. [b EXCEPT !.cool = TRUE] \in Breakers
  BY DEF Breakers
<1>7. \A outcome \in Outcomes : Recorded(b, outcome) \in Breakers
  BY <1>4, <1>5 DEF Outcomes, Recorded
<1> QED BY <1>3, <1>6, <1>7

\* The types are kept by every step.
LEMMA DiscoveryTypesStep ==
    DiscoveryTypes /\ Registered /\ [DiscoveryNext]_discoveryVars => DiscoveryTypes'
<1> SUFFICES ASSUME DiscoveryTypes, Registered, [DiscoveryNext]_discoveryVars
             PROVE  DiscoveryTypes'
  OBVIOUS
<1>1. search' \in [Searches -> [at : Stages, sem : Semaphores \cup {NoSemaphore}]]
      /\ registry' \in [Tenants -> [sem : Semaphores \cup {NoSemaphore}, refs : Nat]]
  <2>1. ASSUME NEW s \in Searches, Register(s) PROVE <1>1!1 /\ <1>1!2
    <3>1. PICK g \in Semaphores :
            /\ search' = [search EXCEPT ![s] = [at |-> "tenant", sem |-> g]]
            /\ registry' = [registry EXCEPT ![TenantOf[s]] =
                                [sem |-> g, refs |-> registry[TenantOf[s]].refs + 1]]
      BY <2>1, RegisterEffect
    <3>2. TenantOf[s] \in Tenants
      BY DEF Tenants
    <3> QED BY <3>1, <3>2 DEF DiscoveryTypes, Stages
  <2>2. ASSUME NEW s \in Searches, NEW stage \in Stages, Moves(s, stage)
        PROVE  <1>1!1 /\ <1>1!2
    BY <2>2, MoveEffect DEF Moves, DiscoveryTypes
  <2>3. ASSUME NEW s \in Searches, search[s].at # "idle", Release(s) PROVE <1>1!1 /\ <1>1!2
    <3>1. TenantOf[s] \in Tenants /\ s \in Busy(TenantOf[s])
      BY <2>3 DEF Tenants, Busy
    <3>2. registry[TenantOf[s]].refs \in Nat \ {0}
      <4>1. IsFiniteSet(Busy(TenantOf[s]))
        BY FiniteSearches DEF Busy
      <4> QED BY <3>1, <4>1, FS_EmptySet, FS_CardinalityType DEF Registered
    <3>3. registry' \in [Tenants -> [sem : Semaphores \cup {NoSemaphore}, refs : Nat]]
      <4> DEFINE t == TenantOf[s]
                 r == IF registry[t].refs = 1 THEN [sem |-> NoSemaphore, refs |-> 0]
                      ELSE [sem |-> registry[t].sem, refs |-> registry[t].refs - 1]
      <4>1. registry' = [registry EXCEPT ![t] = r]
        BY <2>3 DEF Release
      <4>2. registry[t].sem \in Semaphores \cup {NoSemaphore}
        BY <3>1 DEF DiscoveryTypes
      <4>3. r \in [sem : Semaphores \cup {NoSemaphore}, refs : Nat]
        BY <3>2, <4>2
      <4> HIDE DEF r
      <4> QED BY <4>1, <4>3 DEF DiscoveryTypes
    <3> QED BY <2>3, <3>3, ReleaseEffect
  <2>4. CASE UNCHANGED <<search, registry>>
    BY <2>4 DEF DiscoveryTypes
  <2>5. Settles
    BY HowSearchesSettle
  <2>6. {"provider", "global", "calling"} \subseteq Stages
    BY DEF Stages
  <2> QED BY <2>1, <2>2, <2>3, <2>4, <2>5, <2>6 DEF Settles
<1>2. breaker' \in [Providers -> Breakers]
  <2>1. breaker \in [Providers -> Breakers]
    BY DEF DiscoveryTypes, Breakers
  <2>2. \A s \in Searches : ProviderOf[s] \in Providers
    BY DEF Providers
  <2>3. ASSUME NEW s \in Searches, Call(s) PROVE breaker' \in [Providers -> Breakers]
    BY <2>1, <2>2, <2>3, BreakerTypes DEF Call
  <2>4. ASSUME NEW s \in Searches, NEW outcome \in Outcomes, Answer(s, outcome)
        PROVE  breaker' \in [Providers -> Breakers]
    BY <2>1, <2>2, <2>4, BreakerTypes DEF Answer
  <2>5. ASSUME NEW p \in Providers, Cool(p) PROVE breaker' \in [Providers -> Breakers]
    <3>1. [breaker[p] EXCEPT !.cool = TRUE] \in Breakers
      BY <2>1, BreakerTypes
    <3> QED BY <2>1, <2>5, <3>1 DEF Cool
  <2>6. CASE UNCHANGED breaker
    BY <2>1, <2>6
  <2> QED BY <2>3, <2>4, <2>5, <2>6
          DEF DiscoveryNext, discoveryVars, Register, EnterTenant, EnterProvider, TooLate,
              Refused, Cancelled
<1> QED BY <1>1, <1>2 DEF DiscoveryTypes, Breakers

\* The registry is kept right by every step.
LEMMA RegisteredStep ==
    DiscoveryTypes /\ Registered /\ [DiscoveryNext]_discoveryVars => Registered'
<1> SUFFICES ASSUME DiscoveryTypes, Registered, [DiscoveryNext]_discoveryVars
             PROVE  Registered'
  OBVIOUS
<1>1. \A s \in Searches : TenantOf[s] \in Tenants
  BY DEF Tenants
<1>2. \A t \in Tenants : IsFiniteSet(Busy(t)) /\ Cardinality(Busy(t)) \in Nat
  BY FiniteSearches DEF Busy
<1>3. ASSUME NEW s \in Searches, Register(s) PROVE Registered'
  <2> DEFINE t == TenantOf[s]
  <2>1. PICK g \in Semaphores :
          /\ registry[t].sem # NoSemaphore => g = registry[t].sem
          /\ search' = [search EXCEPT ![s] = [at |-> "tenant", sem |-> g]]
          /\ registry' = [registry EXCEPT ![t] = [sem |-> g, refs |-> registry[t].refs + 1]]
    BY <1>3, RegisterEffect
  <2>2. search[s].at = "idle" /\ s \notin Busy(t)
    BY <1>3 DEF Register, Busy
  <2>3. /\ search'[s].at = "tenant" /\ search'[s].sem = g
        /\ \A x \in Searches \ {s} : search'[x] = search[x]
        /\ registry'[t].sem = g /\ registry'[t].refs = registry[t].refs + 1
        /\ \A u \in Tenants \ {t} : registry'[u] = registry[u]
    BY <1>1, <2>1 DEF DiscoveryTypes
  <2>4. Busy(t)' = Busy(t) \cup {s} /\ \A u \in Tenants \ {t} : Busy(u)' = Busy(u)
    BY <2>2, <2>3 DEF Busy
  <2>5. Cardinality(Busy(t)') = Cardinality(Busy(t)) + 1
    <3>1. Cardinality(Busy(t) \cup {s}) = Cardinality(Busy(t)) + 1
      <4> DEFINE B == Busy(t)
      <4>1. IsFiniteSet(B) /\ s \notin B
        BY <1>1, <1>2, <2>2
      <4> HIDE DEF B
      <4>2. Cardinality(B \cup {s}) = Cardinality(B) + 1
        BY <4>1, FS_AddElement
      <4> QED BY <4>2 DEF B
    <3> QED BY <2>4, <3>1
  <2>6. g # NoSemaphore
    BY FiniteSearches DEF Semaphores, NoSemaphore
  <2>7. ASSUME NEW u \in Tenants
        PROVE  /\ registry'[u].refs = Cardinality(Busy(u)')
               /\ registry'[u].sem = NoSemaphore <=> Busy(u)' = {}
    <3>1. CASE u = t
      BY <1>1, <2>3, <2>4, <2>5, <2>6, <3>1 DEF Registered
    <3> QED BY <2>3, <2>4, <3>1 DEF Registered
  <2>8. ASSUME NEW x \in Searches
        PROVE  search'[x].sem = IF search'[x].at = "idle" THEN NoSemaphore
                                ELSE registry'[TenantOf[x]].sem
    <3>1. CASE x = s
      BY <2>3, <3>1
    <3>2. CASE x # s /\ TenantOf[x] = t /\ search[x].at # "idle"
      <4>1. x \in Busy(t)
        BY <3>2 DEF Busy
      <4>2. registry[t].sem # NoSemaphore
        BY <1>1, <4>1 DEF Registered
      <4> QED BY <2>1, <2>3, <3>2, <4>2 DEF Registered
    <3>3. CASE x # s /\ (TenantOf[x] # t \/ search[x].at = "idle")
      BY <1>1, <2>3, <3>3 DEF Registered
    <3> QED BY <3>1, <3>2, <3>3
  <2> QED BY <2>7, <2>8 DEF Registered
<1>4. ASSUME NEW s \in Searches, NEW stage \in Stages \ {"idle"}, search[s].at # "idle",
             Moves(s, stage)
      PROVE  Registered'
  <2>1. /\ registry' = registry
        /\ \A x \in Searches : /\ search'[x].sem = search[x].sem
                               /\ search'[x].at = "idle" <=> search[x].at = "idle"
    BY <1>4, MoveEffect DEF Moves
  <2>2. \A t \in Tenants : Busy(t)' = Busy(t)
    BY <2>1 DEF Busy
  <2> QED BY <2>1, <2>2 DEF Registered
<1>5. ASSUME NEW s \in Searches, search[s].at # "idle", Release(s) PROVE Registered'
  <2> DEFINE t == TenantOf[s]
  <2>1. /\ search'[s].at = "idle" /\ search'[s].sem = NoSemaphore
        /\ \A x \in Searches \ {s} : search'[x] = search[x]
        /\ \A u \in Tenants \ {t} : registry'[u] = registry[u]
        /\ registry[t].refs = 1 => registry'[t].sem = NoSemaphore /\ registry'[t].refs = 0
        /\ registry[t].refs # 1 => /\ registry'[t].sem = registry[t].sem
                                   /\ registry'[t].refs = registry[t].refs - 1
    BY <1>5, ReleaseEffect
  <2>2. s \in Busy(t)
    BY <1>5 DEF Busy
  <2>3. Busy(t)' = Busy(t) \ {s} /\ \A u \in Tenants \ {t} : Busy(u)' = Busy(u)
    BY <2>1 DEF Busy
  <2>4. Cardinality(Busy(t)') = Cardinality(Busy(t)) - 1 /\ IsFiniteSet(Busy(t)')
    BY <1>1, <1>2, <2>2, <2>3, FS_RemoveElement
  <2>5. /\ registry[t].refs = Cardinality(Busy(t)) /\ registry[t].refs \in Nat
        /\ registry[t].sem # NoSemaphore
    BY <1>1, <1>2, <2>2 DEF Registered
  <2>6. registry[t].refs = 1 <=> Busy(t)' = {}
    BY <2>4, <2>5, FS_EmptySet
  <2>7. ASSUME NEW u \in Tenants
        PROVE  /\ registry'[u].refs = Cardinality(Busy(u)')
               /\ registry'[u].sem = NoSemaphore <=> Busy(u)' = {}
    <3>1. CASE u = t
      BY <2>1, <2>4, <2>5, <2>6, <3>1
    <3> QED BY <2>1, <2>3, <3>1 DEF Registered
  <2>8. ASSUME NEW x \in Searches
        PROVE  search'[x].sem = IF search'[x].at = "idle" THEN NoSemaphore
                                ELSE registry'[TenantOf[x]].sem
    <3>1. CASE x = s
      BY <2>1, <3>1
    <3>2. CASE x # s /\ TenantOf[x] = t /\ search[x].at # "idle"
      <4>1. x \in Busy(t)'
        BY <2>3, <3>2 DEF Busy
      <4> QED BY <2>1, <2>6, <3>2, <4>1 DEF Registered
    <3>3. CASE x # s /\ (TenantOf[x] # t \/ search[x].at = "idle")
      BY <1>1, <2>1, <3>3 DEF Registered
    <3> QED BY <3>1, <3>2, <3>3
  <2> QED BY <2>7, <2>8 DEF Registered
<1>6. CASE UNCHANGED <<search, registry>>
  <2>1. \A t \in Tenants : Busy(t)' = Busy(t)
    BY <1>6 DEF Busy
  <2> QED BY <1>6, <2>1 DEF Registered
<1>7. {"provider", "global", "calling"} \subseteq Stages \ {"idle"}
  BY DEF Stages
<1> QED BY <1>3, <1>4, <1>5, <1>6, <1>7, HowSearchesSettle DEF Settles

\* A set of searches that gains one where there was room stays within its limit.
LEMMA RoomForOne ==
    ASSUME NEW S \in SUBSET Searches, NEW s, NEW limit \in Nat, Cardinality(S) < limit
    PROVE  Cardinality(S \cup {s}) <= limit
BY FiniteSearches, FS_AddElement

\* A smaller set of searches has not more members.
LEMMA FewerSearches ==
    ASSUME NEW S \in SUBSET Searches, NEW T \in SUBSET S, NEW limit \in Nat,
           Cardinality(S) <= limit
    PROVE  Cardinality(T) <= limit
<1>1. IsFiniteSet(S) /\ Cardinality(S) \in Nat /\ Cardinality(T) \in Nat
  BY FiniteSearches
<1>2. Cardinality(T) <= Cardinality(S)
  BY <1>1, FS_Subset
<1> QED BY <1>1, <1>2

\* No semaphore is overbooked by a step.
LEMMA BoundedStep ==
    DiscoveryTypes /\ Registered /\ Bounded /\ [DiscoveryNext]_discoveryVars => Bounded'
<1> SUFFICES ASSUME DiscoveryTypes, Registered, Bounded, [DiscoveryNext]_discoveryVars
             PROVE  Bounded'
  OBVIOUS
<1> USE DEF HoldsTenant, HoldsProvider
<1>0. {TenantLimit, ProviderLimit, GlobalLimit} \subseteq Nat
  BY DiscoveryAssumption
<1>1. ASSUME \A g \in Semaphores : OfSemaphore(g)' \subseteq OfSemaphore(g),
             \A p \in Providers : OfProvider(p)' \subseteq OfProvider(p),
             At({"calling"})' \subseteq At({"calling"})
      PROVE  Bounded'
  <2>1. /\ \A g \in Semaphores : OfSemaphore(g) \subseteq Searches
        /\ \A p \in Providers : OfProvider(p) \subseteq Searches
        /\ At({"calling"}) \subseteq Searches
    BY DEF OfSemaphore, OfProvider, At
  <2>2. ASSUME NEW g \in Semaphores PROVE Cardinality(OfSemaphore(g)') <= TenantLimit
    BY <1>0, <1>1, <2>1, FewerSearches DEF Bounded
  <2>3. ASSUME NEW p \in Providers PROVE Cardinality(OfProvider(p)') <= ProviderLimit
    BY <1>0, <1>1, <2>1, FewerSearches DEF Bounded
  <2>4. Cardinality(At({"calling"})') <= GlobalLimit
    BY <1>0, <1>1, <2>1, FewerSearches DEF Bounded
  <2> QED BY <2>2, <2>3, <2>4 DEF Bounded
<1>2. ASSUME NEW s \in Searches, Register(s) PROVE Bounded'
  <2>1. PICK g \in Semaphores : search' = [search EXCEPT ![s] = [at |-> "tenant", sem |-> g]]
    BY <1>2, RegisterEffect
  <2>2. search'[s].at = "tenant" /\ \A x \in Searches \ {s} : search'[x] = search[x]
    BY <2>1 DEF DiscoveryTypes
  <2> QED BY <1>1, <2>2 DEF OfSemaphore, OfProvider, At
<1>3. ASSUME NEW s \in Searches, search[s].at = "tenant", Moves(s, "provider"),
             Cardinality(OfSemaphore(search[s].sem)) < TenantLimit
      PROVE  Bounded'
  <2>1. \A x \in Searches : /\ search'[x].sem = search[x].sem
                            /\ search'[x].at = IF x = s THEN "provider" ELSE search[x].at
    BY <1>3, MoveEffect DEF Stages
  <2>2. PICK k : k = search[s].sem
    OBVIOUS
  <2>3. /\ \A g \in Semaphores : g # k => OfSemaphore(g)' = OfSemaphore(g)
        /\ OfSemaphore(k)' = OfSemaphore(k) \cup {s}
        /\ \A p \in Providers : OfProvider(p)' = OfProvider(p)
        /\ At({"calling"})' = At({"calling"})
    BY <1>3, <2>1, <2>2 DEF OfSemaphore, OfProvider, At
  <2>4. Cardinality(OfSemaphore(k) \cup {s}) <= TenantLimit
    BY <1>0, <1>3, <2>2, RoomForOne DEF OfSemaphore
  <2> QED BY <2>3, <2>4 DEF Bounded
<1>4. ASSUME NEW s \in Searches, search[s].at = "provider", Moves(s, "global"),
             Cardinality(OfProvider(ProviderOf[s])) < ProviderLimit
      PROVE  Bounded'
  <2>1. \A x \in Searches : /\ search'[x].sem = search[x].sem
                            /\ search'[x].at = IF x = s THEN "global" ELSE search[x].at
    BY <1>4, MoveEffect DEF Stages
  <2>2. /\ \A g \in Semaphores : OfSemaphore(g)' = OfSemaphore(g)
        /\ \A p \in Providers : p # ProviderOf[s] => OfProvider(p)' = OfProvider(p)
        /\ OfProvider(ProviderOf[s])' = OfProvider(ProviderOf[s]) \cup {s}
        /\ At({"calling"})' = At({"calling"})
    BY <1>4, <2>1 DEF OfSemaphore, OfProvider, At
  <2>3. Cardinality(OfProvider(ProviderOf[s]) \cup {s}) <= ProviderLimit
    BY <1>0, <1>4, RoomForOne DEF OfProvider
  <2> QED BY <2>2, <2>3 DEF Bounded
<1>5. ASSUME NEW s \in Searches, search[s].at = "global", Moves(s, "calling"),
             Cardinality(At({"calling"})) < GlobalLimit
      PROVE  Bounded'
  <2>1. \A x \in Searches : /\ search'[x].sem = search[x].sem
                            /\ search'[x].at = IF x = s THEN "calling" ELSE search[x].at
    BY <1>5, MoveEffect DEF Stages
  <2>2. /\ \A g \in Semaphores : OfSemaphore(g)' = OfSemaphore(g)
        /\ \A p \in Providers : OfProvider(p)' = OfProvider(p)
        /\ At({"calling"})' = At({"calling"}) \cup {s}
    BY <1>5, <2>1 DEF OfSemaphore, OfProvider, At
  <2>3. Cardinality(At({"calling"}) \cup {s}) <= GlobalLimit
    BY <1>0, <1>5, RoomForOne DEF At
  <2> QED BY <2>2, <2>3 DEF Bounded
<1>6. ASSUME NEW s \in Searches, Release(s) PROVE Bounded'
  <2>1. search'[s].at = "idle" /\ \A x \in Searches \ {s} : search'[x] = search[x]
    BY <1>6, ReleaseEffect
  <2> QED BY <1>1, <2>1 DEF OfSemaphore, OfProvider, At
<1>7. CASE UNCHANGED <<search, registry>>
  BY <1>1, <1>7 DEF OfSemaphore, OfProvider, At
<1> QED BY <1>2, <1>3, <1>4, <1>5, <1>6, <1>7, HowSearchesSettle DEF Settles

\* All three hold throughout.
LEMMA SearchesStayBounded == DiscoverySpec => [](DiscoveryTypes /\ Registered /\ Bounded)
<1>1. DiscoveryInit => DiscoveryTypes /\ Registered /\ Bounded
  <2> SUFFICES ASSUME DiscoveryInit PROVE DiscoveryTypes /\ Registered /\ Bounded
    OBVIOUS
  <2>1. DiscoveryTypes
    BY DiscoveryAssumption DEF DiscoveryInit, DiscoveryTypes, Stages, Closed
  <2>2. /\ \A t \in Tenants : Busy(t) = {}
        /\ \A g \in Semaphores : OfSemaphore(g) = {}
        /\ \A p \in Providers : OfProvider(p) = {}
        /\ At({"calling"}) = {}
    BY DEF DiscoveryInit, Busy, OfSemaphore, OfProvider, At, HoldsTenant, HoldsProvider
  <2>3. Registered
    BY <2>2, FS_EmptySet DEF DiscoveryInit, Registered
  <2>4. Bounded
    BY <2>2, FS_EmptySet, DiscoveryAssumption DEF Bounded
  <2> QED BY <2>1, <2>3, <2>4
<1> QED BY <1>1, DiscoveryTypesStep, RegisteredStep, BoundedStep, PTL DEF DiscoverySpec

\* The limits of tenants, providers and the process hold for any number of
\* searches, although semaphores come and go with their tenants (acquire,
\* _release_tenant_reference).
THEOREM ConcurrencyIsLimited == DiscoverySpec => []LimitsHold
<1>1. DiscoveryTypes /\ Registered /\ Bounded => LimitsHold
  <2> SUFFICES ASSUME DiscoveryTypes, Registered, Bounded PROVE LimitsHold
    OBVIOUS
  <2>0. {TenantLimit, ProviderLimit, GlobalLimit} \subseteq Nat
    BY DiscoveryAssumption
  <2>1. ASSUME NEW t \in Tenants
        PROVE  Cardinality({s \in At({"calling"}) : TenantOf[s] = t}) <= TenantLimit
    <3> DEFINE mine == {s \in At({"calling"}) : TenantOf[s] = t}
    <3>1. CASE mine = {}
      BY <2>0, <3>1, FS_EmptySet
    <3>2. CASE mine # {}
      <4>1. mine \subseteq Busy(t) /\ Busy(t) # {}
        BY <3>2 DEF At, Busy
      <4>2. registry[t].sem \in Semaphores
        BY <4>1 DEF Registered, DiscoveryTypes
      <4>3. /\ mine \in SUBSET OfSemaphore(registry[t].sem)
            /\ OfSemaphore(registry[t].sem) \in SUBSET Searches
        BY DEF Registered, At, OfSemaphore, HoldsTenant
      <4> HIDE DEF mine
      <4>4. Cardinality(mine) <= TenantLimit
        BY <2>0, <4>2, <4>3, FewerSearches DEF Bounded
      <4> QED BY <4>4 DEF mine
    <3> QED BY <3>1, <3>2
  <2>2. ASSUME NEW p \in Providers
        PROVE  Cardinality({s \in At({"calling"}) : ProviderOf[s] = p}) <= ProviderLimit
    <3> DEFINE mine == {s \in At({"calling"}) : ProviderOf[s] = p}
    <3>1. mine \in SUBSET OfProvider(p) /\ OfProvider(p) \in SUBSET Searches
      BY DEF At, OfProvider, HoldsProvider
    <3> HIDE DEF mine
    <3>2. Cardinality(mine) <= ProviderLimit
      BY <2>0, <3>1, FewerSearches DEF Bounded
    <3> QED BY <3>2 DEF mine
  <2> QED BY <2>1, <2>2 DEF LimitsHold, Bounded
<1> QED BY <1>1, SearchesStayBounded, PTL

\* The records of searches, semaphores and breakers keep their shape; in
\* particular a tenant that needs a new semaphore gets one that is not in use.
THEOREM SearchTypes == DiscoverySpec => []DiscoveryTypes
BY SearchesStayBounded, PTL

-----------------------------------------------------------------------------
(***************************************************************************)
(* Discovery: the circuit breaker.                                         *)
(***************************************************************************)
Calls(p) == {s \in At({"calling"}) : ProviderOf[s] = p}

\* A provider that has cooled down or waits for its probe is not called, and
\* one that is probed is called by one search at most.
Quiet ==
    \A p \in Providers :
        /\ breaker[p].state = "OPEN" /\ breaker[p].cool => Calls(p) = {}
        /\ breaker[p].state = "HALF_OPEN" /\ ~breaker[p].probe => Calls(p) = {}
        /\ breaker[p].state = "HALF_OPEN" => \A s, x \in Calls(p) : s = x

\* What the breaker does with a request it allows.
LEMMA RequestEffect ==
    ASSUME NEW b \in Breakers, Allows(b)
    PROVE  \/ b.state = "CLOSED" /\ AfterRequest(b) = b
           \/ /\ (b.state = "OPEN" /\ b.cool) \/ (b.state = "HALF_OPEN" /\ ~b.probe)
              /\ AfterRequest(b).state = "HALF_OPEN" /\ AfterRequest(b).probe
<1>1. HalfOpen(b).state = "HALF_OPEN" /\ HalfOpen(b).probe = FALSE
  BY DEF HalfOpen, Breakers
<1>2. \A c \in Breakers : [c EXCEPT !.probe = TRUE].state = c.state
                           /\ [c EXCEPT !.probe = TRUE].probe = TRUE
  BY DEF Breakers
<1>3. HalfOpen(b) \in Breakers
  BY DEF HalfOpen, Breakers
<1>4. CASE b.state = "OPEN" /\ b.cool
  BY <1>1, <1>2, <1>3, <1>4 DEF AfterRequest, Waking
<1>5. CASE ~(b.state = "OPEN" /\ b.cool)
  BY <1>2, <1>5 DEF Allows, AfterRequest, Waking
<1> QED BY <1>4, <1>5

\* What the breaker does with an outcome: it does not become half open, and it
\* has not cooled down unless it had before.
LEMMA RecordEffect ==
    ASSUME NEW b \in Breakers, NEW outcome \in Outcomes
    PROVE  \/ Recorded(b, outcome) = b
           \/ Recorded(b, outcome).state = "CLOSED"
           \/ /\ Recorded(b, outcome).state = "OPEN"
              /\ Recorded(b, outcome).cool => b.state = "OPEN" /\ b.cool
<1>1. CASE outcome = "transient"
  <2> DEFINE n == IF b.failures < FailureThreshold THEN b.failures + 1 ELSE b.failures
             c == [b EXCEPT !.failures = n, !.probe = FALSE]
  <2>1. AfterFailure(b) = IF b.state = "HALF_OPEN" THEN Opened(b)
                          ELSE IF n = FailureThreshold THEN Opened(c) ELSE c
    BY DEF AfterFailure
  <2>2. Recorded(b, outcome) = AfterFailure(b)
    BY <1>1 DEF Recorded
  <2> HIDE DEF n
  <2>3. c.state = b.state /\ c.cool = b.cool
    BY DEF Breakers
  <2>4. /\ Opened(b).state = "OPEN" /\ Opened(b).cool = FALSE
        /\ Opened(c).state = "OPEN" /\ Opened(c).cool = FALSE
    BY DEF Breakers, Opened
  <2>5. b.state \in {"CLOSED", "OPEN", "HALF_OPEN"}
    BY DEF Breakers
  <2> HIDE DEF c
  <2> QED BY <2>1, <2>2, <2>3, <2>4, <2>5
<1>2. CASE outcome # "transient"
  BY <1>2 DEF Outcomes, Recorded, Closed
<1> QED BY <1>1, <1>2

\* A search that does not call leaves the calls as they are or takes one away.
LEMMA CallsOfOthers ==
    ASSUME DiscoveryTypes, Registered, [DiscoveryNext]_discoveryVars,
           \A s \in Searches : ~Call(s)
    PROVE  \A p \in Providers : Calls(p)' \subseteq Calls(p)
<1> USE DEF Calls, At
<1>1. ASSUME NEW s \in Searches, Register(s) PROVE \A p \in Providers : Calls(p)' \subseteq Calls(p)
  <2>1. PICK g \in Semaphores : search' = [search EXCEPT ![s] = [at |-> "tenant", sem |-> g]]
    BY <1>1, RegisterEffect
  <2>2. search'[s].at = "tenant" /\ \A x \in Searches \ {s} : search'[x] = search[x]
    BY <2>1 DEF DiscoveryTypes
  <2> QED BY <2>2
<1>2. ASSUME NEW s \in Searches, EnterTenant(s) \/ EnterProvider(s)
      PROVE  \A p \in Providers : Calls(p)' \subseteq Calls(p)
  <2>1. Moves(s, "provider") \/ Moves(s, "global")
    BY <1>2 DEF EnterTenant, EnterProvider, Moves
  <2>2. \A x \in Searches : search'[x].at = "calling" => search[x].at = "calling"
    BY <2>1, MoveEffect DEF Stages
  <2> QED BY <2>2
<1>3. ASSUME NEW s \in Searches, Release(s) PROVE \A p \in Providers : Calls(p)' \subseteq Calls(p)
  <2>1. search'[s].at = "idle" /\ \A x \in Searches \ {s} : search'[x] = search[x]
    BY <1>3, ReleaseEffect
  <2> QED BY <2>1
<1>4. CASE UNCHANGED search
  BY <1>4
<1> QED BY <1>1, <1>2, <1>3, <1>4
        DEF DiscoveryNext, discoveryVars, TooLate, Refused, Cancelled, Answer, Cool

\* Probes stay alone.
LEMMA QuietStep ==
    DiscoveryTypes /\ Registered /\ Quiet /\ [DiscoveryNext]_discoveryVars => Quiet'
<1> SUFFICES ASSUME DiscoveryTypes, Registered, Quiet, [DiscoveryNext]_discoveryVars
             PROVE  Quiet'
  OBVIOUS
<1>0. breaker \in [Providers -> Breakers] /\ \A s \in Searches : ProviderOf[s] \in Providers
  BY DEF DiscoveryTypes, Breakers, Providers
<1>1. ASSUME NEW s \in Searches, Call(s) PROVE Quiet'
  <2> DEFINE q == ProviderOf[s]
  <2>1. /\ \A p \in Providers \ {q} : breaker'[p] = breaker[p]
        /\ breaker'[q] = AfterRequest(breaker[q])
        /\ Allows(breaker[q])
    BY <1>0, <1>1 DEF Call
  <2>2. \A x \in Searches : search'[x].at = IF x = s THEN "calling" ELSE search[x].at
    <3>1. Moves(s, "calling")
      BY <1>1 DEF Call, Moves
    <3> QED BY <3>1, MoveEffect DEF Stages
  <2>3. \A p \in Providers \ {q} : Calls(p)' = Calls(p)
    BY <2>2 DEF Calls, At
  <2>4. Calls(q)' = Calls(q) \cup {s}
    BY <2>2 DEF Calls, At
  <2>5. \/ breaker'[q].state = "CLOSED"
        \/ Calls(q) = {} /\ breaker'[q].state = "HALF_OPEN" /\ breaker'[q].probe
    BY <1>0, <2>1, RequestEffect DEF Quiet
  <2>6. ASSUME NEW p \in Providers
        PROVE  /\ breaker'[p].state = "OPEN" /\ breaker'[p].cool => Calls(p)' = {}
               /\ breaker'[p].state = "HALF_OPEN" /\ ~breaker'[p].probe => Calls(p)' = {}
               /\ breaker'[p].state = "HALF_OPEN" => \A y, x \in Calls(p)' : y = x
    <3>1. CASE p = q
      BY <2>4, <2>5, <3>1
    <3>2. CASE p # q
      BY <2>1, <2>3, <3>2 DEF Quiet
    <3> QED BY <3>1, <3>2
  <2> QED BY <2>6 DEF Quiet
<1>2. CASE \A s \in Searches : ~Call(s)
  <2>1. \A p \in Providers : Calls(p)' \subseteq Calls(p)
    BY <1>2, CallsOfOthers
  <2>2. ASSUME NEW p \in Providers
        PROVE  \/ breaker'[p] = breaker[p]
               \/ breaker'[p].state = "CLOSED"
               \/ /\ breaker'[p].state = "OPEN"
                  /\ breaker'[p].cool => breaker[p].state = "OPEN" /\ breaker[p].cool
               \/ breaker'[p].state = "OPEN" /\ Calls(p) = {}
    <3>1. ASSUME NEW s \in Searches, NEW outcome \in Outcomes, Answer(s, outcome)
          PROVE  <2>2!2
      <4>1. CASE p = ProviderOf[s]
        BY <1>0, <3>1, <4>1, RecordEffect DEF Answer
      <4>2. CASE p # ProviderOf[s]
        BY <1>0, <3>1, <4>2 DEF Answer
      <4> QED BY <4>1, <4>2
    <3>2. ASSUME NEW q \in Providers, Cool(q) PROVE <2>2!2
      <4>1. CASE p = q
        <5>1. breaker'[p] = [breaker[p] EXCEPT !.cool = TRUE] /\ breaker[p].state = "OPEN"
          BY <1>0, <3>2, <4>1 DEF Cool
        <5>2. breaker'[p].state = "OPEN"
          BY <1>0, <5>1 DEF Breakers
        <5>3. Calls(p) = {}
          BY <3>2, <4>1 DEF Cool, Calls
        <5> QED BY <5>2, <5>3
      <4>2. CASE p # q
        BY <1>0, <3>2, <4>2 DEF Cool
      <4> QED BY <4>1, <4>2
    <3>3. CASE UNCHANGED breaker
      BY <3>3
    <3> QED BY <1>2, <3>1, <3>2, <3>3
            DEF DiscoveryNext, discoveryVars, Register, EnterTenant, EnterProvider, TooLate,
                Refused, Cancelled
  <2> QED BY <2>1, <2>2 DEF Quiet
<1> QED BY <1>1, <1>2

\* A provider that is being probed gets no second call, whenever the calls of
\* before come to their ends and whatever these are (allow_request).
THEOREM ProbesAreAlone == DiscoverySpec => []ProbeIsAlone
<1>1. DiscoveryInit => Quiet
  BY DEF DiscoveryInit, Quiet, Closed
<1>2. Quiet => ProbeIsAlone
  <2> SUFFICES ASSUME Quiet, NEW p \in Providers, breaker[p].state = "HALF_OPEN"
               PROVE  Cardinality(Calls(p)) <= 1
    BY DEF ProbeIsAlone, Calls
  <2>1. CASE Calls(p) = {}
    BY <2>1, FS_EmptySet
  <2>2. CASE Calls(p) # {}
    <3>1. PICK s : Calls(p) = {s}
      BY <2>2 DEF Quiet
    <3>2. Cardinality({s}) = 1
      BY FS_Singleton
    <3> QED BY <3>1, <3>2
  <2> QED BY <2>1, <2>2
<1> QED BY <1>1, <1>2, QuietStep, SearchesStayBounded, PTL DEF DiscoverySpec

-----------------------------------------------------------------------------
(***************************************************************************)
(* LockOrder: what the transactions hold and who runs them.                *)
(***************************************************************************)

\* The rows of different tables, steps and attempts differ.
LEMMA RowsDiffer ==
    \A s, n, t, m :
        /\ RunRow # StepRow(s) /\ RunRow # TryRow(s, n) /\ RunRow # CallRow(s, n)
        /\ StepRow(s) # TryRow(t, n) /\ StepRow(s) # CallRow(t, n)
        /\ TryRow(s, n) # CallRow(t, m)
        /\ StepRow(s) = StepRow(t) <=> s = t
        /\ TryRow(s, n) = TryRow(t, m) <=> s = t /\ n = m
        /\ CallRow(s, n) = CallRow(t, m) <=> s = t /\ n = m
BY DEF RunRow, StepRow, TryRow, CallRow

\* Lists of up to three rows.
LEMMA Lists ==
    \A a, b, c : /\ Head(<<a, b, c>>) = a /\ Head(<<a, b>>) = a /\ Head(<<a>>) = a
                 /\ Tail(<<a, b, c>>) = <<b, c>> /\ Tail(<<a, b>>) = <<b>>
                 /\ Tail(<<a>>) = <<>>
                 /\ <<a, b, c>> # <<>> /\ <<a, b>> # <<>> /\ <<a>> # <<>>
OBVIOUS

\* Tasks of different executions, and executions, differ.
LEMMA TasksDiffer ==
    /\ \A e, f : Operation(e) = Operation(f) <=> e = f
    /\ \A s, n, t, m : <<s, n>> = <<t, m>> <=> s = t /\ n = m
BY DEF Operation

IsTxn(t) == t = [who |-> t.who, kind |-> t.kind, step |-> t.step, no |-> t.no,
                 todo |-> t.todo, held |-> t.held]

\* How far a transaction has come.
Shape(t) ==
    LET S == StepRow(t.step)
        A == TryRow(t.step, t.no)
        C == CallRow(t.step, t.no)
        Done(todo, held) == t.todo = todo /\ t.held = held
    IN  \/ /\ t.kind = "claim"
           /\ \/ Done(<<S, RunRow>>, {}) \/ Done(<<RunRow>>, {S}) \/ Done(<<>>, {S, RunRow})
        \/ /\ t.kind = "renew"
           /\ \/ Done(<<S, A>>, {}) \/ Done(<<A>>, {S}) \/ Done(<<>>, {S, A})
        \/ /\ t.kind = "finalise"
           /\ \/ Done(<<S, A, RunRow>>, {}) \/ Done(<<A, RunRow>>, {S})
              \/ Done(<<RunRow>>, {S, A}) \/ Done(<<>>, {S, A, RunRow})
        \/ /\ t.kind = "start"
           /\ \/ Done(<<RunRow, S, A>>, {}) \/ Done(<<S, A>>, {RunRow})
              \/ Done(<<A>>, {RunRow, S}) \/ Done(<<>>, {RunRow, S, A})
        \/ /\ t.kind = "complete"
           /\ \/ Done(<<C, RunRow>>, {}) \/ Done(<<RunRow>>, {C}) \/ Done(<<>>, {C, RunRow})
        \/ /\ t.kind = "release"
           /\ \/ Done(<<S, C, A>>, {}) \/ Done(<<C, A>>, {S})
              \/ Done(<<A>>, {S}) \/ Done(<<A>>, {S, C})
              \/ Done(<<>>, {S, A}) \/ Done(<<>>, {S, C, A})
        \/ /\ t.kind = "cancel"
           /\ Done(<<RunRow>>, {}) \/ Done(<<>>, {RunRow})

\* Who runs a transaction, and for which step and attempt.
Owned(t) ==
    /\ t.kind # "cancel" => t.step \in LockSteps
    /\ t.kind = "claim" => /\ t.who = <<"worker", t.step>>
                           /\ item[t.step].latest < LockAttempts
    /\ t.kind \in {"start", "complete", "finalise"} =>
            /\ t.who = Operation(<<t.step, t.no>>)
            /\ <<t.step, t.no>> \in alive
    /\ t.kind = "release" /\ StepRow(t.step) \in t.held => t.no = item[t.step].latest

\* Nobody runs two transactions and no row is locked by two.
Exclusive ==
    \A t, u \in txns : t.who = u.who \/ (\E row \in t.held : row \in u.held) => t = u

\* A call that is under way is one of the open attempt, unless its execution
\* is over.
CallsAreCurrent ==
    /\ \A s \in LockSteps : item[s].open => item[s].status = "RUNNING"
    /\ \A e \in alive : e[2] <= item[e[1]].latest
    /\ \A e \in alive : call[e] = "STARTED" => item[e[1]].open /\ item[e[1]].latest = e[2]
    /\ \A s \in LockSteps : \A n \in 1..LockAttempts :
            n > item[s].latest => call[<<s, n>>] = "NONE"

LockInv ==
    /\ LockTypes
    /\ \A t \in txns : IsTxn(t) /\ Shape(t) /\ Owned(t)
    /\ Exclusive
    /\ CallsAreCurrent

-----------------------------------------------------------------------------
(***************************************************************************)
(* LockOrder: circles of waiting transactions.                             *)
(***************************************************************************)
\* Where a transaction waits that others wait for.
WaitsAt(t) ==
    LET S == StepRow(t.step)
        A == TryRow(t.step, t.no)
        C == CallRow(t.step, t.no)
    IN  \/ t.kind = "claim" /\ Head(t.todo) = RunRow /\ t.held = {S}
        \/ t.kind = "renew" /\ Head(t.todo) = A /\ t.held = {S}
        \/ t.kind = "finalise" /\ Head(t.todo) = A /\ t.held = {S}
        \/ t.kind = "finalise" /\ Head(t.todo) = RunRow /\ t.held = {S, A}
        \/ t.kind = "start" /\ Head(t.todo) = S /\ t.held = {RunRow}
        \/ t.kind = "start" /\ Head(t.todo) = A /\ t.held = {RunRow, S}
        \/ t.kind = "complete" /\ Head(t.todo) = RunRow /\ t.held = {C}
        \/ t.kind = "release" /\ Head(t.todo) = C /\ t.held = {S}
        \/ t.kind = "release" /\ Head(t.todo) = A /\ t.held = {S}
        \/ t.kind = "release" /\ Head(t.todo) = A /\ t.held = {S, C}

\* Every transaction that waits and is waited for is at one of these points.
LEMMA WaitingShape ==
    ASSUME NEW t, Shape(t), t.todo # <<>>, t.held # {}
    PROVE  WaitsAt(t)
BY Lists DEF Shape, WaitsAt

\* Without a stale start no circle closes: the other transactions lock step,
\* call, attempt and run in this order, and what a start in good standing
\* waits for is not held by anybody who waits for the run.
LEMMA CirclesNeedStale == LockInv => DeadlockNeedsStale
<1> SUFFICES ASSUME LockInv, NEW X \in Circles,
                    \A t \in X : t.kind = "start" => Newest(t)
             PROVE  FALSE
  BY DEF DeadlockNeedsStale
<1>1. /\ X \subseteq txns /\ X # {}
      /\ \A t \in X : \E u \in X : WaitsFor(t, u)
      /\ \A t \in X : \E u \in X : WaitsFor(u, t)
  BY DEF Circles
<1>2. \A t \in X : ~Returns(t) /\ t.todo # <<>> /\ t.held # {}
  BY <1>1 DEF WaitsFor
<1>3. \A t \in X : \E u \in X : t # u /\ Head(t.todo) \in u.held
  BY <1>1 DEF WaitsFor
<1>4. \A t, u \in X : t.who = u.who \/ (\E row \in t.held : row \in u.held) => t = u
  BY <1>1 DEF LockInv, Exclusive
<1>5. \A t \in X : WaitsAt(t)
  BY <1>1, <1>2, WaitingShape DEF LockInv
<1>6. ASSUME NEW t \in X PROVE Head(t.todo) # TryRow(t.step, t.no)
  <2> SUFFICES ASSUME Head(t.todo) = TryRow(t.step, t.no) PROVE FALSE
    OBVIOUS
  <2>1. PICK u \in X : t # u /\ TryRow(t.step, t.no) \in u.held
    BY <1>3
  <2>2. u.step = t.step /\ StepRow(t.step) \in u.held
    <3>1. WaitsAt(u)
      BY <1>5
    <3>2. /\ TryRow(t.step, t.no) # RunRow /\ TryRow(t.step, t.no) # StepRow(u.step)
          /\ TryRow(t.step, t.no) # CallRow(u.step, u.no)
      BY RowsDiffer
    <3>3. u.held = {StepRow(u.step), TryRow(u.step, u.no)}
      BY <2>1, <3>1, <3>2 DEF WaitsAt
    <3>4. TryRow(t.step, t.no) = TryRow(u.step, u.no)
      BY <2>1, <3>2, <3>3
    <3> QED BY <3>3, <3>4, RowsDiffer
  <2>3. StepRow(t.step) \in t.held
    <3>1. /\ TryRow(t.step, t.no) # RunRow /\ TryRow(t.step, t.no) # StepRow(t.step)
          /\ TryRow(t.step, t.no) # CallRow(t.step, t.no)
      BY RowsDiffer
    <3> QED BY <1>5, <3>1 DEF WaitsAt
  <2> QED BY <1>4, <2>1, <2>2, <2>3
<1>7. ASSUME NEW t \in X PROVE t.kind # "start"
  <2> SUFFICES ASSUME t.kind = "start" PROVE FALSE
    OBVIOUS
  <2>1. Head(t.todo) = StepRow(t.step) /\ t.held = {RunRow} /\ Newest(t)
    BY <1>5, <1>6 DEF WaitsAt
  <2>2. PICK u \in X : t # u /\ StepRow(t.step) \in u.held
    BY <1>3, <2>1
  <2>3. u.step = t.step /\ u.kind # "complete"
    <3>1. /\ StepRow(t.step) # RunRow /\ StepRow(t.step) # TryRow(u.step, u.no)
          /\ StepRow(t.step) # CallRow(u.step, u.no)
      BY RowsDiffer
    <3>2. StepRow(t.step) = StepRow(u.step) /\ u.kind # "complete"
      BY <1>5, <2>2, <3>1 DEF WaitsAt
    <3> QED BY <3>2, RowsDiffer
  <2>4. /\ t.step \in LockSteps /\ t.who = Operation(<<t.step, t.no>>)
        /\ item[t.step].status = "RUNNING" /\ item[t.step].latest = t.no
    <3>1. Owned(t)
      BY <1>1 DEF LockInv
    <3> QED BY <2>1, <3>1 DEF Owned, LockInv, CallsAreCurrent, Newest
  <2>5. CASE u.kind = "claim"
    BY <1>2, <2>2, <2>3, <2>4, <2>5 DEF Returns
  <2>6. CASE u.kind = "finalise"
    <3>1. TryRow(u.step, u.no) \in u.held
      BY <1>5, <1>6, <2>6 DEF WaitsAt
    <3>2. Newest(u)
      BY <1>2, <2>6, <3>1 DEF Returns
    <3>3. u.no = t.no
      BY <2>3, <2>4, <3>2 DEF Newest
    <3>4. u.who = Operation(<<u.step, u.no>>)
      BY <1>1, <2>6 DEF LockInv, Owned
    <3> QED BY <1>4, <2>2, <2>3, <2>4, <3>3, <3>4
  <2>7. CASE u.kind = "start"
    <3>1. RunRow \in u.held
      BY <1>5, <2>7 DEF WaitsAt
    <3> QED BY <1>4, <2>1, <2>2, <3>1
  <2>8. CASE u.kind = "release"
    <3>1. Head(u.todo) = CallRow(u.step, u.no)
      BY <1>5, <1>6, <2>8 DEF WaitsAt
    <3>2. PICK v \in X : u # v /\ CallRow(u.step, u.no) \in v.held
      BY <1>3, <3>1
    <3>3. v.kind = "complete" /\ v.step = u.step /\ v.no = u.no
      <4>1. /\ CallRow(u.step, u.no) # RunRow /\ CallRow(u.step, u.no) # StepRow(v.step)
            /\ CallRow(u.step, u.no) # TryRow(v.step, v.no)
        BY RowsDiffer
      <4>2. v.kind = "complete" /\ CallRow(u.step, u.no) = CallRow(v.step, v.no)
        BY <1>5, <1>6, <3>2, <4>1 DEF WaitsAt
      <4> QED BY <4>2, RowsDiffer
    <3>4. call[<<v.step, v.no>>] = "STARTED"
      <4>1. CallRow(v.step, v.no) \in v.held
        BY <3>2, <3>3
      <4> QED BY <1>2, <3>3, <4>1 DEF Returns
    <3>5. <<v.step, v.no>> \in alive /\ v.who = Operation(<<v.step, v.no>>)
      BY <1>1, <3>3 DEF LockInv, Owned
    <3>6. item[v.step].latest = v.no
      BY <3>4, <3>5 DEF LockInv, CallsAreCurrent
    <3>7. v.who = t.who
      BY <2>3, <2>4, <3>3, <3>5, <3>6
    <3> QED BY <1>4, <3>3, <3>7
  <2> QED BY <1>5, <1>6, <2>3, <2>5, <2>6, <2>7, <2>8 DEF WaitsAt
<1>8. ASSUME NEW t \in X PROVE Head(t.todo) # RunRow
  <2> SUFFICES ASSUME Head(t.todo) = RunRow PROVE FALSE
    OBVIOUS
  <2>1. PICK u \in X : RunRow \in u.held
    BY <1>3
  <2>2. /\ RunRow # StepRow(u.step) /\ RunRow # TryRow(u.step, u.no)
        /\ RunRow # CallRow(u.step, u.no)
    BY RowsDiffer
  <2> QED BY <1>5, <1>7, <2>1, <2>2 DEF WaitsAt
<1>9. ASSUME NEW t \in X PROVE FALSE
  <2>1. t.kind = "release" /\ Head(t.todo) = CallRow(t.step, t.no)
    BY <1>5, <1>6, <1>7, <1>8 DEF WaitsAt
  <2>2. PICK u \in X : CallRow(t.step, t.no) \in u.held
    BY <1>3, <2>1
  <2>3. /\ CallRow(t.step, t.no) # RunRow /\ CallRow(t.step, t.no) # StepRow(u.step)
        /\ CallRow(t.step, t.no) # TryRow(u.step, u.no)
    BY RowsDiffer
  <2> QED BY <1>5, <1>6, <1>8, <2>2, <2>3 DEF WaitsAt
<1> QED BY <1>1, <1>9

-----------------------------------------------------------------------------
(***************************************************************************)
(* LockOrder: every step keeps what the transactions hold.                 *)
(***************************************************************************)

\* The rows a transaction sets out to lock.
LEMMA FirstShape ==
    ASSUME NEW kind \in {"claim", "renew", "finalise", "start", "complete", "release", "cancel"},
           NEW who, NEW s, NEW n
    PROVE  LET t == [who |-> who, kind |-> kind, step |-> s, no |-> n,
                     todo |-> Rows(kind, s, n), held |-> {}]
           IN  IsTxn(t) /\ Shape(t)
<1> DEFINE t == [who |-> who, kind |-> kind, step |-> s, no |-> n,
                 todo |-> Rows(kind, s, n), held |-> {}]
<1>1. /\ t.kind = kind /\ t.step = s /\ t.no = n /\ t.todo = Rows(kind, s, n) /\ t.held = {}
      /\ t.who = who
  OBVIOUS
<1>2. IsTxn(t)
  BY <1>1 DEF IsTxn
<1> HIDE DEF t
<1>3. Shape(t)
  BY <1>1 DEF Shape, Rows
<1> QED BY <1>2, <1>3 DEF t

\* A transaction that begins keeps the invariant.
LEMMA BeginKeeps ==
    ASSUME LockInv, NEW who, NEW s, NEW n,
           NEW kind \in {"claim", "renew", "finalise", "start", "complete", "release", "cancel"},
           Begin(who, kind, s, n),
           kind # "cancel" => s \in LockSteps,
           kind = "claim" => who = <<"worker", s>> /\ item[s].latest < LockAttempts,
           kind \in {"start", "complete", "finalise"} =>
                who = Operation(<<s, n>>) /\ <<s, n>> \in alive
    PROVE  LockInv'
<1> DEFINE t == [who |-> who, kind |-> kind, step |-> s, no |-> n,
                 todo |-> Rows(kind, s, n), held |-> {}]
<1>1. /\ t.who = who /\ t.kind = kind /\ t.step = s /\ t.no = n /\ t.held = {}
      /\ IsTxn(t) /\ Shape(t)
  BY FirstShape
<1>2. /\ txns' = txns \cup {t} /\ \A u \in txns : u.who # who
      /\ item' = item /\ call' = call /\ alive' = alive /\ ended' = ended
  BY DEF Begin
<1> HIDE DEF t
<1>3. \A u : Owned(u)' <=> Owned(u)
  BY <1>2 DEF Owned
<1>4. Owned(t)
  BY <1>1 DEF Owned
<1>5. \A u \in txns' : IsTxn(u) /\ Shape(u) /\ Owned(u)'
  BY <1>1, <1>2, <1>3, <1>4 DEF LockInv
<1>6. Exclusive'
  BY <1>1, <1>2 DEF LockInv, Exclusive
<1>7. LockTypes' /\ CallsAreCurrent'
  BY <1>2 DEF LockInv, LockTypes, CallsAreCurrent
<1> QED BY <1>5, <1>6, <1>7 DEF LockInv

\* A transaction that goes on is at the next of its points.
LEMMA LockedShape ==
    ASSUME NEW t, IsTxn(t), Shape(t), t.todo # <<>>
    PROVE  LET u == Locked(t)
           IN  /\ IsTxn(u) /\ Shape(u)
               /\ u.who = t.who /\ u.kind = t.kind /\ u.step = t.step
               /\ u.no = IF t.kind = "release" /\ t.held = {} THEN item[t.step].latest ELSE t.no
               /\ u.held \subseteq t.held \cup {Head(t.todo)}
               /\ Passes(t) => u.held = t.held
<1>1. CASE t.kind = "release" /\ t.held = {}
  <2> DEFINE n == item[t.step].latest
             S == StepRow(t.step)
             u == [who |-> t.who, kind |-> t.kind, step |-> t.step, no |-> n,
                   todo |-> <<CallRow(t.step, n), TryRow(t.step, n)>>, held |-> {S}]
  <2>1. Head(t.todo) = S
    BY <1>1, Lists DEF Shape
  <2>2. Tail(Rows("release", t.step, n)) = <<CallRow(t.step, n), TryRow(t.step, n)>>
    BY Lists DEF Rows
  <2>3. Locked(t) = u
    BY <1>1, <2>1, <2>2 DEF Locked, IsTxn
  <2>4. /\ u.kind = "release" /\ u.who = t.who /\ u.step = t.step /\ u.no = n /\ u.held = {S}
        /\ u.todo = <<CallRow(t.step, n), TryRow(t.step, n)>>
    BY <1>1
  <2>5. IsTxn(u)
    BY <2>4 DEF IsTxn
  <2>6. ~Passes(t)
    BY <2>1, RowsDiffer DEF Passes
  <2> HIDE DEF u
  <2>7. Shape(u)
    BY <2>4 DEF Shape
  <2> QED BY <1>1, <2>1, <2>3, <2>4, <2>5, <2>6, <2>7
<1>2. CASE ~(t.kind = "release" /\ t.held = {})
  <2> DEFINE h == IF Passes(t) THEN t.held ELSE t.held \cup {Head(t.todo)}
             u == [who |-> t.who, kind |-> t.kind, step |-> t.step, no |-> t.no,
                   todo |-> Tail(t.todo), held |-> h]
  <2>1. ~(t.kind = "release" /\ Head(t.todo) = StepRow(t.step))
    <3>1. StepRow(t.step) # CallRow(t.step, t.no) /\ StepRow(t.step) # TryRow(t.step, t.no)
      BY RowsDiffer
    <3> QED BY <1>2, <3>1, Lists DEF Shape
  <2>2. Locked(t) = [t EXCEPT !.todo = Tail(t.todo), !.held = h]
    BY <2>1 DEF Locked
  <2>3. Locked(t) = u
    BY <2>2 DEF IsTxn
  <2>4. /\ u.kind = t.kind /\ u.who = t.who /\ u.step = t.step /\ u.no = t.no /\ u.held = h
        /\ u.todo = Tail(t.todo)
    OBVIOUS
  <2>5. IsTxn(u)
    BY <2>4 DEF IsTxn
  <2>6. Passes(t) => t.kind = "release" /\ Head(t.todo) = CallRow(t.step, t.no)
    BY DEF Passes
  <2> HIDE DEF u
  <2>7. Shape(u)
    <3>1. CASE Passes(t)
      <4>1. t.todo = <<CallRow(t.step, t.no), TryRow(t.step, t.no)>> /\ t.held = {StepRow(t.step)}
        <5>1. TryRow(t.step, t.no) # CallRow(t.step, t.no)
          BY RowsDiffer
        <5> QED BY <1>2, <2>6, <3>1, <5>1, Lists DEF Shape
      <4> QED BY <2>4, <2>6, <3>1, <4>1, Lists DEF Shape
    <3>2. CASE ~Passes(t)
      <4>1. u.held = t.held \cup {Head(t.todo)}
        BY <2>4, <3>2
      <4>2. CASE t.kind = "claim"
        <5>1. CASE t.todo = <<StepRow(t.step), RunRow>> /\ t.held = {}
          <6>1. u.todo = <<RunRow>>
            BY <2>4, <5>1, Lists
          <6>2. u.held = {StepRow(t.step)}
            BY <4>1, <5>1, Lists
          <6> QED BY <2>4, <4>2, <6>1, <6>2 DEF Shape
        <5>2. CASE t.todo = <<RunRow>> /\ t.held = {StepRow(t.step)}
          <6>1. u.todo = <<>>
            BY <2>4, <5>2, Lists
          <6>2. u.held = {StepRow(t.step), RunRow}
            BY <4>1, <5>2, Lists
          <6> QED BY <2>4, <4>2, <6>1, <6>2 DEF Shape
        <5> QED BY <4>2, <5>1, <5>2 DEF Shape
      <4>3. CASE t.kind = "renew"
        <5>1. CASE t.todo = <<StepRow(t.step), TryRow(t.step, t.no)>> /\ t.held = {}
          <6>1. u.todo = <<TryRow(t.step, t.no)>>
            BY <2>4, <5>1, Lists
          <6>2. u.held = {StepRow(t.step)}
            BY <4>1, <5>1, Lists
          <6> QED BY <2>4, <4>3, <6>1, <6>2 DEF Shape
        <5>2. CASE t.todo = <<TryRow(t.step, t.no)>> /\ t.held = {StepRow(t.step)}
          <6>1. u.todo = <<>>
            BY <2>4, <5>2, Lists
          <6>2. u.held = {StepRow(t.step), TryRow(t.step, t.no)}
            BY <4>1, <5>2, Lists
          <6> QED BY <2>4, <4>3, <6>1, <6>2 DEF Shape
        <5> QED BY <4>3, <5>1, <5>2 DEF Shape
      <4>4. CASE t.kind = "finalise"
        <5>1. CASE t.todo = <<StepRow(t.step), TryRow(t.step, t.no), RunRow>> /\ t.held = {}
          <6>1. u.todo = <<TryRow(t.step, t.no), RunRow>>
            BY <2>4, <5>1, Lists
          <6>2. u.held = {StepRow(t.step)}
            BY <4>1, <5>1, Lists
          <6> QED BY <2>4, <4>4, <6>1, <6>2 DEF Shape
        <5>2. CASE t.todo = <<TryRow(t.step, t.no), RunRow>> /\ t.held = {StepRow(t.step)}
          <6>1. u.todo = <<RunRow>>
            BY <2>4, <5>2, Lists
          <6>2. u.held = {StepRow(t.step), TryRow(t.step, t.no)}
            BY <4>1, <5>2, Lists
          <6> QED BY <2>4, <4>4, <6>1, <6>2 DEF Shape
        <5>3. CASE t.todo = <<RunRow>> /\ t.held = {StepRow(t.step), TryRow(t.step, t.no)}
          <6>1. u.todo = <<>>
            BY <2>4, <5>3, Lists
          <6>2. u.held = {StepRow(t.step), TryRow(t.step, t.no), RunRow}
            BY <4>1, <5>3, Lists
          <6> QED BY <2>4, <4>4, <6>1, <6>2 DEF Shape
        <5> QED BY <4>4, <5>1, <5>2, <5>3 DEF Shape
      <4>5. CASE t.kind = "start"
        <5>1. CASE t.todo = <<RunRow, StepRow(t.step), TryRow(t.step, t.no)>> /\ t.held = {}
          <6>1. u.todo = <<StepRow(t.step), TryRow(t.step, t.no)>>
            BY <2>4, <5>1, Lists
          <6>2. u.held = {RunRow}
            BY <4>1, <5>1, Lists
          <6> QED BY <2>4, <4>5, <6>1, <6>2 DEF Shape
        <5>2. CASE t.todo = <<StepRow(t.step), TryRow(t.step, t.no)>> /\ t.held = {RunRow}
          <6>1. u.todo = <<TryRow(t.step, t.no)>>
            BY <2>4, <5>2, Lists
          <6>2. u.held = {RunRow, StepRow(t.step)}
            BY <4>1, <5>2, Lists
          <6> QED BY <2>4, <4>5, <6>1, <6>2 DEF Shape
        <5>3. CASE t.todo = <<TryRow(t.step, t.no)>> /\ t.held = {RunRow, StepRow(t.step)}
          <6>1. u.todo = <<>>
            BY <2>4, <5>3, Lists
          <6>2. u.held = {RunRow, StepRow(t.step), TryRow(t.step, t.no)}
            BY <4>1, <5>3, Lists
          <6> QED BY <2>4, <4>5, <6>1, <6>2 DEF Shape
        <5> QED BY <4>5, <5>1, <5>2, <5>3 DEF Shape
      <4>6. CASE t.kind = "complete"
        <5>1. CASE t.todo = <<CallRow(t.step, t.no), RunRow>> /\ t.held = {}
          <6>1. u.todo = <<RunRow>>
            BY <2>4, <5>1, Lists
          <6>2. u.held = {CallRow(t.step, t.no)}
            BY <4>1, <5>1, Lists
          <6> QED BY <2>4, <4>6, <6>1, <6>2 DEF Shape
        <5>2. CASE t.todo = <<RunRow>> /\ t.held = {CallRow(t.step, t.no)}
          <6>1. u.todo = <<>>
            BY <2>4, <5>2, Lists
          <6>2. u.held = {CallRow(t.step, t.no), RunRow}
            BY <4>1, <5>2, Lists
          <6> QED BY <2>4, <4>6, <6>1, <6>2 DEF Shape
        <5> QED BY <4>6, <5>1, <5>2 DEF Shape
      <4>7. CASE t.kind = "release"
        <5>1. CASE t.todo = <<CallRow(t.step, t.no), TryRow(t.step, t.no)>> /\ t.held = {StepRow(t.step)}
          <6>1. u.todo = <<TryRow(t.step, t.no)>>
            BY <2>4, <5>1, Lists
          <6>2. u.held = {StepRow(t.step), CallRow(t.step, t.no)}
            BY <4>1, <5>1, Lists
          <6> QED BY <2>4, <4>7, <6>1, <6>2 DEF Shape
        <5>2. CASE t.todo = <<TryRow(t.step, t.no)>> /\ t.held = {StepRow(t.step)}
          <6>1. u.todo = <<>>
            BY <2>4, <5>2, Lists
          <6>2. u.held = {StepRow(t.step), TryRow(t.step, t.no)}
            BY <4>1, <5>2, Lists
          <6> QED BY <2>4, <4>7, <6>1, <6>2 DEF Shape
        <5>3. CASE t.todo = <<TryRow(t.step, t.no)>> /\ t.held = {StepRow(t.step), CallRow(t.step, t.no)}
          <6>1. u.todo = <<>>
            BY <2>4, <5>3, Lists
          <6>2. u.held = {StepRow(t.step), CallRow(t.step, t.no), TryRow(t.step, t.no)}
            BY <4>1, <5>3, Lists
          <6> QED BY <2>4, <4>7, <6>1, <6>2 DEF Shape
        <5> QED BY <1>2, <4>7, <5>1, <5>2, <5>3 DEF Shape
      <4>8. CASE t.kind = "cancel"
        <5>1. CASE t.todo = <<RunRow>> /\ t.held = {}
          <6>1. u.todo = <<>>
            BY <2>4, <5>1, Lists
          <6>2. u.held = {RunRow}
            BY <4>1, <5>1, Lists
          <6> QED BY <2>4, <4>8, <6>1, <6>2 DEF Shape
        <5> QED BY <4>8, <5>1 DEF Shape
      <4> QED BY <4>2, <4>3, <4>4, <4>5, <4>6, <4>7, <4>8 DEF Shape
    <3> QED BY <3>1, <3>2
  <2> QED BY <1>2, <2>3, <2>4, <2>5, <2>7
<1> QED BY <1>1, <1>2

\* Taking a lock keeps the invariant.
LEMMA LockKeeps ==
    ASSUME LockInv, NEW t \in txns, Lock(t)
    PROVE  LockInv'
<1> DEFINE u == Locked(t)
<1>1. /\ IsTxn(t) /\ Shape(t) /\ Owned(t) /\ t.todo # <<>>
      /\ Passes(t) \/ \A v \in txns : Head(t.todo) \notin v.held
      /\ txns' = (txns \ {t}) \cup {u}
      /\ item' = item /\ call' = call /\ alive' = alive /\ ended' = ended
  BY DEF LockInv, Lock
<1>2. /\ IsTxn(u) /\ Shape(u) /\ u.who = t.who /\ u.kind = t.kind /\ u.step = t.step
      /\ u.no = IF t.kind = "release" /\ t.held = {} THEN item[t.step].latest ELSE t.no
      /\ u.held \subseteq t.held \cup {Head(t.todo)}
      /\ Passes(t) => u.held = t.held
  BY <1>1, LockedShape
<1> HIDE DEF u
<1>3. \A v : Owned(v)' <=> Owned(v)
  BY <1>1 DEF Owned
<1>4. Owned(u)
  <2>1. CASE t.kind = "release" /\ t.held = {}
    BY <1>1, <1>2, <2>1 DEF Owned
  <2>2. CASE ~(t.kind = "release" /\ t.held = {})
    <3>1. u.no = t.no
      BY <1>2, <2>2
    <3>2. t.kind = "release" => StepRow(t.step) \in t.held
      BY <1>1, <2>2 DEF Shape
    <3> QED BY <1>1, <1>2, <3>1, <3>2 DEF Owned
  <2> QED BY <2>1, <2>2
<1>5. \A v \in txns' : IsTxn(v) /\ Shape(v) /\ Owned(v)'
  BY <1>1, <1>2, <1>3, <1>4 DEF LockInv
<1>6. Exclusive'
  <2>1. ASSUME NEW v \in txns, v # t,
               v.who = u.who \/ (\E row \in v.held : row \in u.held)
        PROVE  FALSE
    <3>1. v.who # t.who /\ \A row \in v.held : row \notin t.held
      BY <2>1 DEF LockInv, Exclusive
    <3> QED BY <1>1, <1>2, <2>1, <3>1
  <2>2. \A v, w \in txns : v.who = w.who \/ (\E row \in v.held : row \in w.held) => v = w
    BY DEF LockInv, Exclusive
  <2>3. ASSUME NEW v \in txns', NEW w \in txns',
               v.who = w.who \/ (\E row \in v.held : row \in w.held)
        PROVE  v = w
    BY <1>1, <2>1, <2>2, <2>3
  <2> QED BY <2>3 DEF Exclusive
<1>7. LockTypes' /\ CallsAreCurrent'
  BY <1>1 DEF LockInv, LockTypes, CallsAreCurrent
<1> QED BY <1>5, <1>6, <1>7 DEF LockInv

\* A transaction that ends leaves the others theirs, if only a claim that
\* holds its step gives it a next attempt and only a finalisation ends an
\* execution.
LEMMA EndKeeps ==
    ASSUME LockInv, NEW t \in txns, txns' = txns \ {t}, LockTypes', CallsAreCurrent',
           \A s \in LockSteps :
                \/ item'[s].latest = item[s].latest
                \/ t.kind = "claim" /\ s = t.step /\ StepRow(s) \in t.held,
           \A e \in alive :
                \/ e \in alive'
                \/ t.kind = "finalise" /\ e = <<t.step, t.no>>
    PROVE  LockInv'
<1>1. ASSUME NEW u \in txns, u # t PROVE Owned(u)'
  <2>1. Owned(u) /\ Owned(t) /\ t.who # u.who /\ \A row \in t.held : row \notin u.held
    BY <1>1 DEF LockInv, Exclusive
  <2>2. u.kind # "cancel" => u.step \in LockSteps
    BY <2>1 DEF Owned
  <2>3. u.kind = "claim" =>
            u.who = <<"worker", u.step>> /\ item'[u.step].latest < LockAttempts
    BY <2>1 DEF Owned
  <2>4. u.kind \in {"start", "complete", "finalise"} =>
            u.who = Operation(<<u.step, u.no>>) /\ <<u.step, u.no>> \in alive'
    BY <2>1 DEF Owned
  <2>5. u.kind = "release" /\ StepRow(u.step) \in u.held => u.no = item'[u.step].latest
    BY <2>1 DEF Owned
  <2> QED BY <2>2, <2>3, <2>4, <2>5 DEF Owned
<1>2. \A u \in txns' : IsTxn(u) /\ Shape(u) /\ Owned(u)'
  BY <1>1 DEF LockInv
<1>3. Exclusive'
  BY DEF LockInv, Exclusive
<1> QED BY <1>2, <1>3 DEF LockInv

\* The rows of the step table.
Items == [status : {"READY", "RUNNING", "DONE"}, latest : 0..LockAttempts,
          open : BOOLEAN, lapsed : BOOLEAN]

\* Replacing a row of the step table.
LEMMA ItemUpdate ==
    ASSUME LockTypes, NEW s \in LockSteps, NEW i \in Items, item' = [item EXCEPT ![s] = i]
    PROVE  /\ item' \in [LockSteps -> Items] /\ item'[s] = i
           /\ \A x \in LockSteps \ {s} : item'[x] = item[x]
BY DEF LockTypes, Items

\* What a transaction that commits has locked and seen.
LEMMA ReadyEffect ==
    ASSUME LockInv, NEW t \in txns, Ready(t)
    PROVE  /\ t.kind # "cancel" => t.step \in LockSteps /\ item[t.step] \in Items
           /\ t.kind = "claim" => /\ StepRow(t.step) \in t.held
                                  /\ item[t.step].status = "READY" /\ ~item[t.step].open
                                  /\ item[t.step].latest < LockAttempts
           /\ t.kind \in {"renew", "finalise"} => item[t.step].status = "RUNNING" /\ Newest(t)
           /\ t.kind = "release" => /\ item[t.step].status = "RUNNING"
                                    /\ t.no = item[t.step].latest
           /\ t.kind \in {"start", "complete", "finalise"} => <<t.step, t.no>> \in alive
<1>1. Shape(t) /\ Owned(t) /\ t.todo = <<>> /\ ~Returns(t)
  BY DEF LockInv, Ready
<1>2. /\ t.kind \in {"claim", "renew", "finalise", "release"} => StepRow(t.step) \in t.held
      /\ t.kind \in {"renew", "finalise"} => TryRow(t.step, t.no) \in t.held
  BY <1>1, Lists DEF Shape
<1>3. t.kind # "cancel" => t.step \in LockSteps /\ item[t.step] \in Items
  BY <1>1 DEF Owned, LockInv, LockTypes, Items
<1>4. t.kind = "claim" => item[t.step].status = "READY"
  BY <1>1, <1>2 DEF Returns
<1>5. t.kind \in {"renew", "finalise"} => item[t.step].status = "RUNNING" /\ Newest(t)
  BY <1>1, <1>2 DEF Returns
<1>6. t.kind = "release" => item[t.step].status = "RUNNING"
  BY <1>1, <1>2 DEF Returns
<1>7. t.kind = "claim" => ~item[t.step].open
  BY <1>3, <1>4 DEF LockInv, CallsAreCurrent
<1> QED BY <1>1, <1>2, <1>3, <1>4, <1>5, <1>6, <1>7 DEF Owned

\* A claim keeps the invariant.
LEMMA ClaimKeeps ==
    ASSUME LockInv, NEW t \in txns, CommitClaim(t)
    PROVE  LockInv'
<1> DEFINE s == t.step
           n == item[s].latest + 1
<1>1. /\ s \in LockSteps /\ item[s] \in Items /\ StepRow(s) \in t.held /\ t.kind = "claim"
      /\ item[s].status = "READY" /\ ~item[s].open /\ item[s].latest < LockAttempts
  BY ReadyEffect DEF CommitClaim
<1>2. txns' = txns \ {t} /\ call' = call /\ ended' = ended
  BY DEF CommitClaim
<1>3. LockTypes /\ CallsAreCurrent /\ LockAttempts \in Nat
  BY LockAssumption DEF LockInv
<1>4. CASE ended
  <2> DEFINE i == [item[s] EXCEPT !.status = "DONE"]
  <2>1. i \in Items /\ i.latest = item[s].latest /\ i.open = item[s].open
    BY <1>1 DEF Items
  <2>2. item' = [item EXCEPT ![s] = i] /\ alive' = alive
    BY <1>4 DEF CommitClaim
  <2> HIDE DEF i
  <2>3. /\ item' \in [LockSteps -> Items] /\ item'[s] = i
        /\ \A x \in LockSteps \ {s} : item'[x] = item[x]
    BY <1>1, <1>3, <2>1, <2>2, ItemUpdate
  <2>4. \A x \in LockSteps : item'[x].latest = item[x].latest /\ item'[x].open = item[x].open
    BY <2>1, <2>3
  <2>5. LockTypes'
    BY <1>2, <1>3, <2>2, <2>3 DEF LockTypes, Items
  <2>6. CallsAreCurrent'
    <3>1. \A x \in LockSteps : item'[x].open => item'[x].status = "RUNNING"
      BY <1>1, <1>3, <2>3, <2>4 DEF CallsAreCurrent
    <3>2. \A e \in alive : e[1] \in LockSteps
      BY <1>3 DEF LockTypes
    <3> QED BY <1>2, <1>3, <2>2, <2>4, <3>1, <3>2 DEF CallsAreCurrent
  <2> QED BY <1>2, <2>2, <2>4, <2>5, <2>6, EndKeeps
<1>5. CASE ~ended
  <2> DEFINE i == [status |-> "RUNNING", latest |-> n, open |-> TRUE, lapsed |-> FALSE]
  <2>1. n \in 1..LockAttempts
    BY <1>1, <1>3 DEF Items
  <2>2. i \in Items /\ i.latest = n /\ i.open /\ i.status = "RUNNING"
    BY <2>1 DEF Items
  <2>3. item' = [item EXCEPT ![s] = i] /\ alive' = alive \cup {<<s, n>>}
    BY <1>5 DEF CommitClaim
  <2> HIDE DEF i
  <2>4. /\ item' \in [LockSteps -> Items] /\ item'[s] = i
        /\ \A x \in LockSteps \ {s} : item'[x] = item[x]
    BY <1>1, <1>3, <2>2, <2>3, ItemUpdate
  <2>5. LockTypes'
    BY <1>1, <1>2, <1>3, <2>1, <2>3, <2>4 DEF LockTypes, Items
  <2>6. CallsAreCurrent'
    <3>1. \A x \in LockSteps : item'[x].open => item'[x].status = "RUNNING"
      BY <1>3, <2>2, <2>4 DEF CallsAreCurrent
    <3>2. call[<<s, n>>] = "NONE"
      BY <1>1, <1>3, <2>1 DEF CallsAreCurrent, Items
    <3>3. ASSUME NEW e \in alive
          PROVE  /\ e[2] <= item'[e[1]].latest
                 /\ call[e] = "STARTED" => item'[e[1]].open /\ item'[e[1]].latest = e[2]
      <4>1. e[1] \in LockSteps /\ e[2] \in Nat /\ item[s].latest \in Nat
        BY <1>1, <1>3 DEF LockTypes, Items
      <4>2. CASE e[1] = s
        BY <1>1, <1>3, <2>2, <2>4, <4>1, <4>2 DEF CallsAreCurrent
      <4>3. CASE e[1] # s
        BY <1>3, <2>4, <4>1, <4>3 DEF CallsAreCurrent
      <4> QED BY <4>2, <4>3
    <3>4. ASSUME NEW x \in LockSteps, NEW m \in 1..LockAttempts, m > item'[x].latest
          PROVE  call[<<x, m>>] = "NONE"
      <4>1. CASE x = s
        BY <1>1, <1>3, <2>2, <2>4, <3>4, <4>1 DEF CallsAreCurrent, Items
      <4>2. CASE x # s
        BY <1>3, <2>4, <3>4, <4>2 DEF CallsAreCurrent
      <4> QED BY <4>1, <4>2
    <3>5. ASSUME NEW e \in alive'
          PROVE  /\ e[2] <= item'[e[1]].latest
                 /\ call[e] = "STARTED" => item'[e[1]].open /\ item'[e[1]].latest = e[2]
      <4>1. CASE e = <<s, n>>
        BY <2>1, <2>2, <2>4, <3>2, <4>1
      <4> QED BY <2>3, <3>3, <4>1
    <3> QED BY <1>2, <3>1, <3>4, <3>5 DEF CallsAreCurrent
  <2> QED BY <1>1, <1>2, <2>3, <2>4, <2>5, <2>6, EndKeeps
<1> QED BY <1>4, <1>5

\* A transaction that changes no attempt but closes it, or renews its lease,
\* keeps the invariant if it leaves no call of the attempt it closes behind.
LEMMA RowKeeps ==
    ASSUME LockInv, NEW t \in txns, txns' = txns \ {t}, NEW s \in LockSteps, NEW i \in Items,
           item' = [item EXCEPT ![s] = i], i.latest = item[s].latest,
           i.open => i.status = "RUNNING" /\ item[s].open,
           alive' \subseteq alive, ended' = ended,
           \A e \in alive : e \in alive' \/ (t.kind = "finalise" /\ e = <<t.step, t.no>>),
           call' \in [LockSteps \X (1..LockAttempts) ->
                        {"NONE", "STARTED", "REFUSED", "COMPLETED", "ABANDONED"}],
           \A e \in LockSteps \X (1..LockAttempts) :
                call'[e] # call[e] => call[e] = "STARTED" /\ call'[e] # "STARTED",
           ~i.open => \A e \in alive' : e[1] = s => call'[e] # "STARTED"
    PROVE  LockInv'
<1>1. LockTypes /\ CallsAreCurrent
  BY DEF LockInv
<1>2. /\ item' \in [LockSteps -> Items] /\ item'[s] = i
      /\ \A x \in LockSteps \ {s} : item'[x] = item[x]
  BY <1>1, ItemUpdate
<1>3. LockTypes'
  BY <1>1, <1>2 DEF LockTypes, Items
<1>4. \A e \in alive : e \in LockSteps \X (1..LockAttempts) /\ e[1] \in LockSteps
  BY <1>1 DEF LockTypes
<1>5. \A x \in LockSteps : item'[x].latest = item[x].latest
  BY <1>2
<1>6. CallsAreCurrent'
  <2>1. \A x \in LockSteps : item'[x].open => item'[x].status = "RUNNING"
    BY <1>1, <1>2 DEF CallsAreCurrent
  <2>2. \A e \in alive' : e[2] <= item'[e[1]].latest
    BY <1>1, <1>4, <1>5 DEF CallsAreCurrent
  <2>3. ASSUME NEW e \in alive', call'[e] = "STARTED"
        PROVE  item'[e[1]].open /\ item'[e[1]].latest = e[2]
    <3>1. e \in alive /\ call[e] = "STARTED"
      BY <1>4, <2>3
    <3>2. item[e[1]].open /\ item[e[1]].latest = e[2]
      BY <1>1, <3>1 DEF CallsAreCurrent
    <3>3. item'[e[1]].open
      BY <1>2, <1>4, <2>3, <3>1, <3>2
    <3> QED BY <1>4, <1>5, <3>1, <3>2, <3>3
  <2>4. ASSUME NEW x \in LockSteps, NEW n \in 1..LockAttempts, n > item'[x].latest
        PROVE  call'[<<x, n>>] = "NONE"
    <3>1. call[<<x, n>>] = "NONE"
      BY <1>1, <1>5, <2>4 DEF CallsAreCurrent
    <3>2. <<x, n>> \in LockSteps \X (1..LockAttempts)
      OBVIOUS
    <3> QED BY <3>1, <3>2
  <2> QED BY <2>1, <2>2, <2>3, <2>4 DEF CallsAreCurrent
<1> QED BY <1>3, <1>5, <1>6, EndKeeps

\* A heartbeat keeps the invariant.
LEMMA RenewKeeps ==
    ASSUME LockInv, NEW t \in txns, CommitRenew(t)
    PROVE  LockInv'
<1> DEFINE i == [item[t.step] EXCEPT !.lapsed = FALSE]
<1>1. t.step \in LockSteps /\ item[t.step] \in Items /\ item[t.step].open
      /\ item[t.step].status = "RUNNING"
  BY ReadyEffect DEF CommitRenew, Newest
<1>2. i \in Items /\ i.latest = item[t.step].latest /\ i.open = item[t.step].open
      /\ i.status = "RUNNING"
  BY <1>1 DEF Items
<1>3. /\ item' = [item EXCEPT ![t.step] = i] /\ txns' = txns \ {t}
      /\ alive' = alive /\ call' = call /\ ended' = ended
  BY DEF CommitRenew, End
<1>4. call \in [LockSteps \X (1..LockAttempts) ->
                  {"NONE", "STARTED", "REFUSED", "COMPLETED", "ABANDONED"}]
  BY DEF LockInv, LockTypes
<1> HIDE DEF i
<1> QED BY <1>1, <1>2, <1>3, <1>4, RowKeeps

\* The end of an execution keeps the invariant: its call is over with it.
LEMMA FinaliseKeeps ==
    ASSUME LockInv, NEW t \in txns, CommitFinalise(t)
    PROVE  LockInv'
<1>1. /\ t.step \in LockSteps /\ item[t.step] \in Items /\ t.kind = "finalise"
      /\ item[t.step].latest = t.no
  BY ReadyEffect DEF CommitFinalise, Newest
<1>2. PICK status \in {"DONE", "READY"} :
        item' = [item EXCEPT ![t.step].status = status, ![t.step].open = FALSE]
  BY DEF CommitFinalise
<1> DEFINE i == [item[t.step] EXCEPT !.status = status, !.open = FALSE]
<1>3. i \in Items /\ i.latest = item[t.step].latest /\ ~i.open
  BY <1>1 DEF Items
<1>4. item' = [item EXCEPT ![t.step] = i]
  BY <1>1, <1>2 DEF LockInv, LockTypes, Items
<1>5. /\ txns' = txns \ {t} /\ call' = call /\ ended' = ended
      /\ alive' = alive \ {<<t.step, t.no>>}
  BY <1>1 DEF CommitFinalise, End
<1>6. call \in [LockSteps \X (1..LockAttempts) ->
                  {"NONE", "STARTED", "REFUSED", "COMPLETED", "ABANDONED"}]
  BY DEF LockInv, LockTypes
<1>7. ASSUME NEW e \in alive', e[1] = t.step PROVE call[e] # "STARTED"
  <2>1. e \in alive /\ e # <<t.step, t.no>> /\ e = <<e[1], e[2]>>
    BY <1>5 DEF LockInv, LockTypes
  <2> QED BY <1>1, <1>7, <2>1 DEF LockInv, CallsAreCurrent
<1> HIDE DEF i
<1> QED BY <1>1, <1>3, <1>4, <1>5, <1>6, <1>7, RowKeeps

\* Releasing a step keeps the invariant: the call of its attempt is abandoned.
LEMMA ReleaseKeeps ==
    ASSUME LockInv, NEW t \in txns, CommitRelease(t)
    PROVE  LockInv'
<1>1. /\ t.step \in LockSteps /\ item[t.step] \in Items /\ t.kind = "release"
      /\ item[t.step].latest = t.no
  BY ReadyEffect DEF CommitRelease
<1> DEFINE i == [item[t.step] EXCEPT !.status = "READY", !.open = FALSE]
<1>3. i \in Items /\ i.latest = item[t.step].latest /\ ~i.open
  BY <1>1 DEF Items
<1>4. item' = [item EXCEPT ![t.step] = i]
  BY <1>1 DEF CommitRelease, LockInv, LockTypes, Items
<1>5. txns' = txns \ {t} /\ ended' = ended /\ alive' = alive
  BY <1>1 DEF CommitRelease, End
<1>6. call \in [LockSteps \X (1..LockAttempts) ->
                  {"NONE", "STARTED", "REFUSED", "COMPLETED", "ABANDONED"}]
  BY DEF LockInv, LockTypes
<1>7. call' = [call EXCEPT ![<<t.step, t.no>>] =
                  IF @ = "STARTED" THEN "ABANDONED" ELSE @]
  BY DEF CommitRelease
<1>8. /\ call' \in [LockSteps \X (1..LockAttempts) ->
                      {"NONE", "STARTED", "REFUSED", "COMPLETED", "ABANDONED"}]
      /\ \A e \in LockSteps \X (1..LockAttempts) :
            /\ call'[e] # call[e] => call[e] = "STARTED" /\ call'[e] # "STARTED"
            /\ e = <<t.step, t.no>> => call'[e] # "STARTED"
  BY <1>6, <1>7
<1>9. ASSUME NEW e \in alive', e[1] = t.step PROVE call'[e] # "STARTED"
  <2>1. e \in alive /\ e \in LockSteps \X (1..LockAttempts) /\ e = <<e[1], e[2]>>
    BY <1>5 DEF LockInv, LockTypes
  <2>2. CASE e[2] = t.no
    BY <1>8, <1>9, <2>1, <2>2
  <2>3. CASE e[2] # t.no
    BY <1>1, <1>8, <1>9, <2>1, <2>3 DEF LockInv, CallsAreCurrent
  <2> QED BY <2>2, <2>3
<1> HIDE DEF i
<1> QED BY <1>1, <1>3, <1>4, <1>5, <1>8, <1>9, RowKeeps

\* The start and the end of a model call keep the invariant.
LEMMA CallKeeps ==
    ASSUME LockInv, NEW t \in txns, CommitStart(t) \/ CommitComplete(t)
    PROVE  LockInv'
<1> DEFINE c == <<t.step, t.no>>
           Statuses == {"NONE", "STARTED", "REFUSED", "COMPLETED", "ABANDONED"}
<1>1. c \in alive /\ c \in LockSteps \X (1..LockAttempts)
  BY ReadyEffect DEF CommitStart, CommitComplete, LockInv, LockTypes
<1>2. /\ txns' = txns \ {t} /\ item' = item /\ ended' = ended /\ alive' = alive
  BY DEF CommitStart, CommitComplete, End
<1>3. PICK status \in Statuses :
        /\ call' = [call EXCEPT ![c] = status]
        /\ status = "STARTED" => Newest(t)
  <2>1. CASE CommitStart(t)
    BY <2>1 DEF CommitStart
  <2>2. CASE CommitComplete(t)
    BY <2>2 DEF CommitComplete
  <2> QED BY <2>1, <2>2
<1>4. LockTypes /\ CallsAreCurrent
  BY DEF LockInv
<1>5. /\ call' \in [LockSteps \X (1..LockAttempts) -> Statuses]
      /\ call'[c] = status
      /\ \A e \in LockSteps \X (1..LockAttempts) : e # c => call'[e] = call[e]
  BY <1>1, <1>3, <1>4 DEF LockTypes
<1>6. LockTypes'
  BY <1>2, <1>4, <1>5 DEF LockTypes
<1>7. CallsAreCurrent'
  <2>1. ASSUME NEW e \in alive, call'[e] = "STARTED"
        PROVE  item[e[1]].open /\ item[e[1]].latest = e[2]
    <3>1. CASE e = c
      BY <1>3, <1>5, <2>1, <3>1 DEF Newest
    <3>2. CASE e # c
      BY <1>4, <1>5, <2>1, <3>2 DEF CallsAreCurrent, LockTypes
    <3> QED BY <3>1, <3>2
  <2>2. ASSUME NEW x \in LockSteps, NEW n \in 1..LockAttempts, n > item[x].latest
        PROVE  call'[<<x, n>>] = "NONE"
    <3>1. <<x, n>> # c
      <4>1. t.no <= item[t.step].latest /\ t.no \in Nat /\ item[t.step].latest \in Nat
        BY <1>1, <1>4 DEF CallsAreCurrent, LockTypes
      <4> QED BY <2>2, <4>1
    <3>2. <<x, n>> \in LockSteps \X (1..LockAttempts)
      OBVIOUS
    <3> QED BY <1>4, <1>5, <2>2, <3>1, <3>2 DEF CallsAreCurrent
  <2> QED BY <1>2, <1>4, <2>1, <2>2 DEF CallsAreCurrent
<1> QED BY <1>2, <1>6, <1>7, EndKeeps

\* So do a cancellation and a transaction that returns early or is rolled back.
LEMMA OtherEndKeeps ==
    ASSUME LockInv, NEW t \in txns, CommitCancel(t) \/ Return(t) \/ Abort(t)
    PROVE  LockInv'
<1>1. /\ txns' = txns \ {t} /\ item' = item /\ call' = call
      /\ alive' = IF t.kind = "finalise" THEN alive \ {<<t.step, t.no>>} ELSE alive
      /\ ended' \in {ended, TRUE}
  BY DEF CommitCancel, Return, Abort, End
<1>2. LockTypes'
  BY <1>1 DEF LockInv, LockTypes
<1>3. CallsAreCurrent'
  BY <1>1 DEF LockInv, CallsAreCurrent
<1> QED BY <1>1, <1>2, <1>3, EndKeeps

\* A lease that runs out keeps the invariant.
LEMMA LapseKeeps ==
    ASSUME LockInv, NEW s \in LockSteps, Lapse(s)
    PROVE  LockInv'
<1> DEFINE i == [item[s] EXCEPT !.lapsed = TRUE]
<1>1. LockTypes /\ CallsAreCurrent /\ item[s] \in Items
  BY DEF LockInv, LockTypes, Items
<1>2. i \in Items /\ i.latest = item[s].latest /\ i.open = item[s].open
      /\ i.status = item[s].status
  BY <1>1 DEF Items
<1>3. /\ item' = [item EXCEPT ![s] = i] /\ txns' = txns
      /\ alive' = alive /\ call' = call /\ ended' = ended
  BY DEF Lapse
<1> HIDE DEF i
<1>4. item' \in [LockSteps -> Items]
      /\ \A x \in LockSteps : /\ item'[x].latest = item[x].latest
                              /\ item'[x].open = item[x].open
                              /\ item'[x].status = item[x].status
  BY <1>1, <1>2, <1>3, ItemUpdate
<1>5. LockTypes'
  BY <1>1, <1>3, <1>4 DEF LockTypes, Items
<1>6. CallsAreCurrent'
  <2>1. \A e \in alive : e[1] \in LockSteps
    BY <1>1 DEF LockTypes
  <2> QED BY <1>1, <1>3, <1>4, <2>1 DEF CallsAreCurrent
<1>7. \A t \in txns : Owned(t)'
  <2>1. \A t \in txns : Owned(t) /\ Shape(t)
    BY DEF LockInv
  <2>2. ASSUME NEW t \in txns, t.step \in LockSteps PROVE Owned(t)'
    BY <1>3, <1>4, <2>1, <2>2 DEF Owned
  <2>3. ASSUME NEW t \in txns, t.step \notin LockSteps PROVE Owned(t)'
    BY <1>3, <2>1, <2>3 DEF Owned
  <2> QED BY <2>2, <2>3
<1> QED BY <1>3, <1>5, <1>6, <1>7 DEF LockInv, Exclusive

\* The invariant holds throughout.
LEMMA AlwaysLockInv == LockSpec => []LockInv
<1>1. LockInit => LockInv
  <2> SUFFICES ASSUME LockInit PROVE LockInv
    OBVIOUS
  <2>1. item \in [LockSteps -> Items]
    BY LockAssumption DEF LockInit, Items
  <2>2. call \in [LockSteps \X (1..LockAttempts) -> {"NONE"}]
    BY DEF LockInit
  <2>3. alive = {} /\ txns = {} /\ ended = FALSE
    BY DEF LockInit
  <2>4. LockTypes
    BY <2>1, <2>2, <2>3 DEF LockTypes, Items
  <2>5. \A s \in LockSteps : ~item[s].open
    BY DEF LockInit
  <2>6. \A s \in LockSteps, n \in 1..LockAttempts : call[<<s, n>>] = "NONE"
    BY <2>2
  <2> QED BY <2>3, <2>4, <2>5, <2>6 DEF LockInv, Exclusive, CallsAreCurrent
<1>2. LockInv /\ [LockNext]_lockVars => LockInv'
  <2> SUFFICES ASSUME LockInv, [LockNext]_lockVars PROVE LockInv'
    OBVIOUS
  <2>1. ASSUME NEW s \in LockSteps, BeginClaim(s) PROVE LockInv'
    BY <2>1, BeginKeeps DEF BeginClaim
  <2>2. ASSUME NEW s \in LockSteps, BeginRelease(s) PROVE LockInv'
    BY <2>2, BeginKeeps DEF BeginRelease
  <2>3. CASE BeginCancel
    BY <2>3, BeginKeeps DEF BeginCancel
  <2>4. ASSUME NEW e \in alive, BeginStart(e) \/ BeginComplete(e) \/ BeginRenew(e) \/ BeginFinalise(e)
        PROVE  LockInv'
    <3>1. e = <<e[1], e[2]>> /\ e[1] \in LockSteps
      BY DEF LockInv, LockTypes
    <3>2. CASE BeginStart(e)
      BY <3>1, <3>2, BeginKeeps DEF BeginStart
    <3>3. CASE BeginComplete(e)
      BY <3>1, <3>3, BeginKeeps DEF BeginComplete
    <3>4. CASE BeginRenew(e)
      BY <3>1, <3>4, BeginKeeps DEF BeginRenew
    <3>5. CASE BeginFinalise(e)
      BY <3>1, <3>5, BeginKeeps DEF BeginFinalise
    <3> QED BY <2>4, <3>2, <3>3, <3>4, <3>5
  <2>5. CASE UNCHANGED lockVars
    <3>1. \A t : Owned(t)' <=> Owned(t)
      BY <2>5 DEF Owned, lockVars
    <3> QED BY <2>5, <3>1 DEF lockVars, LockInv, LockTypes, Exclusive, CallsAreCurrent
  <2> QED BY <2>1, <2>2, <2>3, <2>4, <2>5, LockKeeps, ClaimKeeps, RenewKeeps, FinaliseKeeps,
             ReleaseKeeps, CallKeeps, OtherEndKeeps, LapseKeeps DEF LockNext
<1> QED BY <1>1, <1>2, PTL DEF LockSpec

\* In every circle of waiting transactions one is the start of a model call by
\* an attempt that is closed or superseded, for any number of steps and attempts
\* (_lock_current against claim, renew, succeed, fail and make_ready).
THEOREM DeadlocksNeedStaleStart == LockSpec => []DeadlockNeedsStale
BY AlwaysLockInv, CirclesNeedStale, PTL
=============================================================================
