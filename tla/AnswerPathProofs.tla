---------------------------- MODULE AnswerPathProofs ----------------------------
(* Proofs about AnswerPath: where the evidence of a run comes from, what a plan is  *)
(* made of, and what a complete answer rests on, for every set of requests, every   *)
(* state of the web, every set of planner replies and every bound on failures.      *)
EXTENDS AnswerPath, FiniteSetTheorems, SequenceTheorems, TLAPS

-----------------------------------------------------------------------------------
(* Least elements and counting.                                                     *)

\* A non-empty set of natural numbers has a least element.
LEMMA LeastOf ==
    ASSUME NEW T \in SUBSET Nat, T # {}
    PROVE  Min(T) \in T /\ \A y \in T : Min(T) <= y
<1>1. PICK n \in T : \A m \in T : ~(<<m, n>> \in OpToRel(<, Nat))
  BY WFMin, NatLessThanWellFounded
<1>2. ASSUME NEW m \in T PROVE n <= m
  <2>1. SUFFICES ASSUME m < n PROVE FALSE
    OBVIOUS
  <2>2. <<m, n>> \in Nat \X Nat /\ <<m, n>>[1] < <<m, n>>[2]
    BY <2>1
  <2>3. <<m, n>> \in OpToRel(<, Nat)
    BY <2>2 DEF OpToRel
  <2> QED BY <1>1, <2>3
<1>3. \E x \in T : \A y \in T : x =< y
  BY <1>2
<1> QED BY <1>3 DEF Min

\* The members that come before one.
Below(rank, x) == {y \in DOMAIN rank : rank[y] < rank[x]}

\* A member of higher rank has more members before it.
LEMMA BelowGrows ==
    ASSUME NEW S, IsFiniteSet(S), NEW rank \in [S -> Int], NEW x \in S, NEW y \in S
    PROVE  /\ Cardinality(Below(rank, x)) \in Nat
           /\ Cardinality(Below(rank, x)) < Cardinality(S)
           /\ rank[y] < rank[x] => Cardinality(Below(rank, y)) < Cardinality(Below(rank, x))
<1>1. Below(rank, x) \in SUBSET S /\ x \in S \ Below(rank, x)
  BY DEF Below
<1>2. IsFiniteSet(Below(rank, x)) /\ Cardinality(Below(rank, x)) \in Nat /\ Cardinality(S) \in Nat
  BY <1>1, FS_Subset, FS_CardinalityType
<1>3. Cardinality(Below(rank, x)) < Cardinality(S)
  BY <1>1, <1>2, FS_Subset
<1>4. ASSUME rank[y] < rank[x] PROVE Cardinality(Below(rank, y)) < Cardinality(Below(rank, x))
  <2>1. Below(rank, y) \in SUBSET Below(rank, x) /\ y \in Below(rank, x) \ Below(rank, y)
    BY <1>4 DEF Below
  <2>2. IsFiniteSet(Below(rank, y)) /\ Cardinality(Below(rank, y)) \in Nat
    BY <1>2, <2>1, FS_Subset, FS_CardinalityType
  <2> QED BY <1>2, <2>1, <2>2, FS_Subset
<1> QED BY <1>2, <1>3, <1>4

\* A finite set has a member of least rank.
LEMMA LeastRank ==
    ASSUME NEW S, IsFiniteSet(S), S # {}, NEW rank \in [S -> Int]
    PROVE  \E x \in S : \A y \in S : rank[x] <= rank[y]
<1> DEFINE T == {Cardinality(Below(rank, x)) : x \in S}
<1>1. T \in SUBSET Nat /\ T # {}
  BY BelowGrows
<1>2. PICK x \in S : Cardinality(Below(rank, x)) = Min(T)
  <2>1. Min(T) \in T
    BY <1>1, LeastOf
  <2> QED BY <2>1
<1>3. ASSUME NEW y \in S, rank[y] < rank[x] PROVE FALSE
  <2>1. Min(T) <= Cardinality(Below(rank, y))
    <3>1. Cardinality(Below(rank, y)) \in T
      BY Zenon
    <3> HIDE DEF T
    <3> QED BY <1>1, <3>1, LeastOf
  <2>2. Cardinality(Below(rank, y)) < Cardinality(Below(rank, x))
    BY <1>3, BelowGrows
  <2>3. Cardinality(Below(rank, y)) \in Nat /\ Cardinality(Below(rank, x)) \in Nat
    BY BelowGrows
  <2> HIDE DEF T
  <2> QED BY <1>2, <2>1, <2>2, <2>3
<1>4. \A y \in S : rank[x] <= rank[y]
  BY <1>3
<1> QED BY <1>4

\* Sorted lists the members of a set of which no two have the same rank, each once.
LEMMA SortedLists ==
    ASSUME NEW S, IsFiniteSet(S), NEW rank \in [S -> Int],
           \A x, y \in S : rank[x] = rank[y] => x = y
    PROVE  /\ Sorted(rank) \in [1..Cardinality(S) -> S]
           /\ \A m, n \in 1..Cardinality(S) : Sorted(rank)[m] = Sorted(rank)[n] => m = n
<1> DEFINE N == Cardinality(S)
           count == [x \in S |-> Cardinality(Below(rank, x))]
<1>1. N \in Nat
  BY FS_CardinalityType
<1>2. count \in Injection(S, 0..(N - 1))
  <2>1. count \in [S -> 0..(N - 1)]
    BY <1>1, BelowGrows
  <2>2. ASSUME NEW x \in S, NEW y \in S, count[x] = count[y] PROVE x = y
    <3>1. ~(rank[x] < rank[y]) /\ ~(rank[y] < rank[x])
      BY <2>2, BelowGrows
    <3> QED BY <3>1
  <2> QED BY <2>1, <2>2 DEF Injection, IsInjective
<1>3. count \in Surjection(S, 0..(N - 1))
  <2> HIDE DEF count
  <2>1. IsFiniteSet(0..(N - 1)) /\ Cardinality(0..(N - 1)) = N
    <3> HIDE DEF N
    <3>1. 0 \in Int /\ N - 1 \in Int
      BY <1>1
    <3>2. IsFiniteSet(0..(N - 1)) /\ Cardinality(0..(N - 1)) = IF 0 > N - 1 THEN 0 ELSE N - 1 - 0 + 1
      BY <3>1, FS_Interval, Zenon
    <3> QED BY <1>1, <3>2
  <2> QED BY <1>2, <2>1, FS_Injection, Zenon
<1>4. ASSUME NEW n \in 1..N
      PROVE  Sorted(rank)[n] \in S /\ count[Sorted(rank)[n]] = n - 1
  <2>1. PICK x \in S : count[x] = n - 1
    <3>1. n - 1 \in 0..(N - 1)
      BY <1>1, <1>4
    <3> QED BY <1>3, <3>1, Zenon DEF Surjection
  <2>2. DOMAIN rank = S
    OBVIOUS
  <2>3. Sorted(rank)[n] = CHOOSE z \in S : Cardinality({y \in S : rank[y] < rank[z]}) = n - 1
    BY <1>4, <2>2, Zenon DEF Sorted
  <2>4. \A z \in S : count[z] = Cardinality({y \in S : rank[y] < rank[z]})
    BY <2>2, Zenon DEF Below
  <2>5. Cardinality({y \in S : rank[y] < rank[x]}) = n - 1
    BY <2>1, <2>4, Zenon
  <2>6. Sorted(rank)[n] \in S /\ Cardinality({y \in S : rank[y] < rank[Sorted(rank)[n]]}) = n - 1
    BY <2>3, <2>5, Zenon
  <2> QED BY <2>4, <2>6, Zenon
<1>5. ASSUME NEW m \in 1..N, NEW n \in 1..N, Sorted(rank)[m] = Sorted(rank)[n] PROVE m = n
  <2>1. m - 1 = n - 1
    BY <1>4, <1>5, Zenon
  <2> QED BY <2>1, <1>1
<1>6. Sorted(rank) = [n \in 1..N |-> Sorted(rank)[n]]
  <2>1. DOMAIN rank = S
    OBVIOUS
  <2> DEFINE e(n) == CHOOSE x \in DOMAIN rank :
                       Cardinality({y \in DOMAIN rank : rank[y] < rank[x]}) = n - 1
  <2>2. Sorted(rank) = [n \in 1..Cardinality(DOMAIN rank) |-> e(n)]
    BY Zenon DEF Sorted
  <2>3. Cardinality(DOMAIN rank) = N
    BY <2>1, Zenon
  <2> HIDE DEF e, N
  <2> QED BY <2>2, <2>3
<1>7. Sorted(rank) \in [1..N -> S]
  <2> HIDE DEF count, N
  <2> QED BY <1>4, <1>6, Zenon
<1> QED BY <1>5, <1>7

-----------------------------------------------------------------------------------
(* Candidates and evidence.                                                         *)

\* What accepted evidence rests on: a candidate that an adapter quotes, or one that
\* the model may be shown.
Backed(i, c) ==
  /\ i.id = c.id /\ i.url = c.url /\ i.recent = c.recent
  /\ \/ deterministic_proposal(c) # NoProposal
     \/ ~requires_source_set_absence(c) /\ ~is_stale_reviewed_current(c)

\* What a candidate is read from.
ReadFrom(c, entity, facts, documents) ==
  \E id \in DOMAIN facts : \E d \in DOMAIN documents :
    /\ id \in documents[d].facts
    /\ \E k \in DOMAIN documents[d].chunks : c = Candidate(id, facts[id], entity, documents[d], d, k)

\* A selected candidate is an excerpt of a document that was read for its fact.
LEMMA CandidateOrigin ==
    ASSUME NEW entity, NEW facts, NEW documents,
           NEW c \in SelectCandidates(entity, facts, documents)
    PROVE  ReadFrom(c, entity, facts, documents)
<1> DEFINE found == [id \in DOMAIN facts |-> CandidatesOf(id, facts[id], entity, documents)]
<1>1. c \in UNION {found[id] : id \in DOMAIN facts}
  BY Zenon DEF SelectCandidates
<1>2. PICK id \in DOMAIN facts : c \in found[id]
  BY <1>1, Zenon
<1>3. c \in CandidatesOf(id, facts[id], entity, documents)
  BY <1>2, Zenon
<1>4. c \in UNION { { Candidate(id, facts[id], entity, documents[d], d, k) :
                        k \in DOMAIN documents[d].chunks } :
                    d \in {x \in DOMAIN documents : id \in documents[x].facts} }
  BY <1>3, Zenon DEF CandidatesOf
<1>5. PICK d \in DOMAIN documents :
        /\ id \in documents[d].facts
        /\ \E k \in DOMAIN documents[d].chunks : c = Candidate(id, facts[id], entity, documents[d], d, k)
  BY <1>4, Zenon
<1> QED BY <1>2, <1>5, Zenon DEF ReadFrom

\* Evidence that the adapters accept is backed by its candidate.
LEMMA DeterministicIsBacked ==
    ASSUME NEW candidates, NEW i \in Accepted(Deterministic(candidates))
    PROVE  \E c \in candidates : Backed(i, c)
<1>1. PICK c \in candidates : i = Proposed(c)
  BY Zenon DEF Accepted, Deterministic
<1>2. i.verdict = "ACCEPTED"
  BY Zenon DEF Accepted
<1>3. deterministic_proposal(c) # NoProposal
  <2>1. SUFFICES ASSUME deterministic_proposal(c) = NoProposal PROVE FALSE
    OBVIOUS
  <2>2. i = Item(c, "REJECTED", "SUPPORTS", "audit", Excerpt)
    BY <1>1, <2>1, Zenon DEF Proposed, Rejected
  <2>3. i.verdict = "REJECTED"
    BY <2>2 DEF Item
  <2> QED BY <1>2, <2>3
<1>4. \E s, b, q : i = Item(c, "ACCEPTED", s, b, q)
  BY <1>1, <1>3, Zenon DEF Proposed
<1>5. i.id = c.id /\ i.url = c.url /\ i.recent = c.recent
  BY <1>4 DEF Item
<1> QED BY <1>3, <1>5, Zenon DEF Backed

\* So is what the model accepts in a well-formed reply to what it was offered.
LEMMA ModelIsBacked ==
    ASSUME NEW candidates, NEW reply, WellFormedReply(reply, ModelCandidates(candidates)),
           NEW i \in ModelAccepted(reply)
    PROVE  \E c \in candidates : Backed(i, c)
<1>1. PICK v \in reply : i = Item(v.candidate, "ACCEPTED", v.support, "model", Excerpt)
  BY Zenon DEF ModelAccepted
<1>2. v.candidate \in ModelCandidates(candidates)
  BY <1>1, Zenon DEF WellFormedReply
<1>3. /\ v.candidate \in candidates
      /\ ~requires_source_set_absence(v.candidate) /\ ~is_stale_reviewed_current(v.candidate)
  BY <1>2, Zenon DEF ModelCandidates
<1>4. i.id = v.candidate.id /\ i.url = v.candidate.url /\ i.recent = v.candidate.recent
  BY <1>1 DEF Item
<1> QED BY <1>3, <1>4, Zenon DEF Backed

\* The audit accepts nothing of its own.
LEMMA AuditAccepts ==
    ASSUME NEW candidates, NEW accepted, NEW i \in Accepted(CompleteAudit(candidates, accepted))
    PROVE  i \in accepted
<1>1. i.verdict = "ACCEPTED" /\ i \in CompleteAudit(candidates, accepted)
  BY Zenon DEF Accepted
<1>2. i \in accepted \/ \E c : i = Rejected(c)
  BY <1>1, Zenon DEF CompleteAudit
<1>3. ASSUME NEW c, i = Rejected(c) PROVE FALSE
  <2>1. i.verdict = "REJECTED"
    BY <1>3 DEF Rejected, Item
  <2> QED BY <1>1, <2>1
<1> QED BY <1>2, <1>3

\* Everything that a verification accepts is backed by one of its candidates.
EvidenceOk(items, candidates) == \A i \in Accepted(items) : \E c \in candidates : Backed(i, c)
LEMMA VerifiedIsBacked ==
    ASSUME Verify
    PROVE  EvidenceOk(evidence', Candidates)
<1> DEFINE accepted == Accepted(Deterministic(Candidates))
           offered == IF request.models THEN ModelCandidates(Candidates) ELSE {}
<1>1. \/ evidence' = CompleteAudit(Candidates, accepted)
      \/ \E reply : /\ WellFormedReply(reply, offered) /\ offered # {}
                    /\ evidence' = CompleteAudit(Candidates, accepted \cup ModelAccepted(reply))
  BY Zenon DEF Verify, Verified
<1>2. ASSUME NEW i \in Accepted(evidence') PROVE \E c \in Candidates : Backed(i, c)
  <2>1. CASE evidence' = CompleteAudit(Candidates, accepted)
    <3>1. i \in accepted
      BY <1>2, <2>1, AuditAccepts, Zenon
    <3> QED BY <3>1, DeterministicIsBacked, Zenon
  <2>2. ASSUME NEW reply, WellFormedReply(reply, offered), offered # {},
               evidence' = CompleteAudit(Candidates, accepted \cup ModelAccepted(reply))
        PROVE  \E c \in Candidates : Backed(i, c)
    <3>1. i \in accepted \cup ModelAccepted(reply)
      BY <1>2, <2>2, AuditAccepts, Zenon
    <3>2. WellFormedReply(reply, ModelCandidates(Candidates))
      BY <2>2, Zenon
    <3>3. CASE i \in accepted
      BY <3>3, DeterministicIsBacked, Zenon
    <3>4. CASE i \in ModelAccepted(reply)
      BY <3>2, <3>4, ModelIsBacked, Zenon
    <3> QED BY <3>1, <3>3, <3>4, Zenon
  <2> QED BY <1>1, <2>1, <2>2, Zenon
<1> QED BY <1>2, Zenon DEF EvidenceOk
-----------------------------------------------------------------------------------
(* Plans.                                                                           *)

\* What the cues of a message ask for is a number of facts.
LEMMA CueFloorType ==
    ASSUME NEW m, NEW cue, NEW n \in Nat, Cardinality(m.types) \in Nat
    PROVE  CueFloor(m, cue, n) \in Nat
<1>1. CASE cue \in DOMAIN FixedFloor
  BY <1>1 DEF CueFloor, FixedFloor
<1>2. CASE cue \notin DOMAIN FixedFloor
  <2>1. \/ CueFloor(m, cue, n) = n + 1 \/ CueFloor(m, cue, n) = 2 * n
        \/ CueFloor(m, cue, n) = n + 2 \/ CueFloor(m, cue, n) = n
    BY <1>2, Zenon DEF CueFloor
  <2> QED BY <2>1
<1> QED BY <1>1, <1>2

\* A finite set of natural numbers has a greatest element.
LEMMA GreatestOf ==
    ASSUME NEW T \in SUBSET Nat, T # {}, IsFiniteSet(T)
    PROVE  Max(T) \in T /\ \A y \in T : Max(T) >= y
<1> DEFINE rank == [x \in T |-> -x]
<1>1. rank \in [T -> Int]
  OBVIOUS
<1>2. PICK x \in T : \A y \in T : rank[x] <= rank[y]
  <2> HIDE DEF rank
  <2> QED BY <1>1, LeastRank
<1>3. \E z \in T : \A y \in T : z >= y
  BY <1>2
<1> QED BY <1>3 DEF Max

\* The positions of the fact types.
LEMMA TypeRanks ==
    ASSUME NEW t \in FactType
    PROVE  TypeRank(t) \in 1..7 /\ TypeOrder[TypeRank(t)] = t
<1> DEFINE I == {i \in 1..Len(TypeOrder) : TypeOrder[i] = t}
<1>1. Len(TypeOrder) = 7
  BY DEF TypeOrder
<1>2. \E i \in 1..7 : TypeOrder[i] = t
  BY DEF TypeOrder, FactType
<1>3. I \in SUBSET Nat /\ I # {}
  BY <1>1, <1>2
<1>4. TypeRank(t) = Min(I)
  BY <1>3, Zenon DEF TypeRank, SelectInSeq
<1>5. Min(I) \in I
  <2> HIDE DEF I
  <2> QED BY <1>3, LeastOf
<1> QED BY <1>1, <1>4, <1>5

\* There are fewer fact types than a plan may have facts.
LEMMA FactTypes ==
    ASSUME NEW T \in SUBSET FactType
    PROVE  IsFiniteSet(T) /\ Cardinality(T) \in 0..7
<1> DEFINE f == [t \in T |-> TypeRank(t)]
<1>1. f \in Injection(T, 1..7)
  <2>1. f \in [T -> 1..7]
    BY TypeRanks
  <2>2. ASSUME NEW x \in T, NEW y \in T, f[x] = f[y] PROVE x = y
    BY <2>2, TypeRanks
  <2> QED BY <2>1, <2>2 DEF Injection, IsInjective
<1>2. IsFiniteSet(1..7) /\ Cardinality(1..7) = 7
  <2> DEFINE n == 7
  <2>1. 1 \in Int /\ n \in Int
    OBVIOUS
  <2> HIDE DEF n
  <2>2. IsFiniteSet(1..n) /\ Cardinality(1..n) = IF 1 > n THEN 0 ELSE n - 1 + 1
    BY <2>1, FS_Interval, Zenon
  <2> QED BY <2>2 DEF n
<1>3. IsFiniteSet(T) /\ Cardinality(T) <= Cardinality(1..7)
  <2> HIDE DEF f
  <2> QED BY <1>1, <1>2, FS_Injection, Zenon
<1> QED BY <1>2, <1>3, FS_CardinalityType

\* The floor is at least one and at most eight.
LEMMA FloorBounds ==
    ASSUME NEW m, IsMessage(m)
    PROVE  minimum_fact_count(m) \in 1..MaxFacts /\ maximum_fact_count(m) \in 1..MaxFacts
<1> DEFINE f == [c \in m.cues |-> CueFloor(m, c[1], c[2])]
           C == {CueFloor(m, c[1], c[2]) : c \in m.cues}
           A == {1, Cardinality(m.types)}
<1>1. Cardinality(m.types) \in Nat
  BY FactTypes DEF IsMessage
<1>2. C \in SUBSET Nat
  BY <1>1, CueFloorType DEF IsMessage
<1>3. IsFiniteSet(C)
  <2>1. f \in Surjection(m.cues, C)
    BY DEF Surjection
  <2>2. IsFiniteSet(m.cues)
    BY DEF IsMessage
  <2> HIDE DEF f, C
  <2> QED BY <2>1, <2>2, FS_Surjection, Zenon
<1>4. IsFiniteSet(A)
  <2> DEFINE k == Cardinality(m.types)
  <2> HIDE DEF k
  <2>1. IsFiniteSet({1}) /\ IsFiniteSet({k})
    BY FS_Singleton, Zenon
  <2>2. IsFiniteSet({1} \cup {k})
    BY <2>1, FS_Union, Zenon
  <2>3. {1} \cup {k} = {1, k}
    OBVIOUS
  <2> QED BY <2>2, <2>3 DEF k
<1>5. A \cup C \in SUBSET Nat /\ IsFiniteSet(A \cup C) /\ 1 \in A \cup C
  <2>1. A \in SUBSET Nat /\ 1 \in A
    BY <1>1
  <2> HIDE DEF C, A
  <2>2. IsFiniteSet(A \cup C)
    BY <1>3, <1>4, FS_Union, Zenon
  <2> QED BY <1>2, <2>1, <2>2
<1>6. Max(A \cup C) \in Nat /\ Max(A \cup C) >= 1
  <2> DEFINE U == A \cup C
  <2>1. U \in SUBSET Nat /\ IsFiniteSet(U) /\ 1 \in U
    BY <1>5
  <2> HIDE DEF U
  <2>2. Max(U) \in U /\ \A y \in U : Max(U) >= y
    BY <2>1, GreatestOf
  <2>3. Max(U) \in Nat /\ Max(U) >= 1
    BY <2>1, <2>2
  <2> QED BY <2>3 DEF U
<1>7. m.scalar \/ minimum_fact_count(m) = Min({MaxFacts, Max(A \cup C)})
  BY Zenon DEF minimum_fact_count
<1>8. Min({MaxFacts, Max(A \cup C)}) \in 1..MaxFacts
  <2> DEFINE k == Max(A \cup C)
  <2>1. k \in Nat /\ k >= 1
    BY <1>6
  <2> HIDE DEF k
  <2>2. Min({MaxFacts, k}) \in {MaxFacts, k} /\ \A y \in {MaxFacts, k} : Min({MaxFacts, k}) <= y
    BY <2>1, LeastOf DEF MaxFacts
  <2>3. Min({MaxFacts, k}) \in 1..MaxFacts
    BY <2>1, <2>2 DEF MaxFacts
  <2> QED BY <2>3 DEF k
<1>9. minimum_fact_count(m) \in 1..MaxFacts
  <2>1. CASE m.scalar
    <3>1. minimum_fact_count(m) = 1
      BY <2>1, Zenon DEF minimum_fact_count
    <3> QED BY <3>1 DEF MaxFacts
  <2>2. CASE ~m.scalar
    BY <1>7, <1>8, <2>2, Zenon
  <2> QED BY <2>1, <2>2
<1>10. maximum_fact_count(m) \in 1..MaxFacts
  <2>1. maximum_fact_count(m) = minimum_fact_count(m) \/ maximum_fact_count(m) = MaxFacts
    BY Zenon DEF maximum_fact_count
  <2>2. MaxFacts \in 1..MaxFacts
    BY DEF MaxFacts
  <2> QED BY <1>9, <2>1, <2>2, Zenon
<1> QED BY <1>9, <1>10

\* What the parser keeps of a reply is a list of its facts.
LEMMA KeptFactsType ==
    ASSUME NEW reply \in Seq(RawFacts)
    PROVE  KeptFacts(reply) \in Seq(RawFacts)
<1> DEFINE kept == {i \in DOMAIN reply : reply[i].kind # "citation"}
           rank == [i \in kept |-> i]
           N == Cardinality(kept)
<1>1. kept \in SUBSET (1..Len(reply)) /\ Len(reply) \in Nat
  OBVIOUS
<1>2. IsFiniteSet(kept)
  <2> DEFINE n == Len(reply)
  <2>1. 1 \in Int /\ n \in Int
    BY <1>1
  <2>2. kept \in SUBSET (1..n)
    BY <1>1
  <2> HIDE DEF n, kept
  <2>3. IsFiniteSet(1..n)
    BY <2>1, FS_Interval, Zenon
  <2> QED BY <2>2, <2>3, FS_Subset, Zenon
<1>3. N \in Nat
  <2> HIDE DEF kept
  <2> QED BY <1>2, FS_CardinalityType
<1>4. Sorted(rank) \in [1..N -> kept]
  <2>1. rank \in [kept -> Int] /\ \A x, y \in kept : rank[x] = rank[y] => x = y
    BY <1>1
  <2> HIDE DEF kept, rank
  <2> QED BY <1>2, <2>1, SortedLists
<1>5. KeptFacts(reply) = [n \in 1..N |-> reply[Sorted(rank)[n]]]
  BY Zenon DEF KeptFacts
<1>6. \A n \in 1..N : reply[Sorted(rank)[n]] \in RawFacts
  <2>1. \A i \in kept : reply[i] \in RawFacts
    BY <1>1
  <2> HIDE DEF kept, rank
  <2> QED BY <1>4, <2>1, Zenon
<1> HIDE DEF N, rank
<1>7. KeptFacts(reply) \in [1..N -> RawFacts]
  BY <1>5, <1>6, Zenon
<1> QED BY <1>3, <1>7

\* The words of the facts that report a gap.
GapWords ==
  {"evidence_gap", "no official source discloses", "no official public source",
   "no independent public source", "no current public source", "private", "unreleased",
   "weight", "postgresql", "community"}

\* A fact that no excerpt can state says so in its words.
Silent(f) == "evidence_gap" \in f.text \/ "no official source discloses" \in f.text
GapReport(f) == Silent(f) /\ f.text \subseteq GapWords

\* The fields of a parsed and of a heuristic fact.
LEMMA ParsedFactFields ==
    ASSUME NEW m, NEW raw \in RawFacts
    PROVE  /\ ParsedFact(m, raw).key = NormalizedKey(raw)
           /\ ParsedFact(m, raw).answer = Nothing => GapReport(ParsedFact(m, raw))
           /\ ~m.optional => ParsedFact(m, raw).required = TRUE
<1>1. /\ ParsedFact(m, raw).key = NormalizedKey(raw) /\ ParsedFact(m, raw).text = RawText(raw)
      /\ ParsedFact(m, raw).answer = IF raw.kind = "silence" THEN Nothing ELSE NormalizedKey(raw)
      /\ ~m.optional => ParsedFact(m, raw).required = TRUE
  BY DEF ParsedFact, Fact
<1>2. NormalizedKey(raw) # Nothing
  BY DEF NormalizedKey, RawFacts
<1>3. raw.kind = "silence" => RawText(raw) = {"no official source discloses"}
  BY DEF RawText
<1>4. "no official source discloses" \in GapWords
  BY DEF GapWords
<1> DEFINE f == ParsedFact(m, raw)
<1> HIDE DEF f
<1>5. f.answer = Nothing => GapReport(f)
  <2>1. f.answer = Nothing => f.text = {"no official source discloses"}
    BY <1>1, <1>2, <1>3 DEF f
  <2> QED BY <1>4, <2>1 DEF GapReport, Silent
<1> QED BY <1>1, <1>5 DEF f
LEMMA HeuristicFactFields ==
    ASSUME NEW m, NEW key, NEW type
    PROVE  /\ HeuristicFact(m, key, type).key = key /\ HeuristicFact(m, key, type).answer = key
           /\ HeuristicFact(m, key, type).required = TRUE
BY DEF HeuristicFact, Fact

\* What the facts of a plan that no template made are like.
NovelFacts(m, facts) ==
  /\ DOMAIN facts = 1..Len(facts) /\ Len(facts) \in minimum_fact_count(m)..MaxFacts
  /\ \A i \in 1..Len(facts) : /\ facts[i].answer = Nothing => GapReport(facts[i])
                              /\ ~m.optional => facts[i].required = TRUE
  /\ \A i, j \in 1..Len(facts) : facts[i].key = facts[j].key => i = j

LEMMA ParsedFacts ==
    ASSUME NEW m, IsMessage(m), NEW reply \in Seq(RawFacts), AcceptableReply(m, reply)
    PROVE  NovelFacts(m, ParseIntent(m, reply).facts)
<1> DEFINE kept == KeptFacts(reply)
           facts == [i \in 1..Len(kept) |-> ParsedFact(m, kept[i])]
<1>1. ParseIntent(m, reply).facts = facts
  BY DEF ParseIntent, Intent
<1>2. kept \in Seq(RawFacts)
  BY KeptFactsType
<1>3. /\ Len(kept) \in minimum_fact_count(m)..maximum_fact_count(m)
      /\ \A i, j \in 1..Len(kept) : NormalizedKey(kept[i]) = NormalizedKey(kept[j]) => i = j
  BY Zenon DEF AcceptableReply
<1> HIDE DEF kept
<1>4. Len(kept) \in Nat /\ \A i \in 1..Len(kept) : kept[i] \in RawFacts
  BY <1>2
<1>5. DOMAIN facts = 1..Len(facts) /\ Len(facts) = Len(kept)
  BY <1>4
<1>6. \A i \in 1..Len(kept) : /\ facts[i].key = NormalizedKey(kept[i])
                              /\ facts[i].answer = Nothing => GapReport(facts[i])
                              /\ ~m.optional => facts[i].required = TRUE
  BY <1>4, ParsedFactFields
<1>7. Len(kept) \in minimum_fact_count(m)..MaxFacts
  BY <1>3, <1>4, FloorBounds DEF MaxFacts
<1> HIDE DEF facts
<1>8. NovelFacts(m, facts)
  BY <1>3, <1>4, <1>5, <1>6, <1>7 DEF NovelFacts
<1> QED BY <1>1, <1>8, Zenon

\* The names of the padding.
LEMMA RequestedFacts ==
    /\ \A i \in 1..8 : RequestedFact[i] \notin FactType /\ RequestedFact[i] # Nothing
    /\ \A i, j \in 1..8 : RequestedFact[i] = RequestedFact[j] => i = j
BY DEF RequestedFact, FactType, Nothing

\* The members of a list that is made of two.
LEMMA ConcatAt ==
    ASSUME NEW a, NEW b, NEW m \in Nat, NEW n \in Nat,
           a = [i \in 1..m |-> a[i]], b = [i \in 1..n |-> b[i]]
    PROVE  /\ Len(a \o b) = m + n /\ DOMAIN (a \o b) = 1..(m + n)
           /\ (a \o b) = [i \in 1..(m + n) |-> (a \o b)[i]]
           /\ \A i \in 1..(m + n) : (a \o b)[i] = IF i <= m THEN a[i] ELSE b[i - m]
<1> DEFINE S == {a[i] : i \in 1..m} \cup {b[i] : i \in 1..n}
<1>1. a \in [1..m -> S] /\ b \in [1..n -> S]
  BY Zenon
<1> HIDE DEF S
<1>2. a \in Seq(S) /\ b \in Seq(S) /\ Len(a) = m /\ Len(b) = n
  BY <1>1
<1> QED BY <1>2

LEMMA HeuristicFacts ==
    ASSUME NEW m, IsMessage(m)
    PROVE  NovelFacts(m, HeuristicIntent(m).facts)
<1> DEFINE known == IF m.types = {} THEN {"background"} ELSE m.types
           rank == [t \in known |-> TypeRank(t)]
           types == Sorted(rank)
           missing == minimum_fact_count(m) - Len(types)
           pad == IF missing > 0 THEN missing ELSE 0
           named == [i \in 1..Len(types) |-> HeuristicFact(m, types[i], types[i])]
           padding == [i \in 1..pad |-> HeuristicFact(m, RequestedFact[Len(types) + i], "background")]
           N == Cardinality(known)
<1>1. known \in SUBSET FactType /\ known # {}
  BY DEF IsMessage, FactType
<1>2. IsFiniteSet(known) /\ N \in 1..7
  <2> HIDE DEF known
  <2>1. IsFiniteSet(known) /\ N \in 0..7
    BY <1>1, FactTypes
  <2>2. N # 0
    BY <1>1, <2>1, FS_EmptySet, Zenon
  <2> QED BY <2>1, <2>2
<1>3. types \in [1..N -> known] /\ \A i, j \in 1..N : types[i] = types[j] => i = j
  <2>1. rank \in [known -> Int] /\ \A x, y \in known : rank[x] = rank[y] => x = y
    BY <1>1, TypeRanks
  <2> HIDE DEF known, rank
  <2> QED BY <1>2, <2>1, SortedLists
<1>4. Len(types) = N
  <2> HIDE DEF types, N
  <2> QED BY <1>2, <1>3
<1>5. HeuristicIntent(m).facts = named \o padding
  <2>1. HeuristicIntent(m) = Intent(m.entity, named \o padding)
    BY Zenon DEF HeuristicIntent
  <2> HIDE DEF named, padding
  <2> QED BY <2>1 DEF Intent
<1>6. minimum_fact_count(m) \in 1..8
  BY FloorBounds DEF MaxFacts
<1> HIDE DEF N, known, rank, types
<1>7. pad \in Nat /\ N + pad \in minimum_fact_count(m)..8
  BY <1>2, <1>4, <1>6
<1> HIDE DEF pad
<1> DEFINE facts == named \o padding
           key(i) == IF i <= N THEN types[i] ELSE RequestedFact[i]
<1>8. Len(named) = N /\ DOMAIN named = 1..N /\ Len(padding) = pad /\ DOMAIN padding = 1..pad
  BY <1>2, <1>4, <1>7
<1>9. Len(facts) = N + pad /\ DOMAIN facts = 1..(N + pad)
  <2>1. named = [i \in 1..N |-> named[i]] /\ padding = [i \in 1..pad |-> padding[i]]
    BY <1>4
  <2> HIDE DEF named, padding
  <2> QED BY <1>2, <1>7, <2>1, ConcatAt
<1>10. ASSUME NEW i \in 1..(N + pad)
       PROVE  \E type : facts[i] = HeuristicFact(m, key(i), type)
  <2>1. facts[i] = IF i <= N THEN named[i] ELSE padding[i - N]
    <3>1. named = [j \in 1..N |-> named[j]] /\ padding = [j \in 1..pad |-> padding[j]]
      BY <1>4
    <3> HIDE DEF named, padding
    <3> QED BY <1>2, <1>7, <1>10, <3>1, ConcatAt
  <2>2. CASE i <= N
    BY <1>2, <1>4, <1>7, <2>1, <2>2
  <2>3. CASE ~(i <= N)
    <3>1. i - N \in 1..pad /\ N + (i - N) = i
      BY <1>2, <1>7, <2>3
    <3>2. padding[i - N] = HeuristicFact(m, RequestedFact[i], "background")
      BY <1>4, <3>1
    <3> HIDE DEF padding
    <3> QED BY <2>1, <2>3, <3>2
  <2> QED BY <2>2, <2>3
<1>11. \A i \in 1..(N + pad) : facts[i].key = key(i) /\ facts[i].answer = key(i) /\ facts[i].required = TRUE
  <2> HIDE DEF facts, key
  <2>1. SUFFICES ASSUME NEW i \in 1..(N + pad)
                 PROVE  facts[i].key = key(i) /\ facts[i].answer = key(i) /\ facts[i].required = TRUE
    BY Zenon
  <2>2. PICK type : facts[i] = HeuristicFact(m, key(i), type)
    BY <1>10, Zenon
  <2>3. /\ HeuristicFact(m, key(i), type).key = key(i) /\ HeuristicFact(m, key(i), type).answer = key(i)
        /\ HeuristicFact(m, key(i), type).required = TRUE
    BY HeuristicFactFields, Zenon
  <2> QED BY <2>2, <2>3, Zenon
<1>12. \A i \in 1..(N + pad) : key(i) # Nothing
  <2>1. Nothing \notin FactType
    BY DEF FactType, Nothing
  <2>2. \A i \in 1..N : types[i] \in FactType
    BY <1>1, <1>3
  <2> QED BY <1>2, <1>7, <2>1, <2>2, RequestedFacts
<1>13. \A i, j \in 1..(N + pad) : key(i) = key(j) => i = j
  BY <1>1, <1>2, <1>3, <1>7, RequestedFacts
<1>14. NovelFacts(m, facts)
  <2> HIDE DEF facts, key
  <2> QED BY <1>7, <1>9, <1>11, <1>12, <1>13 DEF NovelFacts, MaxFacts
<1> QED BY <1>5, <1>14, Zenon

-----------------------------------------------------------------------------------
(* The reviewed templates.                                                          *)

\* A fact that no excerpt can state reports a gap. A fact about Apex names no number
\* and no terms, and when it can be answered it names the page that must be recent,
\* whichever rule would find that page.
GoodFact(entity, f) ==
  /\ f.answer = Nothing => GapReport(f)
  /\ entity = "apex legends" =>
       /\ "number" \notin f.text /\ "listed terms" \notin f.text
       /\ \/ Silent(f)
          \/ /\ "patch" \in f.text \/ f.fact_type = "patch_notes" => "midseason" \in f.text
             /\ f.fact_type = "character_changes" => "breach" \in f.text
             /\ "community" \in f.text \/ f.fact_type = "team_meta" => "live table" \in f.text
             /\ f.fact_type \notin {"background", "comparison"}
GoodIntent(intent) ==
  /\ DOMAIN intent.facts = 1..Len(intent.facts) /\ Len(intent.facts) \in 1..MaxFacts
  /\ \A i \in 1..Len(intent.facts) : GoodFact(intent.entity, intent.facts[i])

\* Outside Apex a fact with an answer is good.
LEMMA AnsweredFact ==
    ASSUME NEW entity, NEW f, entity # "apex legends", f.answer # Nothing
    PROVE  GoodFact(entity, f)
BY DEF GoodFact

\* A list of up to eight good facts makes a good intent.
LEMMA GoodList ==
    ASSUME NEW e, NEW s, NEW n \in 1..MaxFacts, Len(s) = n, DOMAIN s = 1..n,
           \A i \in 1..n : GoodFact(e, s[i])
    PROVE  GoodIntent(Intent(e, s))
<1> DEFINE intent == Intent(e, s)
<1>1. intent.entity = e /\ intent.facts = s
  BY DEF Intent
<1> HIDE DEF intent
<1>2. Len(intent.facts) = n /\ DOMAIN intent.facts = 1..n
  BY <1>1, Zenon
<1>3. \A i \in 1..n : GoodFact(intent.entity, intent.facts[i])
  BY <1>1, Zenon
<1>4. GoodIntent(intent)
  BY <1>2, <1>3, Zenon DEF GoodIntent
<1> QED BY <1>4 DEF intent
LEMMA GoodOne ==
    ASSUME NEW e, NEW a, GoodFact(e, a)
    PROVE  GoodIntent(Intent(e, <<a>>))
<1> DEFINE s == <<a>>
<1>1. Len(s) = 1 /\ DOMAIN s = 1..1 /\ (\A i \in 1..1 : GoodFact(e, s[i])) /\ 1 \in 1..MaxFacts
  BY DEF MaxFacts
<1> HIDE DEF s
<1>2. GoodIntent(Intent(e, s))
  BY <1>1, GoodList, Zenon
<1> QED BY <1>2 DEF s
LEMMA GoodTwo ==
    ASSUME NEW e, NEW a, NEW b, GoodFact(e, a), GoodFact(e, b)
    PROVE  GoodIntent(Intent(e, <<a, b>>))
<1> DEFINE s == <<a, b>>
<1>1. Len(s) = 2 /\ DOMAIN s = 1..2 /\ (\A i \in 1..2 : GoodFact(e, s[i])) /\ 2 \in 1..MaxFacts
  BY DEF MaxFacts
<1> HIDE DEF s
<1>2. GoodIntent(Intent(e, s))
  BY <1>1, GoodList, Zenon
<1> QED BY <1>2 DEF s
LEMMA GoodThree ==
    ASSUME NEW e, NEW a, NEW b, NEW c, GoodFact(e, a), GoodFact(e, b), GoodFact(e, c)
    PROVE  GoodIntent(Intent(e, <<a, b, c>>))
<1> DEFINE s == <<a, b, c>>
<1>1. Len(s) = 3 /\ DOMAIN s = 1..3 /\ (\A i \in 1..3 : GoodFact(e, s[i])) /\ 3 \in 1..MaxFacts
  BY DEF MaxFacts
<1> HIDE DEF s
<1>2. GoodIntent(Intent(e, s))
  BY <1>1, GoodList, Zenon
<1> QED BY <1>2 DEF s
LEMMA GoodFour ==
    ASSUME NEW e, NEW a, NEW b, NEW c, NEW d,
           GoodFact(e, a), GoodFact(e, b), GoodFact(e, c), GoodFact(e, d)
    PROVE  GoodIntent(Intent(e, <<a, b, c, d>>))
<1> DEFINE s == <<a, b, c, d>>
<1>1. Len(s) = 4 /\ DOMAIN s = 1..4 /\ (\A i \in 1..4 : GoodFact(e, s[i])) /\ 4 \in 1..MaxFacts
  BY DEF MaxFacts
<1> HIDE DEF s
<1>2. GoodIntent(Intent(e, s))
  BY <1>1, GoodList, Zenon
<1> QED BY <1>2 DEF s
LEMMA GoodFive ==
    ASSUME NEW e, NEW a, NEW b, NEW c, NEW d, NEW x,
           GoodFact(e, a), GoodFact(e, b), GoodFact(e, c), GoodFact(e, d), GoodFact(e, x)
    PROVE  GoodIntent(Intent(e, <<a, b, c, d, x>>))
<1> DEFINE s == <<a, b, c, d, x>>
<1>1. Len(s) = 5 /\ DOMAIN s = 1..5 /\ (\A i \in 1..5 : GoodFact(e, s[i])) /\ 5 \in 1..MaxFacts
  BY DEF MaxFacts
<1> HIDE DEF s
<1>2. GoodIntent(Intent(e, s))
  BY <1>1, GoodList, Zenon
<1> QED BY <1>2 DEF s
LEMMA GoodSix ==
    ASSUME NEW e, NEW a, NEW b, NEW c, NEW d, NEW x, NEW y,
           GoodFact(e, a), GoodFact(e, b), GoodFact(e, c), GoodFact(e, d), GoodFact(e, x), GoodFact(e, y)
    PROVE  GoodIntent(Intent(e, <<a, b, c, d, x, y>>))
<1> DEFINE s == <<a, b, c, d, x, y>>
<1>1. Len(s) = 6 /\ DOMAIN s = 1..6 /\ (\A i \in 1..6 : GoodFact(e, s[i])) /\ 6 \in 1..MaxFacts
  BY DEF MaxFacts
<1> HIDE DEF s
<1>2. GoodIntent(Intent(e, s))
  BY <1>1, GoodList, Zenon
<1> QED BY <1>2 DEF s

\* The kinds of facts that templates are made of.
LEMMA FactGood ==
    ASSUME NEW e, NEW key, NEW type, NEW fresh, NEW sources, NEW text, NEW statement,
           e # "apex legends", statement # Nothing
    PROVE  GoodFact(e, Fact(key, type, fresh, sources, text, statement))
<1> DEFINE f == Fact(key, type, fresh, sources, text, statement)
<1>1. f.answer = statement
  BY DEF Fact
<1> HIDE DEF f
<1>2. GoodFact(e, f)
  BY <1>1, AnsweredFact, Zenon
<1> QED BY <1>2 DEF f
LEMMA StableGood ==
    ASSUME NEW e, NEW key, NEW text, NEW statement, e # "apex legends", statement # Nothing
    PROVE  GoodFact(e, Stable(key, text, statement))
BY FactGood, Zenon DEF Stable
LEMMA KeyedGood ==
    ASSUME NEW e, NEW key, NEW text, e # "apex legends", key # Nothing
    PROVE  /\ GoodFact(e, Current(key, text)) /\ GoodFact(e, Release(key, text))
           /\ GoodFact(e, Independent(key, text))
BY FactGood, Zenon DEF Current, Release, Independent
LEMMA GapGood ==
    ASSUME NEW e, NEW key, NEW type, NEW sources, NEW text \in SUBSET GapWords
    PROVE  GoodFact(e, Gap(key, type, sources, text))
<1> DEFINE f == Gap(key, type, sources, text)
<1>1. f.text = text \cup {"evidence_gap"}
  BY DEF Gap, Fact
<1> HIDE DEF f
<1>2. GoodFact(e, f)
  BY <1>1 DEF GoodFact, GapReport, Silent, GapWords
<1> QED BY <1>2 DEF f
LEMMA DisclosureGood ==
    ASSUME NEW e, NEW key
    PROVE  GoodFact(e, Disclosure(key))
<1> DEFINE f == Disclosure(key)
<1>1. f.text = {"private", "no official source discloses"}
  BY DEF Disclosure, Fact
<1> HIDE DEF f
<1>2. GoodFact(e, f)
  BY <1>1 DEF GoodFact, GapReport, Silent, GapWords
<1> QED BY <1>2 DEF f

LEMMA HttpGood == ASSUME NEW g \in DOMAIN HttpTemplates PROVE GoodIntent(HttpTemplates[g])
<1>1. GoodIntent(HttpTemplates.http_created)
  BY StableGood, GoodFour DEF HttpTemplates, Nothing
<1>2. GoodIntent(HttpTemplates.http_get)
  BY StableGood, GoodTwo DEF HttpTemplates, Nothing
<1>3. GoodIntent(HttpTemplates.http_404)
  BY FactGood, GoodOne DEF HttpTemplates, Nothing
<1>4. GoodIntent(HttpTemplates.python_origin)
  BY StableGood, GoodTwo DEF HttpTemplates, Nothing
<1> QED BY <1>1, <1>2, <1>3, <1>4, Zenon DEF HttpTemplates

LEMMA RegistryGood == ASSUME NEW g \in DOMAIN RegistryTemplates PROVE GoodIntent(RegistryTemplates[g])
<1>1. GoodIntent(RegistryTemplates.json_literals)
  BY StableGood, GoodThree DEF RegistryTemplates, Nothing
<1>2. GoodIntent(RegistryTemplates.json_media)
  BY StableGood, GoodOne DEF RegistryTemplates, Nothing
<1>3. GoodIntent(RegistryTemplates.sha_256)
  BY StableGood, GoodOne DEF RegistryTemplates, Nothing
<1>4. GoodIntent(RegistryTemplates.dns_port)
  BY StableGood, GoodThree DEF RegistryTemplates, Nothing
<1>5. GoodIntent(RegistryTemplates.tls_rfc)
  BY StableGood, GoodOne DEF RegistryTemplates, Nothing
<1> QED BY <1>1, <1>2, <1>3, <1>4, <1>5, Zenon DEF RegistryTemplates

LEMMA GitGood == ASSUME NEW g \in DOMAIN GitTemplates PROVE GoodIntent(GitTemplates[g])
<1>1. GoodIntent(GitTemplates.git_objects)
  BY StableGood, GoodFive DEF GitTemplates, Nothing
<1>2. GoodIntent(GitTemplates.git_states)
  BY StableGood, GoodThree DEF GitTemplates, Nothing
<1> QED BY <1>1, <1>2, Zenon DEF GitTemplates

LEMMA ConceptGood == ASSUME NEW g \in DOMAIN ConceptTemplates PROVE GoodIntent(ConceptTemplates[g])
<1>1. GoodIntent(ConceptTemplates.acid)
  BY KeyedGood, GoodFour DEF ConceptTemplates, Nothing
<1>2. GoodIntent(ConceptTemplates.sqlite)
  BY StableGood, GoodTwo DEF ConceptTemplates, Nothing
<1>3. GoodIntent(ConceptTemplates.cap)
  BY KeyedGood, GoodFour DEF ConceptTemplates, Nothing
<1>4. GoodIntent(ConceptTemplates.rfc_3339)
  BY StableGood, GoodThree DEF ConceptTemplates, Nothing
<1>5. GoodIntent(ConceptTemplates.postgresql_isolation)
  <2> DEFINE level == <<"read uncommitted", "read committed", "repeatable read", "serializable">>
             s == [i \in 1..4 |-> Fact(level[i], "comparison", "STABLE", "official",
                                      {"postgresql", "isolation", level[i]}, level[i])]
  <2>1. \A i \in 1..4 : level[i] # Nothing
    <3>1. level[1] # Nothing /\ level[2] # Nothing /\ level[3] # Nothing /\ level[4] # Nothing
      BY DEF Nothing
    <3> HIDE DEF level
    <3>2. \A i \in 1..4 : i = 1 \/ i = 2 \/ i = 3 \/ i = 4
      OBVIOUS
    <3> QED BY <3>1, <3>2
  <2>2. ConceptTemplates.postgresql_isolation = Intent("postgresql", s)
    BY Zenon DEF ConceptTemplates
  <2> HIDE DEF level
  <2>3. Len(s) = 4 /\ DOMAIN s = 1..4 /\ 4 \in 1..MaxFacts
    BY DEF MaxFacts
  <2>4. \A i \in 1..4 : GoodFact("postgresql", s[i])
    BY <2>1, FactGood
  <2> HIDE DEF s
  <2> QED BY <2>2, <2>3, <2>4, GoodList, Zenon
<1> QED BY <1>1, <1>2, <1>3, <1>4, <1>5, Zenon DEF ConceptTemplates

LEMMA ReleaseGood == ASSUME NEW g \in DOMAIN ReleaseTemplates PROVE GoodIntent(ReleaseTemplates[g])
<1>1. GoodIntent(ReleaseTemplates.python_latest)
  BY KeyedGood, GoodOne DEF ReleaseTemplates, Nothing
<1>2. GoodIntent(ReleaseTemplates.rust_latest)
  BY KeyedGood, GoodOne DEF ReleaseTemplates, Nothing
<1>3. GoodIntent(ReleaseTemplates.node_lts)
  BY KeyedGood, GoodOne DEF ReleaseTemplates, Nothing
<1>4. GoodIntent(ReleaseTemplates.git_latest)
  BY KeyedGood, GoodOne DEF ReleaseTemplates, Nothing
<1>5. GoodIntent(ReleaseTemplates.postgresql_major)
  <2> DEFINE f == [Release("postgresql_major", {"postgresql", "supported"}) EXCEPT !.answer = "whole table"]
  <2>1. f.answer # Nothing
    BY DEF Release, Fact, Nothing
  <2>2. ReleaseTemplates.postgresql_major = Intent("postgresql", <<f>>)
    BY Zenon DEF ReleaseTemplates
  <2> HIDE DEF f
  <2>3. GoodFact("postgresql", f)
    BY <2>1, AnsweredFact
  <2> QED BY <2>2, <2>3, GoodOne, Zenon
<1>6. ASSUME NEW key, NEW marker, key # Nothing PROVE GoodFact("deepseek", Price(key, marker))
  BY <1>6, KeyedGood DEF Price
<1>7. GoodIntent(ReleaseTemplates.deepseek_prices)
  BY <1>6, GoodSix DEF ReleaseTemplates, Nothing
<1>8. GoodIntent(ReleaseTemplates.deepseek_price)
  BY <1>6, GoodOne DEF ReleaseTemplates, Nothing
<1> QED BY <1>1, <1>2, <1>3, <1>4, <1>5, <1>7, <1>8, Zenon DEF ReleaseTemplates

LEMMA GapsGood == ASSUME NEW g \in DOMAIN GapTemplates PROVE GoodIntent(GapTemplates[g])
<1>1. GoodIntent(GapTemplates.apex_private)
  BY DisclosureGood, GoodThree DEF GapTemplates
<1>2. GoodIntent(GapTemplates.apex_private_mmr)
  BY DisclosureGood, GoodOne DEF GapTemplates
<1>3. GoodIntent(GapTemplates.deepseek_unreleased)
  BY GapGood, GoodOne DEF GapTemplates, GapWords
<1>4. GoodIntent(GapTemplates.openai_weights)
  BY GapGood, GoodTwo DEF GapTemplates, GapWords
<1>5. GoodIntent(GapTemplates.postgresql_unannounced)
  BY GapGood, GoodOne DEF GapTemplates, GapWords
<1> QED BY <1>1, <1>2, <1>3, <1>4, <1>5, Zenon DEF GapTemplates

LEMMA UniversalGood == ASSUME NEW g \in DOMAIN UniversalTemplates PROVE GoodIntent(UniversalTemplates[g])
<1>1. GoodIntent(UniversalTemplates.postgresql_global)
  BY GapGood, GoodTwo DEF UniversalTemplates, GapWords
<1>2. GoodIntent(UniversalTemplates.apex_universal)
  BY GapGood, GoodThree DEF UniversalTemplates, GapWords
<1> QED BY <1>1, <1>2, Zenon DEF UniversalTemplates

\* The words of an answerable fact about Apex.
LEMMA ApexFact ==
    ASSUME NEW f, f.answer # Nothing, "number" \notin f.text, "listed terms" \notin f.text,
           f.fact_type \notin {"background", "comparison"},
           "patch" \in f.text \/ f.fact_type = "patch_notes" => "midseason" \in f.text,
           f.fact_type = "character_changes" => "breach" \in f.text,
           "community" \in f.text \/ f.fact_type = "team_meta" => "live table" \in f.text
    PROVE  GoodFact("apex legends", f)
BY Zenon DEF GoodFact
LEMMA ApexFactGood ==
    ASSUME NEW key, NEW type, NEW fresh, NEW sources, NEW text, NEW statement,
           statement # Nothing, "number" \notin text, "listed terms" \notin text,
           type \notin {"background", "comparison"},
           "patch" \in text \/ type = "patch_notes" => "midseason" \in text,
           type = "character_changes" => "breach" \in text,
           "community" \in text \/ type = "team_meta" => "live table" \in text
    PROVE  GoodFact("apex legends", Fact(key, type, fresh, sources, text, statement))
<1> DEFINE f == Fact(key, type, fresh, sources, text, statement)
<1>1. f.answer = statement /\ f.text = text /\ f.fact_type = type
  BY DEF Fact
<1> HIDE DEF f
<1>2. GoodFact("apex legends", f)
  BY <1>1, ApexFact, Zenon
<1> QED BY <1>2 DEF f
LEMMA LiveGood ==
    ASSUME NEW key, key \notin {Nothing, "number", "listed terms", "patch"}
    PROVE  GoodFact("apex legends", Live(key))
BY ApexFactGood DEF Live

LEMMA ApexGood == ASSUME NEW g \in DOMAIN ApexTemplates PROVE GoodIntent(ApexTemplates[g])
<1>1. GoodIntent(ApexTemplates.postgresql_rows)
  <2> DEFINE s == [i \in 1..5 |-> Current(Row(i), {"postgresql", "supported", "number", Row(i)})]
  <2>1. Row(1) # Nothing /\ Row(2) # Nothing /\ Row(3) # Nothing /\ Row(4) # Nothing /\ Row(5) # Nothing
    BY DEF Row, Nothing
  <2>2. \A i \in 1..5 : i = 1 \/ i = 2 \/ i = 3 \/ i = 4 \/ i = 5
    OBVIOUS
  <2>3. \A i \in 1..5 : Row(i) # Nothing
    BY <2>1, <2>2, Zenon
  <2>4. ApexTemplates.postgresql_rows = Intent("postgresql", s)
    BY Zenon DEF ApexTemplates
  <2>5. Len(s) = 5 /\ DOMAIN s = 1..5 /\ 5 \in 1..MaxFacts
    BY DEF MaxFacts
  <2>6. \A i \in 1..5 : GoodFact("postgresql", s[i])
    BY <2>3, KeyedGood
  <2> HIDE DEF s
  <2> QED BY <2>4, <2>5, <2>6, GoodList, Zenon
<1>2. GoodIntent(ApexTemplates.apex_maps)
  <2> DEFINE a == Current("current_map_rotation", {"midseason", "patch", "current_map_rotation"})
             b == Fact("ranked_rules_changes", "patch_notes", "RECENT", "official",
                       {"midseason", "patch", "ranked_rules_changes"}, "ranked_rules_changes")
             c == Live("community_team_composition_frequency")
             d == Live("community_team_composition_performance")
  <2>1. GoodFact("apex legends", a)
    BY ApexFactGood DEF Current, Nothing
  <2>2. GoodFact("apex legends", b)
    BY ApexFactGood DEF Nothing
  <2>3. GoodFact("apex legends", c) /\ GoodFact("apex legends", d)
    BY LiveGood DEF Nothing
  <2>4. ApexTemplates.apex_maps = Intent("apex legends", <<a, b, c, d>>)
    BY Zenon DEF ApexTemplates
  <2> HIDE DEF a, b, c, d
  <2> QED BY <2>1, <2>2, <2>3, <2>4, GoodFour, Zenon
<1>3. GoodIntent(ApexTemplates.apex_bloodhound)
  <2> DEFINE a == Release("current_release", {"midseason", "patch", "current_release"})
             b == Fact("bloodhound_tactical_changes", "character_changes", "RECENT", "official",
                       {"breach", "bloodhound_tactical_changes"}, "bloodhound_tactical_changes")
             c == Fact("bloodhound_ultimate_changes", "character_changes", "RECENT", "official",
                       {"breach", "bloodhound_ultimate_changes"}, "bloodhound_ultimate_changes")
             d == Live("community_bloodhound_meta")
  <2>1. GoodFact("apex legends", a)
    BY ApexFactGood DEF Release, Nothing
  <2>2. GoodFact("apex legends", b)
    BY ApexFactGood DEF Nothing
  <2>3. GoodFact("apex legends", c)
    BY ApexFactGood DEF Nothing
  <2>4. GoodFact("apex legends", d)
    BY LiveGood DEF Nothing
  <2>5. ApexTemplates.apex_bloodhound = Intent("apex legends", <<a, b, c, d>>)
    BY Zenon DEF ApexTemplates
  <2> HIDE DEF a, b, c, d
  <2> QED BY <2>1, <2>2, <2>3, <2>4, <2>5, GoodFour, Zenon
<1>4. GoodIntent(ApexTemplates.apex_season)
  <2> DEFINE f == [Release("current_season", {"midseason", "patch", "current_release"})
                     EXCEPT !.answer = "current_release"]
  <2>1. f.answer = "current_release" /\ f.text = {"midseason", "patch", "current_release"}
        /\ f.fact_type = "version"
    BY DEF Release, Fact
  <2>2. ApexTemplates.apex_season = Intent("apex legends", <<f>>)
    BY Zenon DEF ApexTemplates
  <2> HIDE DEF f
  <2>3. GoodFact("apex legends", f)
    BY <2>1, ApexFact DEF Nothing
  <2> QED BY <2>2, <2>3, GoodOne, Zenon
<1> QED BY <1>1, <1>2, <1>3, <1>4, Zenon DEF ApexTemplates

\* Every reviewed template is a good intent.
LEMMA TemplateGood ==
    ASSUME NEW family \in ToSet(Families)
    PROVE  GoodIntent(TemplateOf(family))
<1>1. ToSet(Families) \subseteq
        UNION {DOMAIN GapTemplates, DOMAIN UniversalTemplates, DOMAIN ApexTemplates, DOMAIN ReleaseTemplates,
               DOMAIN HttpTemplates, DOMAIN RegistryTemplates, DOMAIN GitTemplates, DOMAIN ConceptTemplates}
  BY DEF ToSet, Families, GapTemplates, UniversalTemplates, ApexTemplates, ReleaseTemplates,
         HttpTemplates, RegistryTemplates, GitTemplates, ConceptTemplates
<1> QED BY <1>1, GapsGood, UniversalGood, ApexGood, ReleaseGood, HttpGood, RegistryGood, GitGood,
           ConceptGood, Zenon DEF TemplateOf

-----------------------------------------------------------------------------------
(* What the planners make, and the queries compiled from it.                        *)

\* The first family that a message matches.
LEMMA FirstFamily ==
    ASSUME NEW matches \in SUBSET ToSet(Families), matches # {}
    PROVE  GoodIntent(ReviewedTemplate(matches))
<1> DEFINE I == {i \in 1..Len(Families) : Families[i] \in matches}
           P(i) == Families[i] \in matches /\ \A j \in 1..(i - 1) : Families[j] \notin matches
           first == CHOOSE i \in 1..Len(Families) : P(i)
<1>1. Len(Families) = 34 /\ DOMAIN Families = 1..34
  BY DEF Families
<1>2. I # {} /\ I \in SUBSET Nat
  BY <1>1 DEF ToSet
<1>3. Min(I) \in I /\ \A y \in I : Min(I) <= y
  <2> HIDE DEF I
  <2> QED BY <1>2, LeastOf
<1>4. Min(I) \in 1..Len(Families) /\ P(Min(I))
  <2> DEFINE n == Min(I)
  <2>0. Len(Families) \in Nat
    BY <1>1
  <2>1. n \in 1..Len(Families) /\ Families[n] \in matches /\ Len(Families) \in Nat
    BY <1>3, <2>0, Zenon
  <2>2. \A y \in 1..Len(Families) : Families[y] \in matches => n <= y
    BY <1>3
  <2> HIDE DEF n
  <2>3. P(n)
    BY <2>1, <2>2
  <2> QED BY <2>1, <2>3 DEF n
<1>5. first \in 1..Len(Families)
  <2> HIDE DEF P, I
  <2> QED BY <1>4, Zenon
<1>6. ReviewedTemplate(matches) = TemplateOf(Families[first])
  BY Zenon DEF ReviewedTemplate
<1>7. Families[first] \in ToSet(Families)
  <2> HIDE DEF first
  <2> QED BY <1>1, <1>5 DEF ToSet
<1> QED BY <1>6, <1>7, TemplateGood, Zenon

PlanOf(m, p) ==
  /\ p.strategy \in {"reviewed_template", "model", "heuristic"}
  /\ p.strategy = "reviewed_template" => GoodIntent(p.intent)
  /\ p.strategy # "reviewed_template" => NovelFacts(m, p.intent.facts)
\* Whichever planner made it.
LEMMA PlansType ==
    ASSUME NEW m, IsMessage(m), NEW max, NEW p \in Plans(m, Replies, max)
    PROVE  PlanOf(m, p)
<1>1. CASE m.matches # {}
  <2>1. p = PlanBy("reviewed_template", ReviewedTemplate(m.matches), 0)
    BY <1>1 DEF Plans
  <2>2. GoodIntent(ReviewedTemplate(m.matches))
    BY <1>1, FirstFamily, Zenon DEF IsMessage
  <2>3. p.strategy = "reviewed_template" /\ p.intent = ReviewedTemplate(m.matches)
    BY <2>1 DEF PlanBy
  <2> QED BY <2>2, <2>3 DEF PlanOf
<1>2. CASE m.matches = {}
  <2>1. \/ \E r \in Replies : \E c : AcceptableReply(m, r) /\ p = PlanBy("model", ParseIntent(m, r), c)
        \/ \E c : p = PlanBy("heuristic", HeuristicIntent(m), c)
    BY <1>2 DEF Plans
  <2>2. ASSUME NEW r \in Replies, NEW c, AcceptableReply(m, r), p = PlanBy("model", ParseIntent(m, r), c)
        PROVE  PlanOf(m, p)
    <3>1. NovelFacts(m, ParseIntent(m, r).facts)
      BY <2>2, ReplyAssumption, ParsedFacts, Zenon
    <3>2. p.strategy = "model" /\ p.intent = ParseIntent(m, r)
      BY <2>2 DEF PlanBy
    <3> QED BY <3>1, <3>2 DEF PlanOf
  <2>3. ASSUME NEW c, p = PlanBy("heuristic", HeuristicIntent(m), c) PROVE PlanOf(m, p)
    <3>1. NovelFacts(m, HeuristicIntent(m).facts)
      BY HeuristicFacts, Zenon
    <3>2. p.strategy = "heuristic" /\ p.intent = HeuristicIntent(m)
      BY <2>3 DEF PlanBy
    <3> QED BY <3>1, <3>2 DEF PlanOf
  <2> QED BY <2>1, <2>2, <2>3, Zenon
<1> QED BY <1>1, <1>2

\* A plan has between one and eight facts.
LEMMA PlanLength ==
    ASSUME NEW m, IsMessage(m), NEW p, PlanOf(m, p)
    PROVE  DOMAIN p.intent.facts = 1..Len(p.intent.facts) /\ Len(p.intent.facts) \in 1..MaxFacts
<1>1. CASE p.strategy = "reviewed_template"
  BY <1>1, Zenon DEF PlanOf, GoodIntent
<1>2. CASE p.strategy # "reviewed_template"
  <2>1. NovelFacts(m, p.intent.facts)
    BY <1>2, Zenon DEF PlanOf
  <2>2. /\ DOMAIN p.intent.facts = 1..Len(p.intent.facts)
        /\ Len(p.intent.facts) \in minimum_fact_count(m)..MaxFacts
    BY <2>1, Zenon DEF NovelFacts
  <2> DEFINE n == Len(p.intent.facts)
  <2>3. n \in 1..MaxFacts
    <3>1. n \in minimum_fact_count(m)..MaxFacts
      BY <2>2
    <3> HIDE DEF n
    <3> QED BY <3>1, FloorBounds DEF MaxFacts
  <2> QED BY <2>2, <2>3
<1> QED BY <1>1, <1>2

LEMMA PrefixType ==
    ASSUME NEW S, NEW s \in Seq(S), NEW k \in 1..Len(s)
    PROVE  SubSeq(s, 1, k) \in Seq(S) /\ Len(SubSeq(s, 1, k)) = k
<1>1. Len(s) \in Nat /\ k \in Nat /\ 1 <= k
  OBVIOUS
<1>2. \A i \in 1..k : i \in 1..Len(s)
  BY <1>1
<1>3. \A i \in 1..k : s[i] \in S
  BY <1>2
<1>4. /\ SubSeq(s, 1, k) \in Seq(S)
      /\ Len(SubSeq(s, 1, k)) = IF 1 <= k THEN k - 1 + 1 ELSE 0
  BY <1>1, <1>3, SubSeqProperties
<1> QED BY <1>1, <1>4
\* The queries of a plan: at least one, at most eight, each for a fact of the plan.
LEMMA CompileType ==
    ASSUME NEW p, NEW mode, Len(p.intent.facts) \in 1..MaxFacts
    PROVE  /\ Compile(p, mode) \in Seq({Compile(p, mode)[q] : q \in 1..Len(Compile(p, mode))})
           /\ Len(Compile(p, mode)) \in 1..QueryLimit("RESEARCH")
           /\ \A q \in 1..Len(Compile(p, mode)) :
                /\ Compile(p, mode)[q].fact \in 1..Len(p.intent.facts)
                /\ Compile(p, mode)[q].urls
                     = urls_for_fact(p.intent.entity, p.intent.facts[Compile(p, mode)[q].fact])
<1> DEFINE n == Len(p.intent.facts)
           long == n * VariantsPerFact(mode)
           turns == Turns(n, mode)
           short == Take(turns, QueryLimit(mode))
           query(q) == [fact |-> short[q], urls |-> urls_for_fact(p.intent.entity, p.intent.facts[short[q]]),
                        providers |-> IF p.strategy = "reviewed_template"
                                         /\ urls_for_fact(p.intent.entity, p.intent.facts[short[q]]) # <<>>
                                      THEN {"direct"} ELSE {"direct", "web"}]
           queries_ == Compile(p, mode)
<1>1. queries_ = [q \in 1..Len(short) |-> query(q)]
  BY Zenon DEF Compile
<1>2. n \in 1..8
  BY DEF MaxFacts
<1> HIDE DEF n
<1>3. long \in Nat /\ long >= 1
  <2>1. VariantsPerFact(mode) = 1 \/ VariantsPerFact(mode) = 3
    BY DEF VariantsPerFact
  <2> QED BY <1>2, <2>1
<1>4. turns \in Seq(1..n) /\ Len(turns) = long
  <2>1. ASSUME NEW i \in 1..long PROVE ((i - 1) % n) + 1 \in 1..n
    BY <1>2, <1>3
  <2>2. turns = [i \in 1..long |-> ((i - 1) % n) + 1]
    BY Zenon DEF Turns
  <2> HIDE DEF long, turns
  <2> QED BY <1>3, <2>1, <2>2
<1> HIDE DEF turns, long
<1>5. QueryLimit(mode) \in 1..8 /\ QueryLimit("RESEARCH") = 8
  BY DEF QueryLimit
<1>6. short \in Seq(1..n) /\ Len(short) \in 1..8
  <2> DEFINE k == IF Len(turns) < QueryLimit(mode) THEN Len(turns) ELSE QueryLimit(mode)
  <2>1. k \in 1..8 /\ k <= Len(turns)
    BY <1>3, <1>4, <1>5
  <2>2. short = SubSeq(turns, 1, k)
    BY Zenon DEF Take
  <2> HIDE DEF k, short
  <2>3. k \in 1..Len(turns)
    BY <1>3, <1>4, <2>1
  <2>4. SubSeq(turns, 1, k) \in Seq(1..n) /\ Len(SubSeq(turns, 1, k)) = k
    BY <1>4, <2>3, PrefixType, Zenon
  <2> QED BY <2>1, <2>2, <2>4
<1> HIDE DEF short
<1>7. DOMAIN queries_ = 1..Len(short) /\ Len(queries_) = Len(short)
  <2> HIDE DEF query, queries_
  <2> QED BY <1>1, <1>6
<1>8. ASSUME NEW q \in 1..Len(short)
      PROVE  /\ queries_[q].fact \in 1..n
             /\ queries_[q].urls = urls_for_fact(p.intent.entity, p.intent.facts[queries_[q].fact])
  <2>1. queries_[q] = query(q)
    BY <1>1, <1>8, Zenon
  <2>2. query(q).fact = short[q] /\ query(q).urls = urls_for_fact(p.intent.entity, p.intent.facts[short[q]])
    OBVIOUS
  <2>3. short[q] \in 1..n
    BY <1>6, <1>8, ElementOfSeq, Zenon
  <2> HIDE DEF query, queries_
  <2>4. queries_[q].fact = short[q]
    BY <2>1, <2>2, Zenon
  <2>5. queries_[q].urls = urls_for_fact(p.intent.entity, p.intent.facts[queries_[q].fact])
    BY <2>1, <2>2, <2>4, Zenon
  <2> QED BY <2>3, <2>4, <2>5
<1>9. queries_ \in Seq({queries_[q] : q \in 1..Len(queries_)})
  <2> DEFINE S == {queries_[q] : q \in 1..Len(short)}
  <2>1. queries_ \in [1..Len(short) -> S]
    <3> HIDE DEF query
    <3> QED BY <1>1, Zenon
  <2> HIDE DEF queries_, S
  <2>2. queries_ \in Seq(S)
    BY <1>6, <2>1
  <2> QED BY <1>7, <2>2, Zenon DEF S
<1> HIDE DEF queries_
<1>10. Len(queries_) \in 1..QueryLimit("RESEARCH")
  BY <1>5, <1>6, <1>7
<1>11. \A q \in 1..Len(queries_) :
         /\ queries_[q].fact \in 1..n
         /\ queries_[q].urls = urls_for_fact(p.intent.entity, p.intent.facts[queries_[q].fact])
  BY <1>7, <1>8, Zenon
<1> QED BY <1>9, <1>10, <1>11, Zenon DEF queries_, n

-----------------------------------------------------------------------------------
(* The pages listed for a fact.                                                     *)

\* The pages that are only used while they are recent.
FreshPages == {"ea/midseason", "ea/breach", "apexranked/meta"}
IsList(s) == Len(s) \in Nat /\ s = [i \in 1..Len(s) |-> s[i]]

\* Only Apex lists such a page: by the words that name it, or for the type of its facts.
Listable(e, types, terms, page) ==
  /\ page \in FreshPages => e = "apex legends"
  /\ page = "ea/midseason" => terms = {"midseason"} \/ terms = {"patch"} \/ types = {"patch_notes"}
  /\ page = "ea/breach" => terms = {"breach"} \/ types = {"character_changes"}
  /\ page = "apexranked/meta" =>
       \/ terms = {"live table"} \/ terms = {"community"}
       \/ types \subseteq {"team_meta", "background", "comparison"}
GoodRule(e, r) ==
  IsList(r.urls) /\ \A i \in 1..Len(r.urls) : Listable(e, r.types, r.terms, r.urls[i])
GoodRules(e, s) == IsList(s) /\ \A i \in 1..Len(s) : GoodRule(e, s[i])

LEMMA RulesOfOne ==
    ASSUME NEW e, NEW a, GoodRule(e, a)
    PROVE  GoodRules(e, <<a>>)
BY DEF GoodRules, IsList
LEMMA RulesOfTwo ==
    ASSUME NEW e, NEW a, NEW b, GoodRule(e, a), GoodRule(e, b)
    PROVE  GoodRules(e, <<a, b>>)
<1>1. IsList(<<a, b>>) /\ Len(<<a, b>>) = 2 /\ <<a, b>>[1] = a /\ <<a, b>>[2] = b
  BY DEF IsList
<1> QED BY <1>1 DEF GoodRules
LEMMA RulesOfThree ==
    ASSUME NEW e, NEW a, NEW b, NEW c, GoodRule(e, a), GoodRule(e, b), GoodRule(e, c)
    PROVE  GoodRules(e, <<a, b, c>>)
BY DEF GoodRules, IsList
LEMMA RulesOfFive ==
    ASSUME NEW e, NEW a, NEW b, NEW c, NEW d, NEW f,
           GoodRule(e, a), GoodRule(e, b), GoodRule(e, c), GoodRule(e, d), GoodRule(e, f)
    PROVE  GoodRules(e, <<a, b, c, d, f>>)
BY DEF GoodRules, IsList
LEMMA RulesOfSix ==
    ASSUME NEW e, NEW a, NEW b, NEW c, NEW d, NEW f, NEW g,
           GoodRule(e, a), GoodRule(e, b), GoodRule(e, c), GoodRule(e, d), GoodRule(e, f), GoodRule(e, g)
    PROVE  GoodRules(e, <<a, b, c, d, f, g>>)
BY DEF GoodRules, IsList
LEMMA NoRules == \A e : GoodRules(e, <<>>)
BY DEF GoodRules, IsList
LEMMA SeqIsList == ASSUME NEW S, NEW x \in Seq(S) PROVE IsList(x)
BY DEF IsList
LEMMA ListConcat ==
    ASSUME NEW a, NEW b, IsList(a), IsList(b)
    PROVE  IsList(a \o b)
<1> DEFINE S == {a[i] : i \in 1..Len(a)} \cup {b[i] : i \in 1..Len(b)}
<1>1. /\ Len(a) \in Nat /\ Len(b) \in Nat
      /\ a = [i \in 1..Len(a) |-> a[i]] /\ b = [i \in 1..Len(b) |-> b[i]]
  BY Zenon DEF IsList
<1>2. a \in [1..Len(a) -> S] /\ b \in [1..Len(b) -> S]
  BY <1>1, Zenon
<1> HIDE DEF S
<1>3. a \in Seq(S) /\ b \in Seq(S)
  BY <1>1, <1>2
<1>4. a \o b \in Seq(S)
  BY <1>3
<1> QED BY <1>4, SeqIsList, Zenon
LEMMA RulesConcat ==
    ASSUME NEW e, NEW s, NEW t, GoodRules(e, s), GoodRules(e, t)
    PROVE  GoodRules(e, s \o t)
<1>1. /\ Len(s) \in Nat /\ Len(t) \in Nat
      /\ s = [i \in 1..Len(s) |-> s[i]] /\ t = [i \in 1..Len(t) |-> t[i]]
  BY Zenon DEF GoodRules, IsList
<1>2. /\ Len(s \o t) = Len(s) + Len(t) /\ DOMAIN (s \o t) = 1..(Len(s) + Len(t))
      /\ \A i \in 1..(Len(s) + Len(t)) : (s \o t)[i] = IF i <= Len(s) THEN s[i] ELSE t[i - Len(s)]
  BY <1>1, ConcatAt
<1>3. IsList(s \o t)
  BY <1>1, ListConcat, Zenon DEF IsList
<1>4. ASSUME NEW i \in 1..Len(s \o t) PROVE GoodRule(e, (s \o t)[i])
  <2>1. CASE i <= Len(s)
    <3>1. i \in 1..Len(s) /\ (s \o t)[i] = s[i]
      BY <1>1, <1>2, <1>4, <2>1
    <3> QED BY <3>1, Zenon DEF GoodRules
  <2>2. CASE ~(i <= Len(s))
    <3>1. i - Len(s) \in 1..Len(t) /\ (s \o t)[i] = t[i - Len(s)]
      BY <1>1, <1>2, <1>4, <2>2
    <3> QED BY <3>1, Zenon DEF GoodRules
  <2> QED BY <2>1, <2>2
<1> QED BY <1>3, <1>4 DEF GoodRules

LEMMA RuleOfUrls ==
    ASSUME NEW e, NEW types, NEW terms, NEW urls, IsList(urls),
           \A i \in 1..Len(urls) : Listable(e, types, terms, urls[i])
    PROVE  GoodRule(e, Rule(types, terms, urls))
<1> DEFINE r == Rule(types, terms, urls)
<1>1. r.urls = urls /\ r.types = types /\ r.terms = terms
  BY DEF Rule
<1> HIDE DEF r
<1>2. GoodRule(e, r)
  BY <1>1, Zenon DEF GoodRule
<1> QED BY <1>2 DEF r
LEMMA RuleOfOne ==
    ASSUME NEW e, NEW types, NEW terms, NEW u, Listable(e, types, terms, u)
    PROVE  GoodRule(e, Rule(types, terms, <<u>>))
<1>1. IsList(<<u>>) /\ \A i \in 1..Len(<<u>>) : Listable(e, types, terms, <<u>>[i])
  BY DEF IsList
<1> QED BY <1>1, RuleOfUrls, Zenon
LEMMA RuleOfTwo ==
    ASSUME NEW e, NEW types, NEW terms, NEW u, NEW v,
           Listable(e, types, terms, u), Listable(e, types, terms, v)
    PROVE  GoodRule(e, Rule(types, terms, <<u, v>>))
<1>1. IsList(<<u, v>>) /\ \A i \in 1..Len(<<u, v>>) : Listable(e, types, terms, <<u, v>>[i])
  BY DEF IsList
<1> QED BY <1>1, RuleOfUrls, Zenon
LEMMA RuleOfThree ==
    ASSUME NEW e, NEW types, NEW terms, NEW u, NEW v, NEW w,
           Listable(e, types, terms, u), Listable(e, types, terms, v), Listable(e, types, terms, w)
    PROVE  GoodRule(e, Rule(types, terms, <<u, v, w>>))
<1>1. IsList(<<u, v, w>>) /\ \A i \in 1..Len(<<u, v, w>>) : Listable(e, types, terms, <<u, v, w>>[i])
  BY DEF IsList
<1> QED BY <1>1, RuleOfUrls, Zenon
LEMMA OtherPage ==
    ASSUME NEW e, NEW types, NEW terms, NEW u, u \notin FreshPages
    PROVE  Listable(e, types, terms, u)
BY DEF Listable, FreshPages
LEMMA OneUrl ==
    ASSUME NEW e, NEW types, NEW terms, NEW u, u \notin FreshPages
    PROVE  GoodRule(e, Rule(types, terms, <<u>>))
BY RuleOfOne, OtherPage, Zenon
LEMMA TwoUrls ==
    ASSUME NEW e, NEW types, NEW terms, NEW u, u \notin FreshPages, NEW v, v \notin FreshPages
    PROVE  GoodRule(e, Rule(types, terms, <<u, v>>))
BY RuleOfTwo, OtherPage, Zenon

LEMMA ProductSourcesSafe ==
    ASSUME NEW e, e # "apex legends"
    PROVE  GoodRules(e, ProductSources(e))
<1>1. CASE e = "python"
  <2> DEFINE a == Rule(Versions \cup Now, AnyTerm, <<"python/downloads">>)
             b == Rule(Past, AnyTerm, <<"python/history">>)
  <2>1. GoodRule(e, a) /\ GoodRule(e, b)
    BY OneUrl DEF FreshPages
  <2>2. ProductSources(e) = <<a, b>>
    BY <1>1, Zenon DEF ProductSources
  <2> HIDE DEF a, b
  <2> QED BY <2>1, <2>2, RulesOfTwo, Zenon
<1>2. CASE e = "deepseek"
  <2> DEFINE a == Rule(Past \cup Now \cup Contrast, AnyTerm, <<"deepseek/pricing">>)
             b == Rule(Versions, AnyTerm, <<"deepseek/news">>)
  <2>1. GoodRule(e, a) /\ GoodRule(e, b)
    BY OneUrl DEF FreshPages
  <2>2. ProductSources(e) = <<a, b>>
    BY <1>2, Zenon DEF ProductSources
  <2> HIDE DEF a, b
  <2> QED BY <2>1, <2>2, RulesOfTwo, Zenon
<1>3. CASE e = "http"
  <2> DEFINE a == Rule(Past \cup Contrast, AnyTerm, <<"rfc9110">>)
             b == Rule(Now, AnyTerm, <<"http-status-codes.csv", "rfc9110#404">>)
  <2>1. GoodRule(e, a) /\ GoodRule(e, b)
    BY OneUrl, TwoUrls DEF FreshPages
  <2>2. ProductSources(e) = <<a, b>>
    BY <1>3, Zenon DEF ProductSources
  <2> HIDE DEF a, b
  <2> QED BY <2>1, <2>2, RulesOfTwo, Zenon
<1>4. CASE e = "git"
  <2> DEFINE a == Rule(Past, AnyTerm, <<"gitdatamodel">>)
             b == Rule(Versions \cup Now, AnyTerm, <<"git-scm">>)
  <2>1. GoodRule(e, a) /\ GoodRule(e, b)
    BY OneUrl DEF FreshPages
  <2>2. ProductSources(e) = <<a, b>>
    BY <1>4, Zenon DEF ProductSources
  <2> HIDE DEF a, b
  <2> QED BY <2>1, <2>2, RulesOfTwo, Zenon
<1>5. CASE e = "rust"
  <2> DEFINE a == Rule(Versions \cup Now \cup Past, AnyTerm, <<"rust/releases">>)
  <2>1. GoodRule(e, a)
    BY OneUrl DEF FreshPages
  <2>2. ProductSources(e) = <<a>>
    BY <1>5, Zenon DEF ProductSources
  <2> HIDE DEF a
  <2> QED BY <2>1, <2>2, RulesOfOne, Zenon
<1>6. CASE e = "openai"
  <2> DEFINE a == Rule(Past \cup Versions \cup Now \cup Contrast, AnyTerm, <<"openai/models">>)
  <2>1. GoodRule(e, a)
    BY OneUrl DEF FreshPages
  <2>2. ProductSources(e) = <<a>>
    BY <1>6, Zenon DEF ProductSources
  <2> HIDE DEF a
  <2> QED BY <2>1, <2>2, RulesOfOne, Zenon
<1>7. CASE e \notin {"python", "deepseek", "http", "git", "rust", "openai"}
  <2>1. ProductSources(e) = <<>>
    BY <1>7, Zenon DEF ProductSources
  <2> QED BY <2>1, NoRules, Zenon
<1> QED BY <1>1, <1>2, <1>3, <1>4, <1>5, <1>6, <1>7

LEMMA StandardSourcesSafe ==
    ASSUME NEW e, e # "apex legends"
    PROVE  GoodRules(e, StandardSources(e))
<1>1. CASE e = "json"
  <2> DEFINE a == Rule(Past \cup Now, AnyTerm, <<"rfc8259">>)
  <2>1. GoodRule(e, a)
    BY OneUrl DEF FreshPages
  <2>2. StandardSources(e) = <<a>>
    BY <1>1, Zenon DEF StandardSources
  <2> HIDE DEF a
  <2> QED BY <2>1, <2>2, RulesOfOne, Zenon
<1>2. CASE e = "sha-256"
  <2> DEFINE a == Rule(Past \cup Now, AnyTerm, <<"rfc6234.html">>)
  <2>1. GoodRule(e, a)
    BY OneUrl DEF FreshPages
  <2>2. StandardSources(e) = <<a>>
    BY <1>2, Zenon DEF StandardSources
  <2> HIDE DEF a
  <2> QED BY <2>1, <2>2, RulesOfOne, Zenon
<1>3. CASE e = "dns"
  <2> DEFINE a == Rule(Past \cup Now, AnyTerm, <<"ports.csv">>)
  <2>1. GoodRule(e, a)
    BY OneUrl DEF FreshPages
  <2>2. StandardSources(e) = <<a>>
    BY <1>3, Zenon DEF StandardSources
  <2> HIDE DEF a
  <2> QED BY <2>1, <2>2, RulesOfOne, Zenon
<1>4. CASE e = "tls 1.3"
  <2> DEFINE a == Rule(Past \cup Versions \cup Now, AnyTerm, <<"rfc8446.txt">>)
  <2>1. GoodRule(e, a)
    BY OneUrl DEF FreshPages
  <2>2. StandardSources(e) = <<a>>
    BY <1>4, Zenon DEF StandardSources
  <2> HIDE DEF a
  <2> QED BY <2>1, <2>2, RulesOfOne, Zenon
<1>5. CASE e = "rfc 3339"
  <2> DEFINE a == Rule(Past \cup Contrast, AnyTerm, <<"rfc3339.html">>)
  <2>1. GoodRule(e, a)
    BY OneUrl DEF FreshPages
  <2>2. StandardSources(e) = <<a>>
    BY <1>5, Zenon DEF StandardSources
  <2> HIDE DEF a
  <2> QED BY <2>1, <2>2, RulesOfOne, Zenon
<1>6. CASE e = "postgresql"
  <2> DEFINE a == Rule(Past \cup Versions \cup Now \cup Contrast, AnyTerm, <<"pg/versioning">>)
  <2>1. GoodRule(e, a)
    BY OneUrl DEF FreshPages
  <2>2. StandardSources(e) = <<a>>
    BY <1>6, Zenon DEF StandardSources
  <2> HIDE DEF a
  <2> QED BY <2>1, <2>2, RulesOfOne, Zenon
<1>7. CASE e = "sqlite"
  <2> DEFINE a == Rule(Past \cup Now \cup Contrast, AnyTerm, <<"sqlite/copyright">>)
  <2>1. GoodRule(e, a)
    BY OneUrl DEF FreshPages
  <2>2. StandardSources(e) = <<a>>
    BY <1>7, Zenon DEF StandardSources
  <2> HIDE DEF a
  <2> QED BY <2>1, <2>2, RulesOfOne, Zenon
<1>8. CASE e = "cap theorem"
  <2> DEFINE a == Rule(Past \cup Contrast, AnyTerm, <<"ibm/cap">>)
  <2>1. GoodRule(e, a)
    BY OneUrl DEF FreshPages
  <2>2. StandardSources(e) = <<a>>
    BY <1>8, Zenon DEF StandardSources
  <2> HIDE DEF a
  <2> QED BY <2>1, <2>2, RulesOfOne, Zenon
<1>9. CASE e = "database acid"
  <2> DEFINE a == Rule(Past, AnyTerm, <<"ibm/transactions">>)
  <2>1. GoodRule(e, a)
    BY OneUrl DEF FreshPages
  <2>2. StandardSources(e) = <<a>>
    BY <1>9, Zenon DEF StandardSources
  <2> HIDE DEF a
  <2> QED BY <2>1, <2>2, RulesOfOne, Zenon
<1>10. CASE e = "acid"
  <2> DEFINE a == Rule(Past, AnyTerm, <<"ibm/transactions">>)
  <2>1. GoodRule(e, a)
    BY OneUrl DEF FreshPages
  <2>2. StandardSources(e) = <<a>>
    BY <1>10, Zenon DEF StandardSources
  <2> HIDE DEF a
  <2> QED BY <2>1, <2>2, RulesOfOne, Zenon
<1>11. CASE e = "sql transaction isolation"
  <2> DEFINE a == Rule(Past \cup Contrast \cup Now, AnyTerm, <<"pg/isolation">>)
  <2>1. GoodRule(e, a)
    BY OneUrl DEF FreshPages
  <2>2. StandardSources(e) = <<a>>
    BY <1>11, Zenon DEF StandardSources
  <2> HIDE DEF a
  <2> QED BY <2>1, <2>2, RulesOfOne, Zenon
<1>12. CASE e = "node.js"
  <2> DEFINE a == Rule(Versions \cup Now, AnyTerm, <<"node/releases">>)
  <2>1. GoodRule(e, a)
    BY OneUrl DEF FreshPages
  <2>2. StandardSources(e) = <<a>>
    BY <1>12, Zenon DEF StandardSources
  <2> HIDE DEF a
  <2> QED BY <2>1, <2>2, RulesOfOne, Zenon
<1>13. CASE e \notin {"json", "sha-256", "dns", "tls 1.3", "rfc 3339", "postgresql",
                    "sqlite", "cap theorem", "database acid", "acid", "sql transaction isolation", "node.js"}
  <2>1. StandardSources(e) = <<>>
    BY <1>13, Zenon DEF StandardSources
  <2> QED BY <2>1, NoRules, Zenon
<1> QED BY <1>1, <1>2, <1>3, <1>4, <1>5, <1>6, <1>7, <1>8, <1>9, <1>10, <1>11, <1>12, <1>13

LEMMA LanguageRulesSafe ==
    ASSUME NEW e, e # "apex legends"
    PROVE  GoodRules(e, LanguageRules(e))
<1>1. CASE e = "python"
  <2> DEFINE a == Rule(Past \cup Now, {"creator"}, <<"python/license-2.1">>)
             b == Rule(Past \cup Now, {"first release"}, <<"python/history">>)
             c == Rule(Now \cup Versions, {"security support"}, <<"python/devguide">>)
  <2>1. GoodRule(e, a) /\ GoodRule(e, b) /\ GoodRule(e, c)
    BY OneUrl DEF FreshPages
  <2>2. LanguageRules(e) = <<a, b, c>>
    BY <1>1, Zenon DEF LanguageRules
  <2> HIDE DEF a, b, c
  <2> QED BY <2>1, <2>2, RulesOfThree, Zenon
<1>2. CASE e = "git"
  <2> DEFINE a == Rule(Past, {"object"}, <<"gitdatamodel">>)
             b == Rule(Past, {"state"}, <<"git/book">>)
  <2>1. GoodRule(e, a) /\ GoodRule(e, b)
    BY OneUrl DEF FreshPages
  <2>2. LanguageRules(e) = <<a, b>>
    BY <1>2, Zenon DEF LanguageRules
  <2> HIDE DEF a, b
  <2> QED BY <2>1, <2>2, RulesOfTwo, Zenon
<1>3. CASE e = "http"
  <2> DEFINE a == Rule(Past \cup Contrast \cup Now, {"property"}, <<"http-methods">>)
  <2>1. GoodRule(e, a)
    BY OneUrl DEF FreshPages
  <2>2. LanguageRules(e) = <<a>>
    BY <1>3, Zenon DEF LanguageRules
  <2> HIDE DEF a
  <2> QED BY <2>1, <2>2, RulesOfOne, Zenon
<1>4. CASE e \notin {"python", "git", "http"}
  <2>1. LanguageRules(e) = <<>>
    BY <1>4, Zenon DEF LanguageRules
  <2> QED BY <2>1, NoRules, Zenon
<1> QED BY <1>1, <1>2, <1>3, <1>4

LEMMA StandardRulesSafe ==
    ASSUME NEW e, e # "apex legends"
    PROVE  GoodRules(e, StandardRules(e))
<1>1. CASE e = "dns"
  <2> DEFINE a == Rule(Past \cup Now, {"port"}, <<"ports.xhtml?search=53">>)
             b == Rule(Past \cup Now, {"registry"}, <<"ports.xhtml">>)
  <2>1. GoodRule(e, a) /\ GoodRule(e, b)
    BY OneUrl DEF FreshPages
  <2>2. StandardRules(e) = <<a, b>>
    BY <1>1, Zenon DEF StandardRules
  <2> HIDE DEF a, b
  <2> QED BY <2>1, <2>2, RulesOfTwo, Zenon
<1>2. CASE e = "json"
  <2> DEFINE a == Rule(Past \cup Now, {"media type"}, <<"media-types/json">>)
  <2>1. GoodRule(e, a)
    BY OneUrl DEF FreshPages
  <2>2. StandardRules(e) = <<a>>
    BY <1>2, Zenon DEF StandardRules
  <2> HIDE DEF a
  <2> QED BY <2>1, <2>2, RulesOfOne, Zenon
<1>3. CASE e = "sha-256"
  <2> DEFINE a == Rule(Past \cup Now, {"digest", "size"}, <<"rfc6234.txt">>)
  <2>1. GoodRule(e, a)
    BY OneUrl DEF FreshPages
  <2>2. StandardRules(e) = <<a>>
    BY <1>3, Zenon DEF StandardRules
  <2> HIDE DEF a
  <2> QED BY <2>1, <2>2, RulesOfOne, Zenon
<1>4. CASE e = "rfc 3339"
  <2> DEFINE a == Rule(Past \cup Contrast, {"utc", "example", "+00:00"}, <<"rfc3339.txt">>)
  <2>1. GoodRule(e, a)
    BY OneUrl DEF FreshPages
  <2>2. StandardRules(e) = <<a>>
    BY <1>4, Zenon DEF StandardRules
  <2> HIDE DEF a
  <2> QED BY <2>1, <2>2, RulesOfOne, Zenon
<1>5. CASE e = "postgresql"
  <2> DEFINE a == Rule(Past \cup Contrast, {"isolation"}, <<"pg/isolation">>)
  <2>1. GoodRule(e, a)
    BY OneUrl DEF FreshPages
  <2>2. StandardRules(e) = <<a>>
    BY <1>5, Zenon DEF StandardRules
  <2> HIDE DEF a
  <2> QED BY <2>1, <2>2, RulesOfOne, Zenon
<1>6. CASE e = "sqlite"
  <2> DEFINE a == Rule(Past \cup Now \cup Contrast, {"licence"}, <<"sqlite/copyright">>)
  <2>1. GoodRule(e, a)
    BY OneUrl DEF FreshPages
  <2>2. StandardRules(e) = <<a>>
    BY <1>6, Zenon DEF StandardRules
  <2> HIDE DEF a
  <2> QED BY <2>1, <2>2, RulesOfOne, Zenon
<1>7. CASE e \notin {"dns", "json", "sha-256", "rfc 3339", "postgresql", "sqlite"}
  <2>1. StandardRules(e) = <<>>
    BY <1>7, Zenon DEF StandardRules
  <2> QED BY <2>1, NoRules, Zenon
<1> QED BY <1>1, <1>2, <1>3, <1>4, <1>5, <1>6, <1>7

LEMMA ProductRulesSafe ==
    ASSUME NEW e, e # "apex legends"
    PROVE  GoodRules(e, ProductRules(e))
<1>1. CASE e = "deepseek"
  <2> DEFINE a == Rule(FactType, {"price"}, <<"deepseek/pricing">>)
  <2>1. GoodRule(e, a)
    BY OneUrl DEF FreshPages
  <2>2. ProductRules(e) = <<a>>
    BY <1>1, Zenon DEF ProductRules
  <2> HIDE DEF a
  <2> QED BY <2>1, <2>2, RulesOfOne, Zenon
<1>2. CASE e \notin {"deepseek"}
  <2>1. ProductRules(e) = <<>>
    BY <1>2, Zenon DEF ProductRules
  <2> QED BY <2>1, NoRules, Zenon
<1> QED BY <1>1, <1>2

\* The rules of the one entity that has such pages.
LEMMA ApexSources == GoodRules("apex legends", ProductSources("apex legends"))
<1> DEFINE a == Rule(Versions \cup Now, AnyTerm, <<"ea/overclocked">>)
           b == Rule({"patch_notes"}, AnyTerm, <<"ea/midseason">>)
           c == Rule({"character_changes"}, AnyTerm, <<"ea/breach">>)
           d == Rule({"team_meta"}, AnyTerm, <<"apexranked/meta", "games.gg/tiers">>)
           f == Rule(Past, AnyTerm, <<"ea/overclocked", "apexranked/meta", "games.gg/tiers">>)
           g == Rule(Contrast, AnyTerm, <<"ea/overclocked", "apexranked/meta">>)
           Ok(r) == GoodRule("apex legends", r)
<1>1. Ok(a)
  BY OneUrl DEF FreshPages
<1>2. Listable("apex legends", {"patch_notes"}, AnyTerm, "ea/midseason")
  BY DEF Listable
<1>3. Listable("apex legends", {"character_changes"}, AnyTerm, "ea/breach")
  BY DEF Listable
<1>4. /\ Listable("apex legends", {"team_meta"}, AnyTerm, "apexranked/meta")
      /\ Listable("apex legends", Past, AnyTerm, "apexranked/meta")
      /\ Listable("apex legends", Contrast, AnyTerm, "apexranked/meta")
  BY DEF Listable, Past, Contrast
<1>5. \A types, u : u \in {"ea/overclocked", "games.gg/tiers"} => Listable("apex legends", types, AnyTerm, u)
  BY OtherPage DEF FreshPages
<1>6. Ok(b) /\ Ok(c)
  BY <1>2, <1>3, RuleOfOne, Zenon
<1>7. Ok(d) /\ Ok(g)
  BY <1>4, <1>5, RuleOfTwo
<1>8. Ok(f)
  BY <1>4, <1>5, RuleOfThree
<1>9. ProductSources("apex legends") = <<a, b, c, d, f, g>>
  BY Zenon DEF ProductSources
<1> HIDE DEF a, b, c, d, f, g
<1> QED BY <1>1, <1>6, <1>7, <1>8, <1>9, RulesOfSix, Zenon
LEMMA ApexProductRules == GoodRules("apex legends", ProductRules("apex legends"))
<1> DEFINE a == Rule(FactType, {"live table"}, <<"apexranked/meta">>)
           b == Rule(FactType, {"breach"}, <<"ea/breach">>)
           c == Rule(FactType, {"midseason"}, <<"ea/midseason">>)
           d == Rule(FactType, {"community"}, <<"apexranked/meta", "games.gg/tiers">>)
           f == Rule(FactType, {"patch"}, <<"ea/overclocked", "ea/midseason">>)
           Ok(r) == GoodRule("apex legends", r)
<1>1. /\ Listable("apex legends", FactType, {"live table"}, "apexranked/meta")
      /\ Listable("apex legends", FactType, {"breach"}, "ea/breach")
      /\ Listable("apex legends", FactType, {"midseason"}, "ea/midseason")
      /\ Listable("apex legends", FactType, {"community"}, "apexranked/meta")
      /\ Listable("apex legends", FactType, {"patch"}, "ea/midseason")
  BY DEF Listable
<1>2. \A terms, u : u \in {"ea/overclocked", "games.gg/tiers"} => Listable("apex legends", FactType, terms, u)
  BY OtherPage DEF FreshPages
<1>3. Ok(a) /\ Ok(b) /\ Ok(c)
  BY <1>1, RuleOfOne, Zenon
<1>4. Ok(d) /\ Ok(f)
  BY <1>1, <1>2, RuleOfTwo
<1>5. ProductRules("apex legends") = <<a, b, c, d, f>>
  BY Zenon DEF ProductRules
<1> HIDE DEF a, b, c, d, f
<1> QED BY <1>3, <1>4, <1>5, RulesOfFive, Zenon

\* Every rule of every entity is good.
LEMMA AllRulesGood ==
    ASSUME NEW e
    PROVE  GoodRules(e, ReviewedRules(e) \o ProductSources(e) \o StandardSources(e))
<1>1. CASE e # "apex legends"
  BY <1>1, ProductSourcesSafe, StandardSourcesSafe, LanguageRulesSafe, StandardRulesSafe,
     ProductRulesSafe, RulesConcat, Zenon DEF ReviewedRules
<1>2. CASE e = "apex legends"
  <2>1. StandardSources(e) = <<>> /\ LanguageRules(e) = <<>> /\ StandardRules(e) = <<>>
    BY <1>2, Zenon DEF StandardSources, LanguageRules, StandardRules
  <2> QED BY <1>2, <2>1, ApexSources, ApexProductRules, NoRules, RulesConcat, Zenon DEF ReviewedRules
<1> QED BY <1>1, <1>2

\* The pages listed for a fact come from a rule that matches it.
LEMMA UrlsListed ==
    ASSUME NEW e, NEW fact
    PROVE  /\ IsList(urls_for_fact(e, fact))
           /\ \A i \in 1..Len(urls_for_fact(e, fact)) :
                \E r : /\ RuleMatches(r, fact)
                       /\ Listable(e, r.types, r.terms, urls_for_fact(e, fact)[i])
<1> DEFINE rules == ReviewedRules(e) \o ProductSources(e) \o StandardSources(e)
           I == {i \in 1..Len(rules) : RuleMatches(rules[i], fact)}
           first == SelectInSeq(rules, LAMBDA r : RuleMatches(r, fact))
<1>1. IsList(rules) /\ \A i \in 1..Len(rules) : GoodRule(e, rules[i])
  BY AllRulesGood, Zenon DEF GoodRules
<1>2. first = IF I # {} THEN Min(I) ELSE 0
  BY Zenon DEF SelectInSeq
<1>3. urls_for_fact(e, fact) = IF first = 0 THEN <<>> ELSE rules[first].urls
  BY Zenon DEF urls_for_fact
<1>4. I \in SUBSET (1..Len(rules)) /\ Len(rules) \in Nat
  BY <1>1 DEF IsList
<1>5. CASE I = {}
  <2>1. urls_for_fact(e, fact) = <<>>
    BY <1>2, <1>3, <1>5, Zenon
  <2>2. IsList(<<>>) /\ Len(<<>>) = 0
    BY DEF IsList
  <2> QED BY <2>1, <2>2
<1>6. CASE I # {}
  <2>1. Min(I) \in I
    <3>1. I \in SUBSET Nat
      BY <1>4
    <3> HIDE DEF I
    <3> QED BY <1>6, <3>1, LeastOf
  <2>2. Min(I) \in 1..Len(rules) /\ RuleMatches(rules[Min(I)], fact)
    BY <2>1, Zenon
  <2>3. Min(I) # 0
    <3> DEFINE k == Min(I)
    <3>1. k \in 1..Len(rules)
      BY <2>2
    <3> HIDE DEF k, I, rules
    <3>2. k # 0
      BY <1>4, <3>1
    <3> QED BY <3>2 DEF k
  <2>4. urls_for_fact(e, fact) = rules[Min(I)].urls
    BY <1>2, <1>3, <1>6, <2>3, Zenon
  <2>5. GoodRule(e, rules[Min(I)])
    BY <1>1, <2>2, Zenon
  <2> QED BY <2>2, <2>4, <2>5, Zenon DEF GoodRule
<1> QED BY <1>5, <1>6

-----------------------------------------------------------------------------------
(* The pages found and selected.                                                    *)

\* A page found for a query: one that is listed for its fact, or one of the web.
OnTheWeb == {"web/a", "web/b", "web/1", "web/2", "web/3", "web/4", "web/5", "web/6", "web/7", "web/8"}
FoundFor(h, query, entity) ==
  \E url, provider : \E rank, score \in Int :
    /\ h = Hit(url, provider, rank, score, query.fact, entity)
    /\ url \in OnTheWeb \/ \E r \in 1..Len(query.urls) : url = query.urls[r]

LEMMA ResponseHits ==
    ASSUME NEW query, NEW entity, NEW web, IsList(query.urls), query.fact \in 1..8
    PROVE  /\ IsList(Response(query, entity, web).hits)
           /\ \A i \in 1..Len(Response(query, entity, web).hits) :
                FoundFor(Response(query, entity, web).hits[i], query, entity)
<1> DEFINE direct == DirectHits(query, entity)
           found == WebHits(query, entity, web)
           rest == IF "web" \in query.providers /\ web \in {"hits", "own"} THEN found ELSE <<>>
           all == direct \o rest
           n == Len(query.urls)
<1>1. n \in Nat
  BY DEF IsList
<1>2. IsList(direct) /\ Len(direct) = n
  BY <1>1 DEF DirectHits, IsList
<1>3. ASSUME NEW i \in 1..Len(direct) PROVE FoundFor(direct[i], query, entity)
  <2>1. i \in 1..n /\ i \in Int /\ 100 - 5 * (i - 1) \in Int
    BY <1>1, <1>2
  <2>2. direct[i] = Hit(query.urls[i], "direct", i, 100 - 5 * (i - 1), query.fact, entity)
    BY <2>1, Zenon DEF DirectHits
  <2> HIDE DEF direct
  <2> QED BY <2>1, <2>2, Zenon DEF FoundFor
<1> DEFINE listed == WebPages(query, web)
           w == Len(listed)
<1>4. w \in Nat /\ \A i \in 1..w : listed[i] \in OnTheWeb
  <2>1. OwnPages[query.fact] \in OnTheWeb
    BY DEF OwnPages, OnTheWeb
  <2>2. CASE web = "own"
    <3> DEFINE own == OwnPages[query.fact]
    <3>1. listed = <<own>>
      BY <2>2, Zenon DEF WebPages
    <3> HIDE DEF own, listed
    <3> QED BY <2>1, <3>1 DEF own
  <2>3. CASE web # "own"
    <3>1. listed = <<"web/a", "web/b">>
      BY <2>3, Zenon DEF WebPages
    <3> HIDE DEF listed
    <3> QED BY <3>1 DEF OnTheWeb
  <2> QED BY <2>2, <2>3
<1>5. IsList(found) /\ \A i \in 1..Len(found) : FoundFor(found[i], query, entity)
  <2> HIDE DEF listed
  <2>1. found = [r \in 1..w |-> Hit(listed[r], "web", r, 90 - 10 * (r - 1), query.fact, entity)]
    BY Zenon DEF WebHits, listed
  <2> HIDE DEF found, w
  <2>2. IsList(found) /\ Len(found) = w
    BY <1>4, <2>1 DEF IsList
  <2>3. ASSUME NEW i \in 1..w PROVE FoundFor(found[i], query, entity)
    <3>1. found[i] = Hit(listed[i], "web", i, 90 - 10 * (i - 1), query.fact, entity)
      BY <2>1, Zenon
    <3>2. i \in Int /\ 90 - 10 * (i - 1) \in Int
      BY <1>4
    <3> QED BY <1>4, <3>1, <3>2, Zenon DEF FoundFor
  <2> QED BY <2>2, <2>3, Zenon
<1>6. IsList(<<>>) /\ Len(<<>>) = 0
  BY DEF IsList
<1>7. IsList(rest) /\ \A i \in 1..Len(rest) : FoundFor(rest[i], query, entity)
  <2>1. rest = found \/ rest = <<>>
    BY Zenon
  <2>2. \A i \in 1..0 : FALSE
    OBVIOUS
  <2> HIDE DEF rest, found
  <2> QED BY <1>5, <1>6, <2>1, <2>2, Zenon
<1>8. Response(query, entity, web).hits = all
  BY DEF Response
<1> HIDE DEF direct, rest
<1>9. IsList(all)
  BY <1>2, <1>7, ListConcat, Zenon
<1>10. ASSUME NEW i \in 1..Len(all) PROVE FoundFor(all[i], query, entity)
  <2>1. /\ Len(direct) \in Nat /\ Len(rest) \in Nat
        /\ direct = [j \in 1..Len(direct) |-> direct[j]] /\ rest = [j \in 1..Len(rest) |-> rest[j]]
    BY <1>2, <1>7, Zenon DEF IsList
  <2>2. /\ Len(all) = Len(direct) + Len(rest)
        /\ \A j \in 1..(Len(direct) + Len(rest)) :
             all[j] = IF j <= Len(direct) THEN direct[j] ELSE rest[j - Len(direct)]
    BY <2>1, ConcatAt
  <2>3. CASE i <= Len(direct)
    <3>1. i \in 1..Len(direct) /\ all[i] = direct[i]
      BY <1>10, <2>1, <2>2, <2>3
    <3> QED BY <1>3, <3>1, Zenon
  <2>4. CASE ~(i <= Len(direct))
    <3>1. i - Len(direct) \in 1..Len(rest) /\ all[i] = rest[i - Len(direct)]
      BY <1>10, <2>1, <2>2, <2>4
    <3> QED BY <1>7, <3>1, Zenon
  <2> QED BY <2>3, <2>4
<1> HIDE DEF all
<1> QED BY <1>8, <1>9, <1>10, Zenon

\* A hit, before and after the merge: the numbers it is ranked by and the facts it has.
HitFields == {"url", "provider", "rank", "score", "facts", "site", "official"}
GoodHit(h, n) ==
  /\ DOMAIN h = HitFields /\ h.score \in Int /\ h.rank \in Int
  /\ h.site = Site(h.url) /\ h.facts \subseteq 1..n
LEMMA FoundIsGood ==
    ASSUME NEW h, NEW query, NEW entity, NEW n, FoundFor(h, query, entity), query.fact \in 1..n
    PROVE  GoodHit(h, n) /\ h.facts = {query.fact}
<1>1. PICK url, provider : \E rank, score \in Int : h = Hit(url, provider, rank, score, query.fact, entity)
  BY Zenon DEF FoundFor
<1>2. PICK rank \in Int, score \in Int : h = Hit(url, provider, rank, score, query.fact, entity)
  BY <1>1, Zenon
<1>3. /\ DOMAIN h = HitFields /\ h.score = score /\ h.rank = rank
      /\ h.site = Site(h.url) /\ h.facts = {query.fact}
  BY <1>2 DEF Hit, HitFields
<1>4. h.facts \subseteq 1..n
  BY <1>3
<1> QED BY <1>2, <1>3, <1>4 DEF GoodHit

\* Merging.
LEMMA Merged ==
    ASSUME NEW H, IsFiniteSet(H), NEW n, \A h \in H : GoodHit(h, n), NEW m \in MergeHits(H)
    PROVE  /\ GoodHit(m, n)
           /\ \A id \in m.facts : \E h \in H : h.url = m.url /\ id \in h.facts
<1>1. PICK g \in H : m = MergedHit(H, g.url)
  BY Zenon DEF MergeHits
<1> DEFINE url == g.url
           same == {h \in H : h.url = url}
           best == CHOOSE h \in same : \A o \in same : o.score <= h.score
           all == UNION {h.facts : h \in same}
<1>2. same \in SUBSET H /\ g \in same
  BY <1>1
<1>3. IsFiniteSet(same)
  <2> HIDE DEF same
  <2> QED BY <1>2, FS_Subset
<1>4. \A h \in same : h.score \in Int
  BY Zenon DEF GoodHit
<1>5. \E h \in same : \A o \in same : o.score <= h.score
  <2> DEFINE rank == [h \in same |-> -h.score]
  <2> HIDE DEF same
  <2>1. rank \in [same -> Int]
    BY <1>4
  <2>2. \E x \in same : \A y \in same : rank[x] <= rank[y]
    <3> HIDE DEF rank
    <3> QED BY <1>2, <1>3, <2>1, LeastRank, Zenon
  <2> QED BY <1>4, <2>2
<1>6. best \in same
  <2> HIDE DEF same
  <2> QED BY <1>5, Zenon
<1>7. m = [best EXCEPT !.facts = all]
  BY <1>1, Zenon DEF MergedHit
<1> HIDE DEF best
<1>8. best \in H /\ best.url = url /\ GoodHit(best, n)
  BY <1>6, Zenon
<1> HIDE DEF all
<1>9. /\ DOMAIN m = HitFields /\ m.facts = all /\ m.url = url /\ m.site = best.site
      /\ m.score = best.score /\ m.rank = best.rank
  BY <1>7, <1>8 DEF GoodHit, HitFields
<1>10. \A id \in all : \E h \in H : h.url = url /\ id \in h.facts
  BY Zenon DEF all
<1>11. all \subseteq 1..n
  BY <1>10 DEF GoodHit
<1> HIDE DEF url
<1> QED BY <1>8, <1>9, <1>10, <1>11 DEF GoodHit

LEMMA MergedFinite ==
    ASSUME NEW H, IsFiniteSet(H)
    PROVE  IsFiniteSet(MergeHits(H))
<1> DEFINE f == [h \in H |-> MergedHit(H, h.url)]
<1>1. f \in Surjection(H, MergeHits(H))
  BY DEF Surjection, MergeHits
<1> HIDE DEF f
<1> QED BY <1>1, FS_Surjection, Zenon

\* Ranks are numbers.
LEMMA AddressRankType == ASSUME NEW url PROVE AddressRank(url) \in Nat
<1> DEFINE I == {i \in 1..Len(AddressOrder) : AddressOrder[i] = url}
<1>1. Len(AddressOrder) = 46
  BY DEF AddressOrder
<1>2. AddressRank(url) = IF I # {} THEN Min(I) ELSE 0
  BY Zenon DEF AddressRank, SelectInSeq
<1>3. I \in SUBSET Nat
  BY <1>1
<1> HIDE DEF I
<1>4. I # {} => Min(I) \in Nat
  BY <1>3, LeastOf
<1> QED BY <1>2, <1>4
LEMMA HitKeyType ==
    ASSUME NEW h, NEW n, GoodHit(h, n)
    PROVE  HitKey(h) \in Int
<1> DEFINE a == Flag(h.official)
           b == Flag(h.provider = "direct")
           r == AddressRank(h.url)
<1>1. a \in Int /\ b \in Int
  BY DEF Flag
<1>2. r \in Int
  BY AddressRankType
<1>3. h.score \in Int /\ h.rank \in Int
  BY DEF GoodHit
<1>4. HitKey(h) = 200000 * a + 100000 * b + 500 * (100 - h.score) + 50 * (h.rank - 1) + r
  BY SMT DEF HitKey
<1> HIDE DEF a, b, r
<1> QED BY <1>1, <1>2, <1>3, <1>4

\* The best of a finite set of hits is one of them.
LEMMA BestIn ==
    ASSUME NEW S, IsFiniteSet(S), S # {}, NEW key \in [S -> Int], \A h \in S : HitKey(h) \in Int
    PROVE  Best(key) \in S
<1>1. PICK x \in S : \A y \in S : key[x] <= key[y]
  BY LeastRank
<1> DEFINE T == {y \in S : key[y] = key[x]}
           rank == [y \in T |-> HitKey(y)]
<1>2. T \in SUBSET S /\ x \in T
  OBVIOUS
<1>3. IsFiniteSet(T)
  <2> HIDE DEF T
  <2> QED BY <1>2, FS_Subset
<1>4. rank \in [T -> Int]
  BY <1>2
<1>5. PICK z \in T : \A y \in T : rank[z] <= rank[y]
  <2> HIDE DEF T, rank
  <2> QED BY <1>2, <1>3, <1>4, LeastRank
<1>6. \A y \in T : HitKey(z) <= HitKey(y)
  BY <1>5
<1>7. z \in S /\ key[z] = key[x]
  BY <1>5
<1>8. \A o \in S : key[z] < key[o] \/ (key[z] = key[o] /\ HitKey(z) <= HitKey(o))
  BY <1>1, <1>6, <1>7
<1>9. DOMAIN key = S
  OBVIOUS
<1> QED BY <1>7, <1>8, <1>9, Zenon DEF Best

\* A state of the selection: hits chosen, in order, and hits left.
Chosen(state, M, k) ==
  /\ DOMAIN state = {"chosen", "left"} /\ state.chosen \in Seq(M) /\ Len(state.chosen) <= k
  /\ state.left \in SUBSET M
LEMMA PickChosen ==
    ASSUME NEW state, NEW M, NEW k \in Nat, Chosen(state, M, k), NEW h \in state.left
    PROVE  Chosen(Pick(state, h), M, k + 1)
<1> DEFINE s == Pick(state, h)
<1>1. DOMAIN s = {"chosen", "left"} /\ s.chosen = Append(state.chosen, h) /\ s.left = state.left \ {h}
  BY DEF Pick
<1>2. state.chosen \in Seq(M) /\ Len(state.chosen) <= k /\ state.left \in SUBSET M /\ h \in M
  BY DEF Chosen
<1>3. Append(state.chosen, h) \in Seq(M) /\ Len(Append(state.chosen, h)) <= k + 1
  BY <1>2
<1> HIDE DEF s
<1>4. Chosen(s, M, k + 1)
  BY <1>1, <1>2, <1>3 DEF Chosen
<1> QED BY <1>4 DEF s
LEMMA ChosenGrows ==
    ASSUME NEW state, NEW M, NEW k \in Nat, Chosen(state, M, k)
    PROVE  Chosen(state, M, k + 1)
<1>1. Len(state.chosen) \in Nat
  BY DEF Chosen
<1> QED BY <1>1 DEF Chosen
LEMMA StartChosen ==
    ASSUME NEW M, NEW S \in SUBSET M
    PROVE  Chosen(Start(S), M, 0)
BY DEF Chosen, Start

\* What a hit adds to those chosen is a number.
LEMMA GainType ==
    ASSUME NEW h, NEW n \in Nat, GoodHit(h, n), NEW state
    PROVE  Gain(h, state) \in Nat /\ Cardinality(h.facts) \in Nat
<1>1. IsFiniteSet(1..n)
  <2>1. 1 \in Int /\ n \in Int
    OBVIOUS
  <2> QED BY <2>1, FS_Interval, Zenon
<1>2. h.facts \in SUBSET (1..n) /\ h.facts \ CoveredBy(ToSet(state.chosen)) \in SUBSET (1..n)
  BY DEF GoodHit
<1>3. IsFiniteSet(h.facts) /\ IsFiniteSet(h.facts \ CoveredBy(ToSet(state.chosen)))
  BY <1>1, <1>2, FS_Subset, Zenon
<1> QED BY <1>3, FS_CardinalityType, Zenon DEF Gain

GoodHits(M, n) == IsFiniteSet(M) /\ n \in Nat /\ \A h \in M : GoodHit(h, n)
\* The best of a part of the hits left, by a number.
LEMMA BestLeft ==
    ASSUME NEW M, NEW n, GoodHits(M, n), NEW S \in SUBSET M, S # {}, NEW key \in [S -> Int]
    PROVE  Best(key) \in S
<1>1. IsFiniteSet(S)
  BY FS_Subset, Zenon DEF GoodHits
<1>2. \A h \in S : HitKey(h) \in Int
  BY HitKeyType, Zenon DEF GoodHits
<1> QED BY <1>1, <1>2, BestIn, Zenon

LEMMA FastStepChosen ==
    ASSUME NEW M, NEW n, GoodHits(M, n), NEW state, NEW k \in Nat, Chosen(state, M, k)
    PROVE  Chosen(FastStep(state), M, k + 1) /\ Chosen(DiverseStep(state), M, k + 1)
<1>1. CASE state.left = {}
  BY <1>1, ChosenGrows, Zenon DEF FastStep, DiverseStep
<1>2. CASE state.left # {}
  <2> DEFINE left == state.left
             a == [h \in left |-> 8 - Gain(h, state)]
             b == [h \in left |-> Flag(~Seen(state, h))]
  <2>1. left \in SUBSET M
    BY Zenon DEF Chosen
  <2>2. a \in [left -> Int]
    <3>1. ASSUME NEW h \in left PROVE 8 - Gain(h, state) \in Int
      <4>1. GoodHit(h, n) /\ n \in Nat
        BY <2>1, <3>1, Zenon DEF GoodHits
      <4>2. Gain(h, state) \in Nat
        BY <4>1, GainType, Zenon
      <4> QED BY <4>2
    <3> QED BY <3>1, Zenon
  <2>3. b \in [left -> Int]
    BY DEF Flag
  <2>4. /\ FastStep(state) = Pick(state, Best(a))
        /\ DiverseStep(state) = Pick(state, Best(b))
    BY <1>2, Zenon DEF FastStep, DiverseStep
  <2> HIDE DEF a, b
  <2>5. Best(a) \in left /\ Best(b) \in left
    BY <1>2, <2>1, <2>2, <2>3, BestLeft, Zenon
  <2> QED BY <2>4, <2>5, PickChosen, Zenon
<1> QED BY <1>1, <1>2

LEMMA ResearchStepChosen ==
    ASSUME NEW M, NEW n, GoodHits(M, n), NEW state, NEW k \in Nat, Chosen(state, M, k)
    PROVE  Chosen(ResearchStep(state), M, k + 1)
<1>1. CASE state.left = {} \/ Satisfied(state)
  BY <1>1, ChosenGrows, Zenon DEF ResearchStep
<1>2. CASE ~(state.left = {} \/ Satisfied(state))
  <2> DEFINE pool == ResearchPool(state)
             key == [h \in pool |-> ResearchKey(state, h)]
  <2>1. pool \in SUBSET state.left /\ pool # {}
    BY <1>2, Zenon DEF ResearchPool
  <2>2. pool \in SUBSET M
    BY <2>1, Zenon DEF Chosen
  <2>3. key \in [pool -> Int]
    <3>1. ASSUME NEW h \in pool PROVE ResearchKey(state, h) \in Int
      <4>1. GoodHit(h, n) /\ n \in Nat
        BY <2>2, <3>1, Zenon DEF GoodHits
      <4> DEFINE g == Gain(h, state)
                 c == Cardinality(h.facts)
                 a == Flag(h.official)
                 b == Flag(~Seen(state, h))
      <4>2. g \in Nat /\ c \in Nat
        BY <4>1, GainType, Zenon
      <4>3. a \in Int /\ b \in Int
        BY DEF Flag
      <4>4. ResearchKey(state, h) = IF g > 0 THEN 1000 * (8 - g) + 10 * c + 2 * a + b ELSE 2 * b + a
        BY Zenon DEF ResearchKey
      <4> HIDE DEF g, c, a, b
      <4> QED BY <4>2, <4>3, <4>4
    <3> HIDE DEF pool
    <3> QED BY <3>1, Zenon
  <2>4. ResearchStep(state) = Pick(state, Best(key))
    BY <1>2, Zenon DEF ResearchStep
  <2> HIDE DEF pool, key
  <2>5. Best(key) \in pool
    BY <2>1, <2>2, <2>3, BestLeft, Zenon
  <2>6. Best(key) \in state.left
    BY <2>1, <2>5
  <2> QED BY <2>4, <2>6, PickChosen, Zenon
<1> QED BY <1>1, <1>2

\* What is selected are merged hits, at most four.
LEMMA SelectHitsType ==
    ASSUME NEW H, NEW mode, NEW n, GoodHits(MergeHits(H), n)
    PROVE  SelectHits(H, mode) \in Seq(MergeHits(H)) /\ Len(SelectHits(H, mode)) <= MaxSelectedHits
<1> DEFINE M == MergeHits(H)
           Picks(s, k) == s \in Seq(M) /\ Len(s) <= k
<1>1. ASSUME NEW state, NEW k \in Nat, Chosen(state, M, k), k <= 4 PROVE Picks(state.chosen, 4)
  <2>1. state.chosen \in Seq(M) /\ Len(state.chosen) <= k
    BY <1>1, Zenon DEF Chosen
  <2> QED BY <1>1, <2>1
<1>2. Picks(SelectFast(M), 4)
  <2> DEFINE listed == {h \in M : DirectOfficial(h)}
             s0 == Start(listed)
             s1 == FastStep(s0)
             s2 == FastStep(s1)
             d0 == Start(M)
             d1 == DiverseStep(d0)
             d2 == DiverseStep(d1)
  <2>1. SelectFast(M) = s2.chosen \/ SelectFast(M) = d1.chosen \/ SelectFast(M) = d2.chosen
    BY Zenon DEF SelectFast
  <2>2. 0 \in Nat /\ 0 + 1 \in Nat /\ 0 + 1 + 1 \in Nat /\ 0 + 1 <= 4 /\ 0 + 1 + 1 <= 4
    OBVIOUS
  <2>3. listed \in SUBSET M /\ M \in SUBSET M
    BY Zenon
  <2> HIDE DEF M, listed
  <2>4. Chosen(s0, M, 0) /\ Chosen(d0, M, 0)
    BY <2>3, StartChosen, Zenon
  <2>5. GoodHits(M, n)
    BY DEF M
  <2> HIDE DEF s0, d0
  <2>6. Chosen(s1, M, 0 + 1) /\ Chosen(d1, M, 0 + 1)
    BY <2>2, <2>4, <2>5, FastStepChosen, Zenon
  <2> HIDE DEF s1, d1
  <2>7. Chosen(s2, M, 0 + 1 + 1) /\ Chosen(d2, M, 0 + 1 + 1)
    BY <2>2, <2>5, <2>6, FastStepChosen, Zenon
  <2> HIDE DEF s2, d2, Picks
  <2>8. Picks(s2.chosen, 4) /\ Picks(d1.chosen, 4) /\ Picks(d2.chosen, 4)
    BY <1>1, <2>2, <2>6, <2>7, Zenon
  <2> QED BY <2>1, <2>8, Zenon
<1>3. Picks(SelectResearch(M), 4)
  <2> DEFINE s0 == Start(M)
             s1 == ResearchStep(s0)
             s2 == ResearchStep(s1)
             s3 == ResearchStep(s2)
             s4 == ResearchStep(s3)
  <2>1. SelectResearch(M) = s4.chosen
    BY Zenon DEF SelectResearch
  <2>2. /\ 0 \in Nat /\ 0 + 1 \in Nat /\ 0 + 1 + 1 \in Nat /\ 0 + 1 + 1 + 1 \in Nat
        /\ 0 + 1 + 1 + 1 + 1 \in Nat /\ 0 + 1 + 1 + 1 + 1 <= 4
    OBVIOUS
  <2>3. M \in SUBSET M
    BY Zenon
  <2> HIDE DEF M
  <2>4. Chosen(s0, M, 0)
    BY <2>3, StartChosen, Zenon
  <2>5. GoodHits(M, n)
    BY DEF M
  <2> HIDE DEF s0
  <2>6. Chosen(s1, M, 0 + 1)
    BY <2>2, <2>4, <2>5, ResearchStepChosen, Zenon
  <2> HIDE DEF s1
  <2>7. Chosen(s2, M, 0 + 1 + 1)
    BY <2>2, <2>5, <2>6, ResearchStepChosen, Zenon
  <2> HIDE DEF s2
  <2>8. Chosen(s3, M, 0 + 1 + 1 + 1)
    BY <2>2, <2>5, <2>7, ResearchStepChosen, Zenon
  <2> HIDE DEF s3
  <2>9. Chosen(s4, M, 0 + 1 + 1 + 1 + 1)
    BY <2>2, <2>5, <2>8, ResearchStepChosen, Zenon
  <2> HIDE DEF s4, Picks
  <2>10. Picks(s4.chosen, 4)
    BY <1>1, <2>2, <2>9, Zenon
  <2> QED BY <2>1, <2>10, Zenon
<1>4. SelectHits(H, mode) = SelectFast(M) \/ SelectHits(H, mode) = SelectResearch(M)
  BY Zenon DEF SelectHits
<1>5. Picks(SelectHits(H, mode), 4)
  <2> HIDE DEF M, Picks
  <2> QED BY <1>2, <1>3, <1>4, Zenon
<1> QED BY <1>5 DEF MaxSelectedHits

-----------------------------------------------------------------------------------
(* The adapters.                                                                    *)

\* An adapter asks for a word that no gap has, and one that reads a page which must
\* be recent asks that it is, or asks for words that no fact about such a page has.
AdapterOk(a) ==
  /\ Len(a.asks) \in Nat
  /\ \/ \E w \in a.about : w \notin GapWords
     \/ \A i \in 1..Len(a.asks) : \E w \in a.asks[i].when : w \notin GapWords
  /\ \/ a.fresh
     \/ a.pages # AnyPage /\ a.pages \cap FreshPages = {}
     \/ "number" \in a.about \/ "listed terms" \in a.about
AdaptersOk(s) == IsList(s) /\ \A i \in 1..Len(s) : AdapterOk(s[i])

LEMMA AdaptersConcat ==
    ASSUME NEW s, NEW t, AdaptersOk(s), AdaptersOk(t)
    PROVE  AdaptersOk(s \o t)
<1>1. /\ Len(s) \in Nat /\ Len(t) \in Nat
      /\ s = [i \in 1..Len(s) |-> s[i]] /\ t = [i \in 1..Len(t) |-> t[i]]
  BY Zenon DEF AdaptersOk, IsList
<1>2. /\ Len(s \o t) = Len(s) + Len(t)
      /\ \A i \in 1..(Len(s) + Len(t)) : (s \o t)[i] = IF i <= Len(s) THEN s[i] ELSE t[i - Len(s)]
  BY <1>1, ConcatAt
<1>3. IsList(s \o t)
  BY <1>1, ListConcat, Zenon DEF IsList
<1>4. ASSUME NEW i \in 1..Len(s \o t) PROVE AdapterOk((s \o t)[i])
  <2>1. CASE i <= Len(s)
    <3>1. i \in 1..Len(s) /\ (s \o t)[i] = s[i]
      BY <1>1, <1>2, <1>4, <2>1
    <3> QED BY <3>1, Zenon DEF AdaptersOk
  <2>2. CASE ~(i <= Len(s))
    <3>1. i - Len(s) \in 1..Len(t) /\ (s \o t)[i] = t[i - Len(s)]
      BY <1>1, <1>2, <1>4, <2>2
    <3> QED BY <3>1, Zenon DEF AdaptersOk
  <2> QED BY <2>1, <2>2
<1> QED BY <1>3, <1>4 DEF AdaptersOk
LEMMA AdapterList ==
    ASSUME NEW a, AdapterOk(a)
    PROVE  AdaptersOk(<<a>>)
BY DEF AdaptersOk, IsList

\* An adapter that names a word of its own.
LEMMA NamedAdapter ==
    ASSUME NEW a, Len(a.asks) \in Nat, NEW w \in a.about, w \notin GapWords,
           a.pages # AnyPage, a.pages \cap FreshPages = {}
    PROVE  AdapterOk(a)
BY Zenon DEF AdapterOk
\* The asks made of a list of names.
LEMMA SameAsks ==
    ASSUME NEW names, Len(names) \in Nat
    PROVE  /\ IsList(Same(names)) /\ Len(Same(names)) = Len(names)
           /\ \A i \in 1..Len(names) : Same(names)[i].when = {names[i]}
BY DEF IsList, Same, Ask
LEMMA ListAppend ==
    ASSUME NEW s, IsList(s), NEW x
    PROVE  /\ IsList(Append(s, x)) /\ Len(Append(s, x)) = Len(s) + 1 /\ Len(Append(s, x)) \in Nat
           /\ \A i \in 1..(Len(s) + 1) : Append(s, x)[i] = IF i <= Len(s) THEN s[i] ELSE x
<1>1. Len(s) \in Nat /\ s = [i \in 1..Len(s) |-> s[i]]
  BY Zenon DEF IsList
<1>2. s \in Seq({s[i] : i \in 1..Len(s)} \cup {x})
  <2> DEFINE S == {s[i] : i \in 1..Len(s)} \cup {x}
  <2>1. s \in [1..Len(s) -> S]
    BY <1>1, Zenon
  <2> HIDE DEF S
  <2>2. s \in Seq(S)
    BY <1>1, <2>1
  <2> QED BY <2>2 DEF S
<1> DEFINE S == {s[i] : i \in 1..Len(s)} \cup {x}
<1>3. x \in S
  OBVIOUS
<1> HIDE DEF S
<1>4. Append(s, x) \in Seq(S) /\ Len(Append(s, x)) = Len(s) + 1
  BY <1>2, <1>3 DEF S
<1>5. \A i \in 1..(Len(s) + 1) : Append(s, x)[i] = IF i <= Len(s) THEN s[i] ELSE x
  BY <1>2
<1>6. IsList(Append(s, x))
  BY <1>4, SeqIsList, Zenon
<1> QED BY <1>1, <1>4, <1>5, <1>6
LEMMA dns_registry_ok == AdaptersOk(dns_registry)
<1> DEFINE a == dns_registry[1]
<1>1. dns_registry = <<a>> /\ "dns" \in a.about /\ a.pages # AnyPage /\ a.pages \cap FreshPages = {}
  BY DEF dns_registry, Adapter, AnyPage, FreshPages
<1>2. Len(a.asks) \in Nat
  BY DEF dns_registry, Adapter
<1>3. "dns" \notin GapWords
  BY DEF GapWords
<1> HIDE DEF a
<1>4. AdapterOk(a)
  BY <1>1, <1>2, <1>3, NamedAdapter, Zenon
<1> QED BY <1>1, <1>4, AdapterList, Zenon
LEMMA python_origin_ok == AdaptersOk(python_origin)
<1> DEFINE a == python_origin[1]
<1>1. /\ python_origin = <<a>> /\ "python" \in a.about
      /\ a.pages # AnyPage /\ a.pages \cap FreshPages = {}
  BY DEF python_origin, Adapter, AnyPage, FreshPages
<1>2. Len(a.asks) \in Nat
  BY DEF python_origin, Adapter
<1>3. "python" \notin GapWords
  BY DEF GapWords
<1> HIDE DEF a
<1>4. AdapterOk(a)
  BY <1>1, <1>2, <1>3, NamedAdapter, Zenon
<1> QED BY <1>1, <1>4, AdapterList, Zenon
LEMMA json_literals_ok == AdaptersOk(json_literals)
<1> DEFINE a == json_literals[1]
<1>1. /\ json_literals = <<a>> /\ "json" \in a.about
      /\ a.pages # AnyPage /\ a.pages \cap FreshPages = {}
  BY DEF json_literals, Adapter, AnyPage, FreshPages
<1>2. Len(a.asks) \in Nat
  BY DEF json_literals, Adapter
<1>3. "json" \notin GapWords
  BY DEF GapWords
<1> HIDE DEF a
<1>4. AdapterOk(a)
  BY <1>1, <1>2, <1>3, NamedAdapter, Zenon
<1> QED BY <1>1, <1>4, AdapterList, Zenon
LEMMA cap_theorem_ok == AdaptersOk(cap_theorem)
<1> DEFINE a == cap_theorem[1]
<1>1. cap_theorem = <<a>> /\ "cap" \in a.about /\ a.pages # AnyPage /\ a.pages \cap FreshPages = {}
  BY DEF cap_theorem, Adapter, AnyPage, FreshPages, IbmPages
<1>2. Len(a.asks) \in Nat
  BY DEF cap_theorem, Adapter
<1>3. "cap" \notin GapWords
  BY DEF GapWords
<1> HIDE DEF a
<1>4. AdapterOk(a)
  BY <1>1, <1>2, <1>3, NamedAdapter, Zenon
<1> QED BY <1>1, <1>4, AdapterList, Zenon
LEMMA sqlite_licensing_ok == AdaptersOk(sqlite_licensing)
<1> DEFINE a == sqlite_licensing[1]
<1>1. /\ sqlite_licensing = <<a>> /\ "sqlite" \in a.about
      /\ a.pages # AnyPage /\ a.pages \cap FreshPages = {}
  BY DEF sqlite_licensing, Adapter, AnyPage, FreshPages
<1>2. Len(a.asks) \in Nat
  BY DEF sqlite_licensing, Adapter
<1>3. "sqlite" \notin GapWords
  BY DEF GapWords
<1> HIDE DEF a
<1>4. AdapterOk(a)
  BY <1>1, <1>2, <1>3, NamedAdapter, Zenon
<1> QED BY <1>1, <1>4, AdapterList, Zenon
LEMMA deepseek_pricing_ok == AdaptersOk(deepseek_pricing)
<1> DEFINE a == deepseek_pricing[1]
<1>1. /\ deepseek_pricing = <<a>> /\ "v4 flash" \in a.about
      /\ a.pages # AnyPage /\ a.pages \cap FreshPages = {}
  BY DEF deepseek_pricing, Adapter, AnyPage, FreshPages
<1>2. Len(a.asks) \in Nat
  BY DEF deepseek_pricing, Adapter
<1>3. "v4 flash" \notin GapWords
  BY DEF GapWords
<1> HIDE DEF a
<1>4. AdapterOk(a)
  BY <1>1, <1>2, <1>3, NamedAdapter, Zenon
<1> QED BY <1>1, <1>4, AdapterList, Zenon
LEMMA postgresql_support_ok == AdaptersOk(postgresql_support)
<1> DEFINE a == postgresql_support[1]
<1>1. /\ postgresql_support = <<a>> /\ "supported" \in a.about
      /\ a.pages # AnyPage /\ a.pages \cap FreshPages = {}
  BY DEF postgresql_support, Adapter, AnyPage, FreshPages, Same
<1>2. Len(a.asks) \in Nat
  <2> DEFINE names == [i \in 1..5 |-> Row(i)]
             last == Ask({}, <<"whole table">>)
  <2>1. a.asks = Append(Same(names), last)
    BY DEF postgresql_support, Adapter
  <2>2. Len(names) = 5
    OBVIOUS
  <2> HIDE DEF names, last, a
  <2> QED BY <2>1, <2>2, SameAsks, ListAppend
<1>3. "supported" \notin GapWords
  BY DEF GapWords
<1> HIDE DEF a
<1>4. AdapterOk(a)
  BY <1>1, <1>2, <1>3, NamedAdapter, Zenon
<1> QED BY <1>1, <1>4, AdapterList, Zenon
LEMMA git_file_state_ok == AdaptersOk(git_file_state)
<1> DEFINE a == git_file_state[1]
<1>1. /\ git_file_state = <<a>> /\ "git" \in a.about
      /\ a.pages # AnyPage /\ a.pages \cap FreshPages = {}
  BY DEF git_file_state, Adapter, AnyPage, FreshPages, Same
<1>2. Len(a.asks) \in Nat
  BY DEF git_file_state, Adapter, Same
<1>3. "git" \notin GapWords
  BY DEF GapWords
<1> HIDE DEF a
<1>4. AdapterOk(a)
  BY <1>1, <1>2, <1>3, NamedAdapter, Zenon
<1> QED BY <1>1, <1>4, AdapterList, Zenon
LEMMA git_object_model_ok == AdaptersOk(git_object_model)
<1> DEFINE a == git_object_model[1]
<1>1. /\ git_object_model = <<a>> /\ "git" \in a.about
      /\ a.pages # AnyPage /\ a.pages \cap FreshPages = {}
  BY DEF git_object_model, Adapter, AnyPage, FreshPages
<1>2. Len(a.asks) \in Nat
  BY DEF git_object_model, Adapter
<1>3. "git" \notin GapWords
  BY DEF GapWords
<1> HIDE DEF a
<1>4. AdapterOk(a)
  BY <1>1, <1>2, <1>3, NamedAdapter, Zenon
<1> QED BY <1>1, <1>4, AdapterList, Zenon
LEMMA registry_boolean_ok == AdaptersOk(registry_boolean)
<1> DEFINE a == registry_boolean[1]
<1>1. /\ registry_boolean = <<a>> /\ "method" \in a.about
      /\ a.pages # AnyPage /\ a.pages \cap FreshPages = {}
  BY DEF registry_boolean, Adapter, AnyPage, FreshPages
<1>2. Len(a.asks) \in Nat
  BY DEF registry_boolean, Adapter
<1>3. "method" \notin GapWords
  BY DEF GapWords
<1> HIDE DEF a
<1>4. AdapterOk(a)
  BY <1>1, <1>2, <1>3, NamedAdapter, Zenon
<1> QED BY <1>1, <1>4, AdapterList, Zenon
LEMMA registry_media_type_ok == AdaptersOk(registry_media_type)
<1> DEFINE a == registry_media_type[1]
<1>1. /\ registry_media_type = <<a>> /\ "json" \in a.about
      /\ a.pages # AnyPage /\ a.pages \cap FreshPages = {}
  BY DEF registry_media_type, Adapter, AnyPage, FreshPages
<1>2. Len(a.asks) \in Nat
  BY DEF registry_media_type, Adapter
<1>3. "json" \notin GapWords
  BY DEF GapWords
<1> HIDE DEF a
<1>4. AdapterOk(a)
  BY <1>1, <1>2, <1>3, NamedAdapter, Zenon
<1> QED BY <1>1, <1>4, AdapterList, Zenon
LEMMA sha_digest_size_ok == AdaptersOk(sha_digest_size)
<1> DEFINE a == sha_digest_size[1]
<1>1. /\ sha_digest_size = <<a>> /\ "sha-256" \in a.about
      /\ a.pages # AnyPage /\ a.pages \cap FreshPages = {}
  BY DEF sha_digest_size, Adapter, AnyPage, FreshPages
<1>2. Len(a.asks) \in Nat
  BY DEF sha_digest_size, Adapter
<1>3. "sha-256" \notin GapWords
  BY DEF GapWords
<1> HIDE DEF a
<1>4. AdapterOk(a)
  BY <1>1, <1>2, <1>3, NamedAdapter, Zenon
<1> QED BY <1>1, <1>4, AdapterList, Zenon
LEMMA rfc_protocol_title_ok == AdaptersOk(rfc_protocol_title)
<1> DEFINE a == rfc_protocol_title[1]
<1>1. /\ rfc_protocol_title = <<a>> /\ "tls" \in a.about
      /\ a.pages # AnyPage /\ a.pages \cap FreshPages = {}
  BY DEF rfc_protocol_title, Adapter, AnyPage, FreshPages
<1>2. Len(a.asks) \in Nat
  BY DEF rfc_protocol_title, Adapter
<1>3. "tls" \notin GapWords
  BY DEF GapWords
<1> HIDE DEF a
<1>4. AdapterOk(a)
  BY <1>1, <1>2, <1>3, NamedAdapter, Zenon
<1> QED BY <1>1, <1>4, AdapterList, Zenon
LEMMA rfc3339_utc_ok == AdaptersOk(rfc3339_utc)
<1> DEFINE a == rfc3339_utc[1]
<1>1. /\ rfc3339_utc = <<a>> /\ "rfc 3339" \in a.about
      /\ a.pages # AnyPage /\ a.pages \cap FreshPages = {}
  BY DEF rfc3339_utc, Adapter, AnyPage, FreshPages
<1>2. Len(a.asks) \in Nat
  BY DEF rfc3339_utc, Adapter
<1>3. "rfc 3339" \notin GapWords
  BY DEF GapWords
<1> HIDE DEF a
<1>4. AdapterOk(a)
  BY <1>1, <1>2, <1>3, NamedAdapter, Zenon
<1> QED BY <1>1, <1>4, AdapterList, Zenon
LEMMA postgresql_isolation_ok == AdaptersOk(postgresql_isolation)
<1> DEFINE a == postgresql_isolation[1]
<1>1. /\ postgresql_isolation = <<a>> /\ "isolation" \in a.about
      /\ a.pages # AnyPage /\ a.pages \cap FreshPages = {}
  BY DEF postgresql_isolation, Adapter, AnyPage, FreshPages, Same
<1>2. Len(a.asks) \in Nat
  <2> DEFINE names == <<"read uncommitted", "read committed", "repeatable read", "serializable">>
             last == Ask({"anomaly"}, <<"anomaly table">>)
  <2>1. a.asks = Append(Same(names), last)
    BY DEF postgresql_isolation, Adapter
  <2>2. Len(names) = 4
    OBVIOUS
  <2> HIDE DEF names, last, a
  <2> QED BY <2>1, <2>2, SameAsks, ListAppend
<1>3. "isolation" \notin GapWords
  BY DEF GapWords
<1> HIDE DEF a
<1>4. AdapterOk(a)
  BY <1>1, <1>2, <1>3, NamedAdapter, Zenon
<1> QED BY <1>1, <1>4, AdapterList, Zenon
\* Words of adapters that no report of a gap has.
LEMMA OutsideGaps ==
  /\ "201" \notin GapWords
  /\ "204" \notin GapWords
  /\ "atomicity" \notin GapWords
  /\ "consistency" \notin GapWords
  /\ "isolation" \notin GapWords
  /\ "durability" \notin GapWords
  /\ "rust_latest" \notin GapWords
  /\ "python_latest" \notin GapWords
  /\ "node_lts" \notin GapWords
  /\ "git_latest" \notin GapWords
  /\ "current_release" \notin GapWords
  /\ "bloodhound_tactical_changes" \notin GapWords
  /\ "bloodhound_ultimate_changes" \notin GapWords
  /\ "current_map_rotation" \notin GapWords
  /\ "ranked_rules_changes" \notin GapWords
  /\ "community_bloodhound_meta" \notin GapWords
  /\ "community_team_composition_frequency" \notin GapWords
  /\ "community_team_composition_performance" \notin GapWords
<1>1. "201" \notin GapWords
  BY DEF GapWords
<1>2. "204" \notin GapWords
  BY DEF GapWords
<1>3. "atomicity" \notin GapWords
  BY DEF GapWords
<1>4. "consistency" \notin GapWords
  BY DEF GapWords
<1>5. "isolation" \notin GapWords
  BY DEF GapWords
<1>6. "durability" \notin GapWords
  BY DEF GapWords
<1>7. "rust_latest" \notin GapWords
  BY DEF GapWords
<1>8. "python_latest" \notin GapWords
  BY DEF GapWords
<1>9. "node_lts" \notin GapWords
  BY DEF GapWords
<1>10. "git_latest" \notin GapWords
  BY DEF GapWords
<1>11. "current_release" \notin GapWords
  BY DEF GapWords
<1>12. "bloodhound_tactical_changes" \notin GapWords
  BY DEF GapWords
<1>13. "bloodhound_ultimate_changes" \notin GapWords
  BY DEF GapWords
<1>14. "current_map_rotation" \notin GapWords
  BY DEF GapWords
<1>15. "ranked_rules_changes" \notin GapWords
  BY DEF GapWords
<1>16. "community_bloodhound_meta" \notin GapWords
  BY DEF GapWords
<1>17. "community_team_composition_frequency" \notin GapWords
  BY DEF GapWords
<1>18. "community_team_composition_performance" \notin GapWords
  BY DEF GapWords
<1> QED BY <1>1, <1>2, <1>3, <1>4, <1>5, <1>6, <1>7, <1>8, <1>9, <1>10,
          <1>11, <1>12, <1>13, <1>14, <1>15, <1>16, <1>17, <1>18, Zenon
LEMMA http_created_no_content_ok == AdaptersOk(http_created_no_content)
<1> DEFINE a == http_created_no_content[1]
           x == Ask({"201", "204"}, <<"204", "201">>)
           y == Ask({"201"}, <<"201">>)
           z == Ask({"204"}, <<"204">>)
<1>1. http_created_no_content = <<a>> /\ a.pages # AnyPage /\ a.pages \cap FreshPages = {}
  BY DEF http_created_no_content, Adapter, AnyPage, FreshPages
<1>2. a.asks = <<x, y, z>>
  BY DEF http_created_no_content, Adapter
<1>3. "201" \in x.when /\ "201" \in y.when /\ "204" \in z.when
  BY DEF Ask
<1> HIDE DEF a, x, y, z
<1>4. /\ Len(a.asks) = 3 /\ Len(a.asks) \in Nat
      /\ \A i \in 1..3 : \E w \in a.asks[i].when : w \notin GapWords
  BY <1>2, <1>3, OutsideGaps
<1>5. \A i \in 1..Len(a.asks) : \E w \in a.asks[i].when : w \notin GapWords
  BY <1>4, Zenon
<1>6. AdapterOk(a)
  BY <1>1, <1>4, <1>5, Zenon DEF AdapterOk
<1> QED BY <1>1, <1>6, AdapterList, Zenon
LEMMA acid_property_ok == AdaptersOk(acid_property)
<1> DEFINE a == acid_property[1]
           x == Ask({"atomicity"}, <<"acid_atomicity">>)
           y == Ask({"consistency"}, <<"acid_consistency">>)
           z == Ask({"isolation"}, <<"acid_isolation">>)
           u == Ask({"durability"}, <<"acid_durability">>)
<1>1. acid_property = <<a>> /\ a.pages # AnyPage /\ a.pages \cap FreshPages = {}
  BY DEF acid_property, Adapter, AnyPage, FreshPages, IbmPages
<1>2. a.asks = <<x, y, z, u>>
  BY DEF acid_property, Adapter
<1>3. /\ "atomicity" \in x.when /\ "consistency" \in y.when
      /\ "isolation" \in z.when /\ "durability" \in u.when
  BY DEF Ask
<1> HIDE DEF a, x, y, z, u
<1>4. /\ Len(a.asks) = 4 /\ Len(a.asks) \in Nat
      /\ \A i \in 1..4 : \E w \in a.asks[i].when : w \notin GapWords
  BY <1>2, <1>3, OutsideGaps
<1>5. \A i \in 1..Len(a.asks) : \E w \in a.asks[i].when : w \notin GapWords
  BY <1>4, Zenon
<1>6. AdapterOk(a)
  BY <1>1, <1>4, <1>5, Zenon DEF AdapterOk
<1> QED BY <1>1, <1>6, AdapterList, Zenon
LEMMA explicit_terms_ok == AdaptersOk(explicit_terms)
<1> DEFINE a == explicit_terms[1]
<1>1. explicit_terms = <<a>> /\ "listed terms" \in a.about /\ Len(a.asks) \in Nat
  BY DEF explicit_terms, Adapter
<1>2. "listed terms" \notin GapWords
  BY DEF GapWords
<1> HIDE DEF a
<1>3. AdapterOk(a)
  BY <1>1, <1>2, Zenon DEF AdapterOk
<1> QED BY <1>1, <1>3, AdapterList, Zenon
LEMMA explicit_value_ok == AdaptersOk(explicit_value)
<1> DEFINE a == explicit_value[1]
<1>1. explicit_value = <<a>> /\ "number" \in a.about /\ Len(a.asks) \in Nat
  BY DEF explicit_value, Adapter
<1>2. "number" \notin GapWords
  BY DEF GapWords
<1> HIDE DEF a
<1>3. AdapterOk(a)
  BY <1>1, <1>2, Zenon DEF AdapterOk
<1> QED BY <1>1, <1>3, AdapterList, Zenon
LEMMA reviewed_release_ok == AdaptersOk(reviewed_release)
<1> DEFINE a == reviewed_release[1]
           b == reviewed_release[2]
           c == reviewed_release[3]
           d == reviewed_release[4]
           e == reviewed_release[5]
<1>1. reviewed_release = <<a, b, c, d, e>>
  BY DEF reviewed_release
<1>2. AdapterOk(a)
  <2> DEFINE names == <<"rust_latest">>
  <2>1. a.asks = Same(names) /\ a.pages # AnyPage /\ a.pages \cap FreshPages = {}
    BY DEF reviewed_release, Adapter, AnyPage, FreshPages
  <2>2. Len(names) \in Nat /\ \A i \in 1..Len(names) : names[i] \notin GapWords
    BY OutsideGaps
  <2> HIDE DEF names, a
  <2>3. Len(a.asks) \in Nat /\ \A i \in 1..Len(a.asks) : \E w \in a.asks[i].when : w \notin GapWords
    BY <2>1, <2>2, SameAsks
  <2> QED BY <2>1, <2>3 DEF AdapterOk
<1>3. AdapterOk(b)
  <2> DEFINE names == <<"python_latest">>
  <2>1. b.asks = Same(names) /\ b.pages # AnyPage /\ b.pages \cap FreshPages = {}
    BY DEF reviewed_release, Adapter, AnyPage, FreshPages
  <2>2. Len(names) \in Nat /\ \A i \in 1..Len(names) : names[i] \notin GapWords
    BY OutsideGaps
  <2> HIDE DEF names, b
  <2>3. Len(b.asks) \in Nat /\ \A i \in 1..Len(b.asks) : \E w \in b.asks[i].when : w \notin GapWords
    BY <2>1, <2>2, SameAsks
  <2> QED BY <2>1, <2>3 DEF AdapterOk
<1>4. AdapterOk(c)
  <2> DEFINE names == <<"node_lts">>
  <2>1. c.asks = Same(names) /\ c.pages # AnyPage /\ c.pages \cap FreshPages = {}
    BY DEF reviewed_release, Adapter, AnyPage, FreshPages
  <2>2. Len(names) \in Nat /\ \A i \in 1..Len(names) : names[i] \notin GapWords
    BY OutsideGaps
  <2> HIDE DEF names, c
  <2>3. Len(c.asks) \in Nat /\ \A i \in 1..Len(c.asks) : \E w \in c.asks[i].when : w \notin GapWords
    BY <2>1, <2>2, SameAsks
  <2> QED BY <2>1, <2>3 DEF AdapterOk
<1>5. AdapterOk(d)
  <2> DEFINE names == <<"git_latest">>
  <2>1. d.asks = Same(names) /\ d.pages # AnyPage /\ d.pages \cap FreshPages = {}
    BY DEF reviewed_release, Adapter, AnyPage, FreshPages
  <2>2. Len(names) \in Nat /\ \A i \in 1..Len(names) : names[i] \notin GapWords
    BY OutsideGaps
  <2> HIDE DEF names, d
  <2>3. Len(d.asks) \in Nat /\ \A i \in 1..Len(d.asks) : \E w \in d.asks[i].when : w \notin GapWords
    BY <2>1, <2>2, SameAsks
  <2> QED BY <2>1, <2>3 DEF AdapterOk
<1>6. AdapterOk(e)
  <2> DEFINE names == <<"current_release">>
  <2>1. e.asks = Same(names) /\ e.fresh
    BY DEF reviewed_release, Adapter
  <2>2. Len(names) \in Nat /\ \A i \in 1..Len(names) : names[i] \notin GapWords
    BY OutsideGaps
  <2> HIDE DEF names, e
  <2>3. Len(e.asks) \in Nat /\ \A i \in 1..Len(e.asks) : \E w \in e.asks[i].when : w \notin GapWords
    BY <2>1, <2>2, SameAsks
  <2> QED BY <2>1, <2>3 DEF AdapterOk
<1> HIDE DEF a, b, c, d, e
<1>7. IsList(reviewed_release) /\ \A i \in 1..Len(reviewed_release) : AdapterOk(reviewed_release[i])
  BY <1>1, <1>2, <1>3, <1>4, <1>5, <1>6 DEF IsList
<1> QED BY <1>7, Zenon DEF AdaptersOk
LEMMA apex_reviewed_fact_ok == AdaptersOk(apex_reviewed_fact)
<1> DEFINE a == apex_reviewed_fact[1]
           b == apex_reviewed_fact[2]
           c == apex_reviewed_fact[3]
<1>1. apex_reviewed_fact = <<a, b, c>>
  BY DEF apex_reviewed_fact
<1>2. AdapterOk(a)
  <2> DEFINE names == <<"bloodhound_tactical_changes", "bloodhound_ultimate_changes">>
  <2>1. a.asks = Same(names) /\ a.fresh
    BY DEF apex_reviewed_fact, Adapter
  <2>2. Len(names) \in Nat /\ \A i \in 1..Len(names) : names[i] \notin GapWords
    BY OutsideGaps
  <2> HIDE DEF names, a
  <2>3. Len(a.asks) \in Nat /\ \A i \in 1..Len(a.asks) : \E w \in a.asks[i].when : w \notin GapWords
    BY <2>1, <2>2, SameAsks
  <2> QED BY <2>1, <2>3 DEF AdapterOk
<1>3. AdapterOk(b)
  <2> DEFINE names == <<"current_map_rotation", "ranked_rules_changes">>
  <2>1. b.asks = Same(names) /\ b.fresh
    BY DEF apex_reviewed_fact, Adapter
  <2>2. Len(names) \in Nat /\ \A i \in 1..Len(names) : names[i] \notin GapWords
    BY OutsideGaps
  <2> HIDE DEF names, b
  <2>3. Len(b.asks) \in Nat /\ \A i \in 1..Len(b.asks) : \E w \in b.asks[i].when : w \notin GapWords
    BY <2>1, <2>2, SameAsks
  <2> QED BY <2>1, <2>3 DEF AdapterOk
<1>4. AdapterOk(c)
  <2> DEFINE names == <<"community_bloodhound_meta", "community_team_composition_frequency",
                      "community_team_composition_performance">>
  <2>1. c.asks = Same(names) /\ c.fresh
    BY DEF apex_reviewed_fact, Adapter
  <2>2. Len(names) \in Nat /\ \A i \in 1..Len(names) : names[i] \notin GapWords
    BY OutsideGaps
  <2> HIDE DEF names, c
  <2>3. Len(c.asks) \in Nat /\ \A i \in 1..Len(c.asks) : \E w \in c.asks[i].when : w \notin GapWords
    BY <2>1, <2>2, SameAsks
  <2> QED BY <2>1, <2>3 DEF AdapterOk
<1> HIDE DEF a, b, c
<1>5. IsList(apex_reviewed_fact) /\ \A i \in 1..Len(apex_reviewed_fact) : AdapterOk(apex_reviewed_fact[i])
  BY <1>1, <1>2, <1>3, <1>4 DEF IsList
<1> QED BY <1>5, Zenon DEF AdaptersOk

LEMMA AllAdaptersOk == AdaptersOk(Adapters)
BY AdaptersConcat, dns_registry_ok, python_origin_ok, json_literals_ok,
   http_created_no_content_ok, acid_property_ok, cap_theorem_ok, sqlite_licensing_ok,
   deepseek_pricing_ok, reviewed_release_ok, apex_reviewed_fact_ok, postgresql_support_ok,
   git_file_state_ok, git_object_model_ok, registry_boolean_ok, registry_media_type_ok,
   sha_digest_size_ok, rfc_protocol_title_ok, rfc3339_utc_ok, postgresql_isolation_ok,
   explicit_terms_ok, explicit_value_ok, Zenon DEF Adapters

\* A proposal comes from an adapter that looks at the candidate, and one of whose asks
\* fits the fact.
LEMMA ProposalFrom ==
    ASSUME NEW c, deterministic_proposal(c) # NoProposal
    PROVE  \E a : /\ AdapterOk(a) /\ Looks(a, c)
                  /\ \E j \in 1..Len(a.asks) : a.asks[j].when \subseteq c.fact.text
<1> DEFINE I == {i \in 1..Len(Adapters) : QuoteOf(Adapters[i], c) # Nothing}
           first == SelectInSeq(Adapters, LAMBDA a : QuoteOf(a, c) # Nothing)
<1>1. first # 0
  BY Zenon DEF deterministic_proposal
<1>2. first = IF I # {} THEN Min(I) ELSE 0
  BY Zenon DEF SelectInSeq
<1>3. first \in I
  <2>1. I # {} /\ first = Min(I)
    BY <1>1, <1>2, Zenon
  <2>2. Len(Adapters) \in Nat
    BY AllAdaptersOk, Zenon DEF AdaptersOk, IsList
  <2>3. I \in SUBSET Nat
    BY <2>2
  <2> HIDE DEF I, first
  <2> QED BY <2>1, <2>3, LeastOf
<1> DEFINE a == Adapters[first]
<1>4. AdapterOk(a) /\ QuoteOf(a, c) # Nothing
  <2> HIDE DEF first
  <2> QED BY <1>3, AllAdaptersOk, Zenon DEF AdaptersOk
<1> HIDE DEF a, first, I
<1>5. Looks(a, c)
  BY <1>4, Zenon DEF QuoteOf
<1> DEFINE J == {j \in 1..Len(a.asks) : a.asks[j].when \subseteq c.fact.text}
<1>6. J # {}
  <2>1. SUFFICES ASSUME J = {} PROVE FALSE
    OBVIOUS
  <2>2. SelectInSeq(a.asks, LAMBDA ask : ask.when \subseteq c.fact.text) = 0
    BY <2>1, Zenon DEF SelectInSeq
  <2>3. {k \in 1..Len(<<>>) : <<>>[k] \in c.says} = {}
    <3>1. \A k \in 1..Len(<<>>) : FALSE
      OBVIOUS
    <3> QED BY <3>1, Zenon
  <2>4. SelectInSeq(<<>>, LAMBDA s : s \in c.says) = 0
    BY <2>3, Zenon DEF SelectInSeq
  <2>5. QuoteOf(a, c) = Nothing
    BY <2>2, <2>4, Zenon DEF QuoteOf
  <2> QED BY <1>4, <2>5
<1> QED BY <1>4, <1>5, <1>6, Zenon

\* No adapter quotes anything for a fact that reports a gap.
LEMMA GapsAreSilent ==
    ASSUME NEW c, c.fact.text \subseteq GapWords
    PROVE  deterministic_proposal(c) = NoProposal
<1>1. SUFFICES ASSUME deterministic_proposal(c) # NoProposal PROVE FALSE
  OBVIOUS
<1>2. PICK a : /\ AdapterOk(a) /\ Looks(a, c)
               /\ \E j \in 1..Len(a.asks) : a.asks[j].when \subseteq c.fact.text
  BY <1>1, ProposalFrom, Zenon
<1>3. a.about \subseteq c.fact.text
  BY <1>2, Zenon DEF Looks
<1> QED BY <1>2, <1>3, Zenon DEF AdapterOk

\* Nor is the model shown it.
LEMMA SilentIsWithheld == ASSUME NEW c, Silent(c.fact) PROVE requires_source_set_absence(c)
BY DEF Silent, requires_source_set_absence, AbsenceMarkers

\* No adapter quotes a page that must be recent and is not.
LEMMA StaleIsSilent ==
    ASSUME NEW c, ~c.recent, c.url \in FreshPages,
           "number" \notin c.fact.text, "listed terms" \notin c.fact.text
    PROVE  deterministic_proposal(c) = NoProposal
<1>1. SUFFICES ASSUME deterministic_proposal(c) # NoProposal PROVE FALSE
  OBVIOUS
<1>2. PICK a : AdapterOk(a) /\ Looks(a, c)
  BY <1>1, ProposalFrom, Zenon
<1>3. /\ a.pages = AnyPage \/ c.url \in a.pages
      /\ a.about \subseteq c.fact.text /\ ~a.fresh
  BY <1>2, Zenon DEF Looks
<1>4. a.pages # AnyPage /\ a.pages \cap FreshPages = {}
  BY <1>2, <1>3, Zenon DEF AdapterOk
<1> QED BY <1>3, <1>4

-----------------------------------------------------------------------------------
(* The inductive invariant.                                                         *)

PageStates == {"QUEUED", "FETCHED", "EXTRACTED", "FAILED"}

\* Once the run is planned, its plan is one that a planner makes of the message, and
\* the queries are compiled from it.
PlanInv ==
  /\ IsMessage(request.message)
  /\ \/ step = "PLAN" /\ plan = NoPlan /\ queries = <<>> /\ responses = <<>>
     \/ /\ step \in {"DISCOVERY", "SELECT", "FETCH", "SYNTHESIZE", "DONE"}
        /\ PlanOf(request.message, plan) /\ queries = Compile(plan, request.mode)

\* Every page found so far was found for one of the queries.
FoundHit(h) == \E q \in 1..Len(queries) : FoundFor(h, queries[q], plan.intent.entity)
ResponseInv ==
  /\ IsList(responses) /\ Len(responses) <= Len(queries)
  /\ step = "DISCOVERY" => Len(responses) < Len(queries)
  /\ \A r \in 1..Len(responses) :
       IsList(responses[r].hits) /\ \A k \in 1..Len(responses[r].hits) : FoundHit(responses[r].hits[k])

\* The pages fetched are merged hits, and the order names some of them.
SelectedInv ==
  /\ selected \in Seq(MergeHits(AllHits)) /\ Len(selected) <= MaxSelectedHits
  /\ pages \in Seq(PageStates) /\ Len(pages) = Len(selected)
  /\ order \in Seq(Nat) /\ \A k \in 1..Len(order) : order[k] \in 1..Len(selected)
  /\ step \in {"PLAN", "DISCOVERY", "SELECT"} => selected = <<>> /\ order = <<>>
  /\ step = "SYNTHESIZE" => selected = <<>>

\* A page that failed is recorded as a failure of the run, and at the end no page is
\* left in between.
FailureInv ==
  /\ failed \subseteq {"discovery", "fetch", "extract", "verify"}
  /\ degraded \cup asked \subseteq {"planner", "verifier", "synthesizer"}
  /\ \A i \in 1..Len(pages) : pages[i] = "FAILED" => failed # {}
  /\ step = "DONE" => Terminal(pages)

\* Verification reads documents of pages that were found, and accepts what its
\* candidates back.
DocumentsRead ==
  \A d \in DOMAIN verify.documents : \E h \in MergeHits(AllHits) : verify.documents[d] = Document(h)
VerifyInv ==
  /\ DOMAIN verify = {"status", "documents"}
  /\ verify.status \in {"NONE", "QUEUED", "SUCCEEDED", "FAILED"}
  /\ step \in {"PLAN", "DISCOVERY", "SELECT"} => verify.status = "NONE" /\ verify.documents = <<>>
  /\ DocumentsRead
  /\ verify.status # "SUCCEEDED" => evidence = {}
  /\ EvidenceOk(evidence, Candidates)

\* There is no answer before the end.
AnswerInv ==
  /\ answer.quality \in {"NONE", "COMPLETE", "PARTIAL"}
  /\ step # "DONE" => answer = NoAnswer
  /\ CompleteIsGrounded

IInv == PlanInv /\ ResponseInv /\ SelectedInv /\ FailureInv /\ VerifyInv /\ AnswerInv

LEMMA EmptyList ==
  /\ IsList(<<>>) /\ Len(<<>>) = 0 /\ (\A i \in 1..Len(<<>>) : FALSE) /\ (\A d \in DOMAIN <<>> : FALSE)
  /\ \A S : <<>> \in Seq(S)
<1>1. \A S : <<>> \in Seq(S)
  BY EmptySeq, Zenon
<1> QED BY <1>1 DEF IsList
\* Nothing accepted needs no support.
LEMMA NoEvidence == \A C : EvidenceOk({}, C)
BY Zenon DEF EvidenceOk, Accepted
\* Without an answer there is nothing to ground.
LEMMA NoAnswerYet ==
    ASSUME answer = NoAnswer
    PROVE  CompleteIsGrounded /\ answer.quality = "NONE"
<1>1. answer.quality = "NONE"
  BY DEF NoAnswer
<1> QED BY <1>1 DEF CompleteIsGrounded
LEMMA StillNoAnswer ==
    ASSUME answer = NoAnswer, answer' = answer
    PROVE  AnswerInv'
<1>1. (answer = NoAnswer)'
  BY DEF NoAnswer
<1>2. (answer = NoAnswer => CompleteIsGrounded /\ answer.quality = "NONE")'
  BY NoAnswerYet, PTL
<1> QED BY <1>1, <1>2 DEF AnswerInv

LEMMA InitInv == Init => IInv
<1> SUFFICES ASSUME Init PROVE IInv
  OBVIOUS
<1>1. PlanInv
  <2>1. PICK s \in Scenarios : request = s.request
    BY Zenon DEF Init
  <2>2. IsMessage(request.message)
    BY <2>1, ScenarioAssumption
  <2> QED BY <2>2, Zenon DEF Init, PlanInv
<1>2. ResponseInv
  <2>1. responses = <<>> /\ queries = <<>> /\ step = "PLAN"
    BY Zenon DEF Init
  <2> QED BY <2>1, EmptyList DEF ResponseInv
<1>3. SelectedInv
  <2>1. selected = <<>> /\ pages = <<>> /\ order = <<>> /\ step = "PLAN"
    BY Zenon DEF Init
  <2>2. selected \in Seq(MergeHits(AllHits)) /\ pages \in Seq(PageStates) /\ order \in Seq(Nat)
    BY <2>1, EmptyList, Zenon
  <2>3. Len(selected) = 0 /\ Len(pages) = 0 /\ Len(order) = 0
    BY <2>1
  <2> QED BY <2>1, <2>2, <2>3 DEF SelectedInv, MaxSelectedHits
<1>4. FailureInv
  <2>1. pages = <<>> /\ failed = {} /\ degraded = {} /\ asked = {} /\ step = "PLAN"
    BY Zenon DEF Init
  <2> QED BY <2>1, EmptyList DEF FailureInv
<1>5. VerifyInv
  <2>1. verify = [status |-> "NONE", documents |-> <<>>] /\ evidence = {}
    BY Zenon DEF Init
  <2>2. DOMAIN verify = {"status", "documents"} /\ verify.status = "NONE" /\ verify.documents = <<>>
    BY <2>1
  <2>3. \A d \in DOMAIN verify.documents : FALSE
    BY <2>2, EmptyList, Zenon
  <2>4. EvidenceOk(evidence, Candidates)
    BY <2>1, NoEvidence, Zenon
  <2> QED BY <2>1, <2>2, <2>3, <2>4 DEF VerifyInv, DocumentsRead
<1>6. AnswerInv
  <2>1. answer = NoAnswer
    BY Zenon DEF Init
  <2> QED BY <2>1, NoAnswerYet DEF AnswerInv
<1> QED BY <1>1, <1>2, <1>3, <1>4, <1>5, <1>6 DEF IInv

\* The queries of a plan, and the facts they are for.
LEMMA QueryCount ==
    ASSUME NEW m, IsMessage(m), NEW p, PlanOf(m, p), NEW mode
    PROVE  Len(Compile(p, mode)) \in 1..8
<1>1. Len(p.intent.facts) \in 1..MaxFacts
  BY PlanLength, Zenon
<1>2. QueryLimit("RESEARCH") = 8
  BY DEF QueryLimit
<1> QED BY <1>1, <1>2, CompileType

QueriesFor(p, qs) ==
  \A q \in 1..Len(qs) : /\ qs[q].fact \in 1..Len(p.intent.facts)
                        /\ qs[q].urls = urls_for_fact(p.intent.entity, p.intent.facts[qs[q].fact])
LEMMA QueryFacts ==
    ASSUME NEW m, IsMessage(m), NEW p, PlanOf(m, p), NEW mode
    PROVE  QueriesFor(p, Compile(p, mode))
<1>1. Len(p.intent.facts) \in 1..MaxFacts
  BY PlanLength, Zenon
<1>2. \A q \in 1..Len(Compile(p, mode)) :
        /\ Compile(p, mode)[q].fact \in 1..Len(p.intent.facts)
        /\ Compile(p, mode)[q].urls
             = urls_for_fact(p.intent.entity, p.intent.facts[Compile(p, mode)[q].fact])
  BY <1>1, CompileType
<1> QED BY <1>2, Zenon DEF QueriesFor

\* Planning.
LEMMA PlanKeeps == IInv /\ Plan => IInv'
<1> SUFFICES ASSUME IInv, Plan PROVE IInv'
  OBVIOUS
<1>1. PICK p \in Plans(request.message, Replies, request.max_llm_calls) :
        /\ plan' = p /\ queries' = Compile(p, request.mode)
        /\ asked' = IF p.llm_calls > 0 THEN {"planner"} ELSE {}
        /\ degraded' = IF p.degraded THEN {"planner"} ELSE {}
  BY Zenon DEF Plan
<1>2. /\ step = "PLAN" /\ step' = "DISCOVERY" /\ request' = request /\ responses' = responses
      /\ selected' = selected /\ pages' = pages /\ order' = order /\ verify' = verify
      /\ evidence' = evidence /\ failed' = failed /\ answer' = answer
  BY Zenon DEF Plan
<1>3. PlanInv /\ ResponseInv /\ SelectedInv /\ FailureInv /\ VerifyInv /\ AnswerInv
  BY Zenon DEF IInv
<1>4. IsMessage(request.message) /\ PlanOf(request.message, p)
  BY <1>3, PlansType, Zenon DEF PlanInv
<1>5. PlanInv'
  BY <1>1, <1>2, <1>4, Zenon DEF PlanInv
<1>6. ResponseInv'
  <2>1. responses' = <<>>
    BY <1>2, <1>3 DEF PlanInv
  <2> DEFINE n == Len(queries')
  <2>2. n \in 1..8
    BY <1>1, <1>4, QueryCount, Zenon
  <2>3. 0 < n /\ 0 <= n
    <3> HIDE DEF n
    <3> QED BY <2>2
  <2>4. 0 < Len(queries') /\ 0 <= Len(queries')
    BY <2>3
  <2>5. Len(responses') = 0 /\ IsList(responses') /\ \A r \in 1..Len(responses') : FALSE
    BY <2>1, EmptyList, Zenon
  <2> QED BY <2>4, <2>5 DEF ResponseInv
<1>7. SelectedInv'
  <2>1. selected' = <<>>
    BY <1>2, <1>3 DEF SelectedInv
  <2>2. selected' \in Seq(MergeHits(AllHits)')
    BY <2>1, EmptyList, Zenon
  <2> QED BY <1>2, <1>3, <2>2 DEF SelectedInv
<1>8. FailureInv'
  BY <1>1, <1>2, <1>3 DEF FailureInv
<1>9. VerifyInv'
  <2>1. evidence' = {} /\ verify.documents = <<>>
    BY <1>2, <1>3 DEF VerifyInv
  <2>2. \A d \in DOMAIN verify.documents : FALSE
    BY <2>1, EmptyList, Zenon
  <2>3. EvidenceOk(evidence, Candidates)'
    BY <2>1, NoEvidence, Zenon DEF EvidenceOk
  <2> QED BY <1>2, <1>3, <2>1, <2>2, <2>3 DEF VerifyInv, DocumentsRead
<1>10. AnswerInv'
  BY <1>2, <1>3, StillNoAnswer DEF AnswerInv
<1> QED BY <1>5, <1>6, <1>7, <1>8, <1>9, <1>10 DEF IInv

\* What discovery, selection and the fetches find.
LEMMA QueriesOk ==
    ASSUME PlanInv, step # "PLAN"
    PROVE  /\ DOMAIN Facts = 1..Len(Facts) /\ Len(Facts) \in Nat /\ Len(queries) \in 1..8
           /\ \A q \in 1..Len(queries) :
                /\ queries[q].fact \in 1..Len(Facts)
                /\ queries[q].urls = urls_for_fact(plan.intent.entity, Facts[queries[q].fact])
                /\ IsList(queries[q].urls) /\ queries[q].fact \in 1..8
<1>1. IsMessage(request.message) /\ PlanOf(request.message, plan) /\ queries = Compile(plan, request.mode)
  BY Zenon DEF PlanInv
<1>2. DOMAIN Facts = 1..Len(Facts) /\ Len(Facts) \in 1..MaxFacts
  BY <1>1, PlanLength, Zenon DEF Facts
<1>3. Len(queries) \in 1..8
  BY <1>1, QueryCount, Zenon
<1>4. \A q \in 1..Len(queries) :
        /\ queries[q].fact \in 1..Len(Facts)
        /\ queries[q].urls = urls_for_fact(plan.intent.entity, Facts[queries[q].fact])
  <2>1. \A q \in 1..Len(queries) :
          /\ queries[q].fact \in 1..Len(plan.intent.facts)
          /\ queries[q].urls = urls_for_fact(plan.intent.entity, plan.intent.facts[queries[q].fact])
    <3>1. QueriesFor(plan, queries)
      BY <1>1, QueryFacts, Zenon
    <3> QED BY <3>1, Zenon DEF QueriesFor
  <2> QED BY <2>1, Zenon DEF Facts
<1>5. \A q \in 1..Len(queries) : IsList(queries[q].urls)
  BY <1>4, UrlsListed, Zenon
<1>6. Len(Facts) \in Nat /\ \A q \in 1..Len(queries) : queries[q].fact \in 1..8
  <2>1. \A x \in 1..Len(Facts) : x \in 1..8
    BY <1>2 DEF MaxFacts
  <2>2. Len(Facts) \in Nat
    BY <1>2 DEF MaxFacts
  <2> QED BY <1>4, <2>1, <2>2, Zenon
<1> QED BY <1>2, <1>3, <1>4, <1>5, <1>6, Zenon

LEMMA DiscoverKeeps == IInv /\ Discover => IInv'
<1> SUFFICES ASSUME IInv, Discover PROVE IInv'
  OBVIOUS
<1>1. PlanInv /\ ResponseInv /\ SelectedInv /\ FailureInv /\ VerifyInv /\ AnswerInv
  BY Zenon DEF IInv
<1> DEFINE query == queries[Len(responses) + 1]
           answered == Response(query, plan.intent.entity, world.web)
<1>2. /\ step = "DISCOVERY" /\ request' = request /\ plan' = plan /\ queries' = queries
      /\ selected' = selected /\ pages' = pages /\ order' = order /\ verify' = verify
      /\ evidence' = evidence /\ degraded' = degraded /\ asked' = asked /\ answer' = answer
      /\ step' = IF Len(responses') = Len(queries) THEN "SELECT" ELSE "DISCOVERY"
  BY Zenon DEF Discover
<1>3. PICK r : /\ responses' = Append(responses, r)
               /\ \/ r = answered /\ failed' = failed
                  \/ r = FailedStep /\ failed' = failed \cup {"discovery"}
  BY Zenon DEF Discover
<1>4. PlanInv'
  BY <1>1, <1>2, Zenon DEF PlanInv
<1>5. ResponseInv'
  <2> DEFINE n == Len(responses)
  <2>1. /\ n \in Nat /\ n < Len(queries) /\ Len(queries) \in 1..8
        /\ \A q \in 1..Len(queries) : IsList(queries[q].urls) /\ queries[q].fact \in 1..8
    <3>1. n \in Nat /\ n < Len(queries)
      BY <1>1, <1>2 DEF ResponseInv, IsList
    <3>2. /\ Len(queries) \in 1..8
          /\ \A q \in 1..Len(queries) : IsList(queries[q].urls) /\ queries[q].fact \in 1..8
      <4>1. step # "PLAN"
        BY <1>2
      <4> QED BY <1>1, <4>1, QueriesOk, Zenon
    <3> QED BY <3>1, <3>2, Zenon
  <2>2. n + 1 \in 1..Len(queries)
    <3> HIDE DEF n
    <3> QED BY <2>1
  <2>3. IsList(r.hits) /\ \A k \in 1..Len(r.hits) : FoundHit(r.hits[k])
    <3>1. CASE r = answered
      <4>1. /\ IsList(answered.hits)
            /\ \A k \in 1..Len(answered.hits) : FoundFor(answered.hits[k], query, plan.intent.entity)
        BY <2>1, <2>2, ResponseHits, Zenon
      <4> QED BY <2>2, <3>1, <4>1, Zenon DEF FoundHit
    <3>2. CASE r = FailedStep
      <4>1. r.hits = <<>>
        BY <3>2 DEF FailedStep
      <4> QED BY <4>1, EmptyList, Zenon
    <3> QED BY <1>3, <3>1, <3>2
  <2>4. /\ IsList(responses') /\ Len(responses') = n + 1
        /\ \A i \in 1..(n + 1) : responses'[i] = IF i <= n THEN responses[i] ELSE r
    BY <1>1, <1>3, ListAppend, Zenon DEF ResponseInv
  <2>5. ASSUME NEW i \in 1..Len(responses')
        PROVE  /\ IsList(responses'[i].hits)
               /\ \A k \in 1..Len(responses'[i].hits) : FoundHit(responses'[i].hits[k])
    <3>1. responses'[i] = r \/ (i \in 1..n /\ responses'[i] = responses[i])
      <4> HIDE DEF n
      <4> QED BY <2>1, <2>4, <2>5
    <3> QED BY <1>1, <2>3, <3>1, Zenon DEF ResponseInv
  <2>6. \A h : FoundHit(h)' <=> FoundHit(h)
    BY <1>2, Zenon DEF FoundHit
  <2>7. Len(responses') <= Len(queries') /\ (step' = "DISCOVERY" => Len(responses') < Len(queries'))
    <3> DEFINE k == Len(responses')
               l == Len(queries)
    <3>1. k = n + 1 /\ n < l /\ n \in Nat /\ l \in Nat /\ step' = (IF k = l THEN "SELECT" ELSE "DISCOVERY")
      BY <1>2, <2>1, <2>4
    <3> HIDE DEF n, k, l
    <3>2. k <= l /\ (step' = "DISCOVERY" => k < l)
      BY <3>1
    <3> QED BY <1>2, <3>2 DEF k, l
  <2> QED BY <2>4, <2>5, <2>6, <2>7, Zenon DEF ResponseInv
<1>6. SelectedInv'
  <2>1. selected' = <<>>
    BY <1>1, <1>2 DEF SelectedInv
  <2>2. selected' \in Seq(MergeHits(AllHits)')
    BY <2>1, EmptyList, Zenon
  <2> QED BY <1>1, <1>2, <2>1, <2>2 DEF SelectedInv
<1>7. FailureInv'
  BY <1>1, <1>2, <1>3 DEF FailureInv
<1>8. VerifyInv'
  <2>1. evidence' = {} /\ verify.documents = <<>>
    BY <1>1, <1>2 DEF VerifyInv
  <2>2. \A d \in DOMAIN verify.documents : FALSE
    BY <2>1, EmptyList, Zenon
  <2>3. EvidenceOk(evidence, Candidates)'
    BY <2>1, NoEvidence, Zenon DEF EvidenceOk
  <2> QED BY <1>1, <1>2, <2>1, <2>2, <2>3 DEF VerifyInv, DocumentsRead
<1>9. AnswerInv'
  BY <1>1, <1>2, StillNoAnswer DEF AnswerInv
<1> QED BY <1>4, <1>5, <1>6, <1>7, <1>8, <1>9 DEF IInv

LEMMA HitsFound ==
    ASSUME ResponseInv
    PROVE  IsFiniteSet(AllHits) /\ \A h \in AllHits : FoundHit(h)
<1> DEFINE n == Len(responses)
           S == {ToSet(responses[q].hits) : q \in 1..n}
           f == [q \in 1..n |-> ToSet(responses[q].hits)]
<1>1. n \in Nat /\ \A q \in 1..n : /\ IsList(responses[q].hits)
                                   /\ \A k \in 1..Len(responses[q].hits) : FoundHit(responses[q].hits[k])
  BY Zenon DEF ResponseInv, IsList
<1>2. ASSUME NEW s, IsList(s)
      PROVE  IsFiniteSet(ToSet(s)) /\ \A h \in ToSet(s) : \E k \in 1..Len(s) : h = s[k]
  <2>1. Len(s) \in Nat /\ DOMAIN s = 1..Len(s)
    BY <1>2 DEF IsList
  <2> DEFINE m == Len(s)
             g == [k \in 1..m |-> s[k]]
  <2>2. g \in Surjection(1..m, ToSet(s))
    BY <2>1 DEF Surjection, ToSet
  <2>3. 1 \in Int /\ m \in Int
    BY <2>1
  <2> HIDE DEF m, g
  <2>4. IsFiniteSet(1..m)
    BY <2>3, FS_Interval, Zenon
  <2>5. IsFiniteSet(ToSet(s))
    BY <2>2, <2>4, FS_Surjection, Zenon
  <2> QED BY <2>1, <2>5 DEF ToSet
<1>3. IsFiniteSet(S)
  <2>1. f \in Surjection(1..n, S)
    BY DEF Surjection
  <2>2. 1 \in Int /\ n \in Int
    BY <1>1
  <2> HIDE DEF n, f, S
  <2>3. IsFiniteSet(1..n)
    BY <2>2, FS_Interval, Zenon
  <2> QED BY <2>1, <2>3, FS_Surjection, Zenon
<1>4. ASSUME NEW T \in S PROVE IsFiniteSet(T) /\ \A h \in T : FoundHit(h)
  <2>1. PICK q \in 1..n : T = ToSet(responses[q].hits)
    BY Zenon
  <2> DEFINE s == responses[q].hits
  <2>2. IsList(s) /\ \A k \in 1..Len(s) : FoundHit(s[k])
    BY <1>1, <2>1, Zenon
  <2> HIDE DEF s
  <2>3. T = ToSet(s)
    BY <2>1 DEF s
  <2>4. IsFiniteSet(T) /\ \A h \in T : \E k \in 1..Len(s) : h = s[k]
    BY <1>2, <2>2, <2>3, Zenon
  <2> QED BY <2>2, <2>4, Zenon
<1>5. AllHits = UNION S
  BY Zenon DEF AllHits
<1> HIDE DEF S
<1>6. IsFiniteSet(UNION S)
  BY <1>3, <1>4, FS_UNION, Zenon
<1> QED BY <1>4, <1>5, <1>6, Zenon

\* The merged hits can be ranked, and every fact of one is the fact of a query that
\* found its page.
LEMMA HitsMerged ==
    ASSUME PlanInv, ResponseInv, step # "PLAN"
    PROVE  /\ GoodHits(MergeHits(AllHits), Len(Facts))
           /\ \A m \in MergeHits(AllHits) : \A id \in m.facts :
                \E h \in AllHits : FoundHit(h) /\ h.url = m.url /\ id \in h.facts
<1> DEFINE n == Len(Facts)
<1>1. IsFiniteSet(AllHits) /\ \A h \in AllHits : FoundHit(h)
  BY HitsFound
<1>2. n \in Nat /\ \A q \in 1..Len(queries) : queries[q].fact \in 1..n
  BY QueriesOk, Zenon
<1>3. \A h \in AllHits : GoodHit(h, n)
  BY <1>1, <1>2, FoundIsGood, Zenon DEF FoundHit
<1> HIDE DEF n
<1>4. \A m \in MergeHits(AllHits) :
        GoodHit(m, n) /\ \A id \in m.facts : \E h \in AllHits : h.url = m.url /\ id \in h.facts
  BY <1>1, <1>3, Merged, Zenon
<1>5. GoodHits(MergeHits(AllHits), n)
  BY <1>1, <1>2, <1>4, MergedFinite, Zenon DEF GoodHits
<1> QED BY <1>1, <1>4, <1>5, Zenon DEF n

\* What does not depend on the steps taken since.
LEMMA SameDocument ==
    ASSUME world' = world
    PROVE  \A h : Document(h)' = Document(h)
<1>1. \A p : How(p)' = How(p)
  BY Zenon DEF How
<1>2. \A p : FinalUrl(p)' = FinalUrl(p) /\ FinalSite(p)' = FinalSite(p)
  BY <1>1, Zenon DEF FinalUrl, FinalSite
<1>3. \A p : Chunks(p)' = Chunks(p)
  BY <1>1, Zenon DEF Chunks
<1> QED BY <1>1, <1>2, <1>3, Zenon DEF Document

LEMMA DocumentsKept ==
    ASSUME DocumentsRead, world' = world, AllHits' = AllHits, verify'.documents = verify.documents
    PROVE  DocumentsRead'
<1>1. MergeHits(AllHits)' = MergeHits(AllHits)
  BY Zenon
<1>2. ASSUME NEW d \in DOMAIN verify.documents
      PROVE  \E h \in MergeHits(AllHits)' : verify'.documents[d] = Document(h)'
  <2>1. PICK h \in MergeHits(AllHits) : verify.documents[d] = Document(h)
    BY Zenon DEF DocumentsRead
  <2>2. Document(h)' = Document(h)
    BY SameDocument, Zenon
  <2> QED BY <1>1, <2>1, <2>2, Zenon
<1> QED BY <1>2, Zenon DEF DocumentsRead

LEMMA SelectKeeps == IInv /\ Select => IInv'
<1> SUFFICES ASSUME IInv, Select PROVE IInv'
  OBVIOUS
<1>1. PlanInv /\ ResponseInv /\ SelectedInv /\ FailureInv /\ VerifyInv /\ AnswerInv
  BY Zenon DEF IInv
<1>2. /\ step = "SELECT" /\ request' = request /\ world' = world /\ plan' = plan /\ queries' = queries
      /\ responses' = responses /\ order' = order /\ verify' = verify /\ evidence' = evidence
      /\ degraded' = degraded /\ asked' = asked /\ failed' = failed /\ answer' = answer
      /\ selected' = SelectHits(AllHits, request.mode)
      /\ pages' = [i \in 1..Len(selected') |-> "QUEUED"]
      /\ step' = IF selected' = <<>> THEN "SYNTHESIZE" ELSE "FETCH"
  BY Zenon DEF Select
<1>3. AllHits' = AllHits
  BY <1>2, Zenon DEF AllHits
<1>4. selected' \in Seq(MergeHits(AllHits)) /\ Len(selected') <= MaxSelectedHits
  BY <1>1, <1>2, HitsMerged, SelectHitsType, Zenon
<1>5. /\ pages' \in Seq(PageStates) /\ Len(pages') = Len(selected')
      /\ \A i \in 1..Len(pages') : pages'[i] = "QUEUED"
  BY <1>2, <1>4 DEF PageStates
<1>6. step' \in {"FETCH", "SYNTHESIZE"} /\ (step' = "SYNTHESIZE" => selected' = <<>>)
  BY <1>2
<1>7. PlanInv'
  BY <1>1, <1>2, <1>6 DEF PlanInv
<1>8. ResponseInv'
  BY <1>1, <1>2, <1>6 DEF ResponseInv, FoundHit
<1>9. SelectedInv'
  <2>1. order' = <<>>
    BY <1>1, <1>2 DEF SelectedInv
  <2>2. order' \in Seq(Nat) /\ \A k \in 1..Len(order') : FALSE
    BY <2>1, EmptyList, Zenon
  <2> QED BY <1>3, <1>4, <1>5, <1>6, <2>2 DEF SelectedInv
<1>10. FailureInv'
  BY <1>1, <1>2, <1>5, <1>6 DEF FailureInv
<1>11. VerifyInv'
  <2>1. evidence' = {} /\ verify.documents = <<>>
    BY <1>1, <1>2 DEF VerifyInv
  <2>2. \A d \in DOMAIN verify.documents : FALSE
    BY <2>1, EmptyList, Zenon
  <2>3. EvidenceOk(evidence, Candidates)'
    BY <2>1, NoEvidence, Zenon DEF EvidenceOk
  <2> QED BY <1>1, <1>2, <2>1, <2>2, <2>3 DEF VerifyInv, DocumentsRead
<1>12. AnswerInv'
  BY <1>1, <1>2, StillNoAnswer DEF AnswerInv
<1> QED BY <1>7, <1>8, <1>9, <1>10, <1>11, <1>12 DEF IInv

\* One step of one page: its new state, the fetches that ended, and the verification
\* it may release.
PageMoves(i, state) ==
  /\ step = "FETCH" /\ step' = step /\ state \in {"FETCHED", "EXTRACTED", "FAILED"}
  /\ pages' = [pages EXCEPT ![i] = state]
  /\ order' = order \/ order' = Append(order, i)
  /\ \/ failed' = failed /\ state # "FAILED"
     \/ failed' = failed \cup {"fetch"} \/ failed' = failed \cup {"extract"}
  /\ \/ verify' = verify
     \/ /\ verify.status = "NONE"
        /\ verify' = [status |-> "QUEUED",
                      documents |-> [k \in Extracted(pages', order') |-> Document(selected[order'[k]])]]
  /\ request' = request /\ world' = world /\ plan' = plan /\ queries' = queries
  /\ responses' = responses /\ selected' = selected /\ evidence' = evidence
  /\ degraded' = degraded /\ asked' = asked /\ answer' = answer

LEMMA PageStepMoves ==
    ASSUME NEW i \in 1..Len(pages), Fetch(i) \/ Extract(i)
    PROVE  \E state : PageMoves(i, state)
<1>1. step = "FETCH"
  BY Zenon DEF Fetch, Extract
<1>2. /\ \E state \in {"FETCHED", "EXTRACTED", "FAILED"} :
           \E error : PageStep(i, state, order, error) \/ PageStep(i, state, Append(order, i), error)
  BY DEF Fetch, Extract
<1>3. PICK state \in {"FETCHED", "EXTRACTED", "FAILED"} :
           \E error : PageStep(i, state, order, error) \/ PageStep(i, state, Append(order, i), error)
  BY <1>2
<1>4. PICK error : PageStep(i, state, order, error) \/ PageStep(i, state, Append(order, i), error)
  BY <1>3
<1>5. /\ pages' = [pages EXCEPT ![i] = state]
      /\ order' = order \/ order' = Append(order, i)
      /\ step' = step /\ request' = request /\ world' = world /\ plan' = plan /\ queries' = queries
      /\ responses' = responses /\ selected' = selected /\ evidence' = evidence
      /\ degraded' = degraded /\ asked' = asked /\ answer' = answer
  BY <1>4, Zenon DEF PageStep
<1>6. \/ failed' = failed /\ state # "FAILED"
      \/ failed' = failed \cup {"fetch"} \/ failed' = failed \cup {"extract"}
  BY <1>4, Zenon DEF PageStep
<1>7. verify' = verify \/ verify' = maybe_verify(pages', order')
  BY <1>4, Zenon DEF PageStep
<1>8. \/ verify' = verify
      \/ /\ verify.status = "NONE"
         /\ verify' = [status |-> "QUEUED",
                       documents |-> [k \in Extracted(pages', order') |-> Document(selected[order'[k]])]]
  BY <1>7, Zenon DEF maybe_verify
<1>9. PageMoves(i, state)
  BY <1>1, <1>3, <1>5, <1>6, <1>8, Zenon DEF PageMoves
<1> QED BY <1>9

LEMMA PageKeeps == ASSUME IInv, NEW i \in 1..Len(pages), Fetch(i) \/ Extract(i) PROVE IInv'
<1>1. PICK state : PageMoves(i, state)
  BY PageStepMoves, Zenon
<1>2. PlanInv /\ ResponseInv /\ SelectedInv /\ FailureInv /\ VerifyInv /\ AnswerInv
  BY Zenon DEF IInv
<1>3. /\ step = "FETCH" /\ step' = step /\ request' = request /\ world' = world /\ plan' = plan
      /\ queries' = queries /\ responses' = responses /\ selected' = selected /\ evidence' = evidence
      /\ degraded' = degraded /\ asked' = asked /\ answer' = answer
  BY <1>1, Zenon DEF PageMoves
<1>4. AllHits' = AllHits
  BY <1>3, Zenon DEF AllHits
<1>5. PlanInv'
  BY <1>2, <1>3, Zenon DEF PlanInv
<1>6. ResponseInv'
  BY <1>2, <1>3, Zenon DEF ResponseInv, FoundHit
<1>7. /\ state \in PageStates /\ pages' = [pages EXCEPT ![i] = state]
      /\ order' = order \/ order' = Append(order, i)
  BY <1>1 DEF PageMoves, PageStates
<1>8. pages \in Seq(PageStates) /\ Len(pages) = Len(selected) /\ order \in Seq(Nat)
  BY <1>2, Zenon DEF SelectedInv
<1>9. /\ pages' \in Seq(PageStates) /\ Len(pages') = Len(pages)
      /\ \A j \in 1..Len(pages) : pages'[j] = IF j = i THEN state ELSE pages[j]
  BY <1>7, <1>8
<1>10. order' \in Seq(Nat) /\ \A k \in 1..Len(order') : order'[k] \in 1..Len(selected)
  <2>1. CASE order' = order
    BY <1>2, <2>1 DEF SelectedInv
  <2>2. CASE order' = Append(order, i)
    <3>1. i \in Nat /\ i \in 1..Len(selected) /\ \A k \in 1..Len(order) : order[k] \in 1..Len(selected)
      BY <1>2, <1>8 DEF SelectedInv
    <3>2. /\ order' \in Seq(Nat) /\ Len(order') = Len(order) + 1 /\ Len(order) \in Nat
          /\ \A k \in 1..(Len(order) + 1) : order'[k] = IF k <= Len(order) THEN order[k] ELSE i
      BY <1>8, <2>2, <3>1
    <3> QED BY <3>1, <3>2
  <2> QED BY <1>7, <2>1, <2>2
<1>11. SelectedInv'
  <2>1. selected' \in Seq(MergeHits(AllHits)') /\ Len(selected') <= MaxSelectedHits
    BY <1>2, <1>3, <1>4 DEF SelectedInv
  <2> QED BY <1>3, <1>8, <1>9, <1>10, <2>1 DEF SelectedInv
<1>12. FailureInv'
  <2>1. /\ failed' = failed \/ failed' = failed \cup {"fetch"} \/ failed' = failed \cup {"extract"}
        /\ state = "FAILED" => failed' # {}
    BY <1>1 DEF PageMoves
  <2>2. ASSUME NEW j \in 1..Len(pages'), pages'[j] = "FAILED" PROVE failed' # {}
    <3>1. state = "FAILED" \/ pages[j] = "FAILED"
      BY <1>9, <2>2
    <3>2. \A k \in 1..Len(pages) : pages[k] = "FAILED" => failed # {}
      BY <1>2, Zenon DEF FailureInv
    <3>3. j \in 1..Len(pages)
      BY <1>9, Zenon
    <3> QED BY <2>1, <3>1, <3>2, <3>3
  <2>3. failed \subseteq {"discovery", "fetch", "extract", "verify"}
    BY <1>2, Zenon DEF FailureInv
  <2>4. failed' \subseteq {"discovery", "fetch", "extract", "verify"}
    BY <2>1, <2>3
  <2>5. (degraded \cup asked \subseteq {"planner", "verifier", "synthesizer"})'
    BY <1>2, <1>3, Zenon DEF FailureInv
  <2> QED BY <1>3, <2>2, <2>4, <2>5 DEF FailureInv
<1>13. VerifyInv'
  <2>1. CASE verify' = verify
    <3>1. EvidenceOk(evidence, Candidates)'
      <4>1. Candidates' = Candidates
        BY <1>3, <2>1, Zenon DEF Candidates, Facts
      <4>2. EvidenceOk(evidence', Candidates')
        BY <1>2, <1>3, <4>1, Zenon DEF VerifyInv
      <4> QED BY <4>2, Zenon DEF EvidenceOk
    <3>2. DocumentsRead'
      BY <1>2, <1>3, <1>4, <2>1, DocumentsKept, Zenon DEF VerifyInv
    <3> QED BY <1>2, <1>3, <2>1, <3>1, <3>2 DEF VerifyInv
  <2>2. CASE /\ verify.status = "NONE"
             /\ verify' = [status |-> "QUEUED",
                           documents |-> [k \in Extracted(pages', order') |-> Document(selected[order'[k]])]]
    <3> DEFINE read == Extracted(pages', order')
    <3>1. evidence' = {}
      BY <1>2, <1>3, <2>2 DEF VerifyInv
    <3>2. EvidenceOk(evidence, Candidates)'
      BY <3>1, NoEvidence, Zenon DEF EvidenceOk
    <3>3. /\ DOMAIN verify' = {"status", "documents"} /\ verify'.status = "QUEUED"
          /\ verify'.documents = [k \in read |-> Document(selected[order'[k]])]
      <4> HIDE DEF read
      <4> QED BY <2>2 DEF read
    <3>4. ASSUME NEW k \in read PROVE selected[order'[k]] \in MergeHits(AllHits)
      <4>1. k \in 1..Len(order')
        BY Zenon DEF Extracted
      <4>2. order'[k] \in 1..Len(selected)
        BY <1>10, <4>1, Zenon
      <4>3. selected \in Seq(MergeHits(AllHits))
        BY <1>2, Zenon DEF SelectedInv
      <4> QED BY <4>2, <4>3, ElementOfSeq, Zenon
    <3> HIDE DEF read
    <3>5. DocumentsRead'
      <4> DEFINE docs == [k \in read |-> Document(selected[order'[k]])]
      <4>1. \A d \in DOMAIN docs : \E h \in MergeHits(AllHits) : docs[d] = Document(h)
        BY <3>4, Zenon
      <4>2. verify'.documents = docs
        BY <3>3, Zenon
      <4> HIDE DEF docs
      <4> QED BY <1>3, <1>4, <4>1, <4>2, SameDocument, Zenon DEF DocumentsRead
    <3> QED BY <1>3, <3>1, <3>2, <3>3, <3>5 DEF VerifyInv
  <2> QED BY <1>1, <2>1, <2>2, Zenon DEF PageMoves
<1>14. AnswerInv'
  BY <1>2, <1>3, StillNoAnswer DEF AnswerInv
<1> QED BY <1>5, <1>6, <1>11, <1>12, <1>13, <1>14 DEF IInv

\* Verifying.
LEMMA VerifyKeeps == IInv /\ (Verify \/ VerifyFails) => IInv'
<1> SUFFICES ASSUME IInv, Verify \/ VerifyFails PROVE IInv'
  OBVIOUS
<1>1. PlanInv /\ ResponseInv /\ SelectedInv /\ FailureInv /\ VerifyInv /\ AnswerInv
  BY Zenon DEF IInv
<1>2. /\ step = "FETCH" /\ verify.status = "QUEUED"
      /\ request' = request /\ world' = world /\ step' = step /\ plan' = plan /\ queries' = queries
      /\ responses' = responses /\ selected' = selected /\ pages' = pages /\ order' = order
      /\ answer' = answer
  BY Zenon DEF Verify, Verified, VerifyFails
<1>3. /\ DOMAIN verify' = {"status", "documents"} /\ verify'.documents = verify.documents
      /\ \/ verify'.status = "SUCCEEDED" /\ Verify
         \/ verify'.status = "FAILED" /\ evidence' = evidence
  <2>1. \/ verify' = [verify EXCEPT !.status = "SUCCEEDED"] /\ Verify
        \/ verify' = [verify EXCEPT !.status = "FAILED"] /\ evidence' = evidence
    BY Zenon DEF Verify, Verified, VerifyFails
  <2>2. DOMAIN verify = {"status", "documents"}
    BY <1>1, Zenon DEF VerifyInv
  <2> QED BY <2>1, <2>2
<1>4. AllHits' = AllHits /\ Candidates' = Candidates
  BY <1>2, <1>3, Zenon DEF AllHits, Candidates, Facts
<1>5. PlanInv'
  BY <1>1, <1>2, Zenon DEF PlanInv
<1>6. ResponseInv'
  BY <1>1, <1>2, Zenon DEF ResponseInv, FoundHit
<1>7. SelectedInv'
  BY <1>1, <1>2, <1>4 DEF SelectedInv
<1>8. FailureInv'
  <2>1. /\ degraded' = degraded \/ degraded' = degraded \cup {"verifier"} \/ degraded' = degraded \cup {}
        /\ asked' = asked \/ asked' = asked \cup {"verifier"} \/ asked' = asked \cup {}
        /\ failed' = failed \/ failed' = failed \cup {"verify"}
    BY Zenon DEF Verify, Verified, VerifyFails
  <2> QED BY <1>1, <1>2, <2>1 DEF FailureInv
<1>9. VerifyInv'
  <2>1. DocumentsRead'
    BY <1>1, <1>2, <1>3, <1>4, DocumentsKept, Zenon DEF VerifyInv
  <2>2. EvidenceOk(evidence', Candidates')
    <3>1. CASE Verify
      BY <1>4, <3>1, VerifiedIsBacked, Zenon
    <3>2. CASE evidence' = evidence
      BY <1>1, <1>4, <3>2, Zenon DEF VerifyInv
    <3> QED BY <1>3, <3>1, <3>2
  <2>3. EvidenceOk(evidence, Candidates)'
    BY <2>2, Zenon DEF EvidenceOk
  <2>4. verify'.status # "SUCCEEDED" => evidence' = {}
    BY <1>1, <1>2, <1>3 DEF VerifyInv
  <2> QED BY <1>2, <1>3, <2>1, <2>3, <2>4 DEF VerifyInv
<1>10. AnswerInv'
  BY <1>1, <1>2, StillNoAnswer DEF AnswerInv
<1> QED BY <1>5, <1>6, <1>7, <1>8, <1>9, <1>10 DEF IInv

\* Every proposed claim cites accepted evidence.
Citing(claims) ==
  \A c \in claims :
    \E id, cited, text : c = Claim(id, cited, text) /\ cited \subseteq Accepted(evidence)
LEMMA ProposalsCite == Citing(_fallback) /\ \A claims \in ModelClaims : Citing(claims)
<1>1. \A id : SupportsFor(id) \subseteq Accepted(evidence) /\ AcceptedFor(id) \subseteq Accepted(evidence)
  BY Zenon DEF SupportsFor, AcceptedFor
<1>2. Citing(_fallback)
  BY <1>1, Zenon DEF Citing, _fallback
<1> DEFINE one(id) == {CHOOSE i \in AcceptedFor(id) : TRUE}
<1>3. ASSUME NEW id \in EvidencedFacts PROVE one(id) \subseteq Accepted(evidence)
  <2>1. PICK i \in Accepted(evidence) : i.id = id
    BY Zenon DEF EvidencedFacts
  <2>2. i \in AcceptedFor(id)
    BY <2>1, Zenon DEF AcceptedFor
  <2>3. (CHOOSE x \in AcceptedFor(id) : TRUE) \in AcceptedFor(id)
    BY <2>2, Zenon
  <2> QED BY <1>1, <2>3, Zenon
<1>4. Citing({Claim(id, AcceptedFor(id), ModelText) : id \in EvidencedFacts})
  BY <1>1, Zenon DEF Citing
<1>5. Citing({Claim(id, one(id), ModelText) : id \in EvidencedFacts})
  <2> HIDE DEF one
  <2> QED BY <1>3, Zenon DEF Citing
<1> QED BY <1>2, <1>4, <1>5, Zenon DEF ModelClaims

\* A validated claim cites accepted evidence of its own fact.
LEMMA ValidatedCites ==
    ASSUME NEW proposals, Citing(proposals), NEW c \in Validated(proposals), NEW i \in c.cited
    PROVE  i \in Accepted(evidence) /\ i.id = c.fact
<1>1. PICK p \in proposals :
        c = LET valid == {x \in p.cited : x.verdict = "ACCEPTED" /\ x.id = p.fact}
            IN  [p EXCEPT !.cited = valid, !.kind = IF valid = {} THEN "UNCERTAINTY" ELSE "FACTUAL"]
  BY Zenon DEF Validated
<1>2. PICK id, cited, text : p = Claim(id, cited, text) /\ cited \subseteq Accepted(evidence)
  BY Zenon DEF Citing
<1> DEFINE valid == {x \in p.cited : x.verdict = "ACCEPTED" /\ x.id = p.fact}
           kind == IF valid = {} THEN "UNCERTAINTY" ELSE "FACTUAL"
<1>3. c = [p EXCEPT !.cited = valid, !.kind = kind]
  BY <1>1, Zenon
<1> HIDE DEF valid, kind
<1>4. c.cited = valid /\ c.fact = p.fact /\ p.cited = cited
  BY <1>2, <1>3 DEF Claim
<1> QED BY <1>2, <1>4, Zenon DEF valid

\* Accepted evidence quotes a document that was read for its fact.
LEMMA EvidenceWasRead ==
    ASSUME EvidenceOk(evidence, Candidates), NEW i \in Accepted(evidence)
    PROVE  i.url \in ReadFor(i.id)
<1>1. PICK c \in Candidates : Backed(i, c)
  BY Zenon DEF EvidenceOk
<1>2. ReadFrom(c, plan.intent.entity, Facts, verify.documents)
  BY CandidateOrigin, Zenon DEF Candidates
<1>3. PICK id \in DOMAIN Facts : \E d \in DOMAIN verify.documents :
         /\ id \in verify.documents[d].facts
         /\ \E k : c = Candidate(id, Facts[id], plan.intent.entity, verify.documents[d], d, k)
  BY <1>2, Zenon DEF ReadFrom
<1>4. PICK d \in DOMAIN verify.documents :
         /\ id \in verify.documents[d].facts
         /\ \E k : c = Candidate(id, Facts[id], plan.intent.entity, verify.documents[d], d, k)
  BY <1>3, Zenon
<1>5. c.id = id /\ c.url = verify.documents[d].url
  BY <1>4 DEF Candidate
<1>6. i.id = id /\ i.url = verify.documents[d].url
  BY <1>1, <1>5, Zenon DEF Backed
<1> QED BY <1>4, <1>6, Zenon DEF ReadFor, ToSet

\* Writing the answer.
LEMMA WriteGrounds ==
    ASSUME FailureInv, VerifyInv, Terminal(pages), NEW proposals, Citing(proposals),
           NEW fallback, NEW roles, Write(proposals, fallback, roles),
           plan' = plan /\ verify' = verify /\ evidence' = evidence /\ failed' = failed /\ pages' = pages
    PROVE  /\ CompleteIsGrounded' /\ answer'.quality \in {"NONE", "COMPLETE", "PARTIAL"}
           /\ degraded' = degraded \cup fallback /\ asked' = asked \cup roles
<1> DEFINE claims == Validated(proposals)
           fallbacks == degraded \cup fallback
           complete == IsComplete(claims, fallbacks)
<1>1. PICK late \in BOOLEAN :
        /\ answer' = [quality |-> IF complete THEN "COMPLETE" ELSE "PARTIAL",
                      reason |-> StopReason(claims, fallbacks, late),
                      claims |-> claims, missing |-> Required \ Supported(claims),
                      degraded |-> fallbacks # {} \/ failed # {}]
        /\ degraded' = fallbacks /\ asked' = asked \cup roles
  BY Zenon DEF Write
<1>2. ASSUME NEW c \in claims, NEW i \in c.cited PROVE i \in Accepted(evidence) /\ i.id = c.fact
  BY <1>2, ValidatedCites, Zenon
<1> HIDE DEF claims, complete
<1>3. answer'.quality = (IF complete THEN "COMPLETE" ELSE "PARTIAL") /\ answer'.claims = claims
  BY <1>1
<1>4. ASSUME answer'.quality = "COMPLETE"
      PROVE  /\ \A id \in Required : \E c \in claims : c.fact = id /\ c.cited # {}
             /\ \A c \in claims : \A i \in c.cited :
                  /\ i \in Accepted(evidence) /\ i.id = c.fact /\ i.url \in ReadFor(c.fact)
             /\ fallbacks = {} /\ failed = {} /\ \A i \in 1..Len(pages) : pages[i] = "EXTRACTED"
  <2>1. Required \subseteq Supported(claims) /\ fallbacks = {} /\ failed = {}
    <3>1. complete
      BY <1>3, <1>4
    <3> QED BY <3>1, Zenon DEF complete, IsComplete
  <2>2. \A id \in Required : \E c \in claims : c.fact = id /\ c.cited # {}
    BY <2>1, Zenon DEF Supported
  <2>3. \A c \in claims : \A i \in c.cited :
          i \in Accepted(evidence) /\ i.id = c.fact /\ i.url \in ReadFor(c.fact)
    BY <1>2, EvidenceWasRead, Zenon DEF VerifyInv
  <2>4. \A i \in 1..Len(pages) : pages[i] = "EXTRACTED"
    BY <2>1 DEF Terminal, FailureInv
  <2> QED BY <2>1, <2>2, <2>3, <2>4
<1>5. Required' = Required /\ \A id : ReadFor(id)' = ReadFor(id)
  BY Zenon DEF Required, FactIds, Facts, ReadFor
<1>6. Accepted(evidence)' = Accepted(evidence)
  BY Zenon DEF Accepted
<1>7. CompleteIsGrounded'
  BY <1>1, <1>3, <1>4, <1>5, <1>6, Zenon DEF CompleteIsGrounded
<1> QED BY <1>1, <1>3, <1>7

LEMMA SynthesizeKeeps == IInv /\ Synthesize => IInv'
<1> SUFFICES ASSUME IInv, Synthesize PROVE IInv'
  OBVIOUS
<1>1. PlanInv /\ ResponseInv /\ SelectedInv /\ FailureInv /\ VerifyInv /\ AnswerInv
  BY Zenon DEF IInv
<1>2. /\ AllStepsEnded /\ step' = "DONE"
      /\ request' = request /\ world' = world /\ plan' = plan /\ queries' = queries
      /\ responses' = responses /\ selected' = selected /\ pages' = pages /\ order' = order
      /\ verify' = verify /\ evidence' = evidence /\ failed' = failed
  BY Zenon DEF Synthesize
<1>3. step \in {"FETCH", "SYNTHESIZE"} /\ Terminal(pages)
  <2>1. CASE step = "SYNTHESIZE"
    <3>1. Len(pages) = 0
      BY <1>1, <2>1 DEF SelectedInv
    <3> QED BY <2>1, <3>1 DEF Terminal
  <2> QED BY <1>2, <2>1 DEF AllStepsEnded
<1>4. PICK proposals : /\ Citing(proposals)
                       /\ \E fallback, roles \in {{}, {"synthesizer"}} : Write(proposals, fallback, roles)
  BY ProposalsCite, Zenon DEF Synthesize
<1>5. PICK fallback \in {{}, {"synthesizer"}}, roles \in {{}, {"synthesizer"}} :
        Write(proposals, fallback, roles)
  BY <1>4, Zenon
<1>6. /\ CompleteIsGrounded' /\ answer'.quality \in {"NONE", "COMPLETE", "PARTIAL"}
      /\ degraded' = degraded \cup fallback /\ asked' = asked \cup roles
  BY <1>1, <1>2, <1>3, <1>4, <1>5, WriteGrounds, Zenon
<1>7. AllHits' = AllHits /\ Candidates' = Candidates
  BY <1>2, Zenon DEF AllHits, Candidates, Facts
<1>8. PlanInv'
  BY <1>1, <1>2, <1>3 DEF PlanInv
<1>9. ResponseInv'
  BY <1>1, <1>2 DEF ResponseInv, FoundHit
<1>10. SelectedInv'
  BY <1>1, <1>2, <1>7 DEF SelectedInv
<1>11. FailureInv'
  BY <1>1, <1>2, <1>3, <1>5, <1>6 DEF FailureInv, Terminal
<1>12. VerifyInv'
  <2>1. DocumentsRead'
    BY <1>1, <1>2, <1>7, DocumentsKept, Zenon DEF VerifyInv
  <2>2. EvidenceOk(evidence', Candidates')
    BY <1>1, <1>2, <1>7, Zenon DEF VerifyInv
  <2>3. EvidenceOk(evidence, Candidates)'
    BY <2>2, Zenon DEF EvidenceOk
  <2> QED BY <1>1, <1>2, <2>1, <2>3 DEF VerifyInv
<1>13. AnswerInv'
  BY <1>2, <1>6 DEF AnswerInv
<1> QED BY <1>8, <1>9, <1>10, <1>11, <1>12, <1>13 DEF IInv

\* Nothing changes.
LEMMA StutterKeeps == IInv /\ UNCHANGED vars => IInv'
<1> SUFFICES ASSUME IInv, UNCHANGED vars PROVE IInv'
  OBVIOUS
<1>1. PlanInv /\ ResponseInv /\ SelectedInv /\ FailureInv /\ VerifyInv /\ AnswerInv
  BY Zenon DEF IInv
<1>2. /\ request' = request /\ world' = world /\ step' = step /\ plan' = plan /\ queries' = queries
      /\ responses' = responses /\ selected' = selected /\ pages' = pages /\ order' = order
      /\ verify' = verify /\ evidence' = evidence /\ degraded' = degraded /\ asked' = asked
      /\ failed' = failed /\ answer' = answer
  BY Zenon DEF vars
<1>3. AllHits' = AllHits /\ Candidates' = Candidates
  BY <1>2, Zenon DEF AllHits, Candidates, Facts
<1>4. PlanInv' /\ ResponseInv'
  BY <1>1, <1>2, Zenon DEF PlanInv, ResponseInv, FoundHit
<1>5. SelectedInv' /\ FailureInv'
  BY <1>1, <1>2, <1>3 DEF SelectedInv, FailureInv, Terminal
<1>6. VerifyInv'
  <2>1. DocumentsRead'
    BY <1>1, <1>2, <1>3, DocumentsKept, Zenon DEF VerifyInv
  <2>2. EvidenceOk(evidence, Candidates)'
    BY <1>1, <1>2, <1>3, Zenon DEF VerifyInv, EvidenceOk
  <2> QED BY <1>1, <1>2, <2>1, <2>2 DEF VerifyInv
<1>7. AnswerInv'
  <2>1. Required' = Required /\ \A id : ReadFor(id)' = ReadFor(id)
    BY <1>2, Zenon DEF Required, FactIds, Facts, ReadFor
  <2>2. CompleteIsGrounded'
    BY <1>1, <1>2, <2>1, Zenon DEF AnswerInv, CompleteIsGrounded
  <2> QED BY <1>1, <1>2, <2>2 DEF AnswerInv, NoAnswer
<1> QED BY <1>4, <1>5, <1>6, <1>7 DEF IInv

LEMMA Invariant == Spec => []IInv
<1>1. IInv /\ [Next]_vars => IInv'
  <2> SUFFICES ASSUME IInv, [Next]_vars PROVE IInv'
    OBVIOUS
  <2>1. CASE \E i \in 1..Len(pages) : Fetch(i) \/ Extract(i)
    BY <2>1, PageKeeps, Zenon
  <2> QED BY <2>1, PlanKeeps, DiscoverKeeps, SelectKeeps, VerifyKeeps, SynthesizeKeeps,
            StutterKeeps, Zenon DEF Next
<1> QED BY <1>1, InitInv, PTL DEF Spec

-----------------------------------------------------------------------------------
(* The results.                                                                     *)

\* Every variable keeps its type: at most eight queries, no more responses than
\* queries, at most four pages, known steps, roles and outcomes (search_operations.py).
THEOREM AnswerPathTyped == Spec => []TypeOK
<1>1. IInv => TypeOK
  <2> SUFFICES ASSUME IInv PROVE TypeOK
    OBVIOUS
  <2>1. PlanInv /\ ResponseInv /\ SelectedInv /\ FailureInv /\ VerifyInv /\ AnswerInv
    BY Zenon DEF IInv
  <2>2. step \in {"PLAN", "DISCOVERY", "SELECT", "FETCH", "SYNTHESIZE", "DONE"}
    BY <2>1 DEF PlanInv
  <2>3. Len(queries) <= QueryLimit("RESEARCH")
    <3>1. QueryLimit("RESEARCH") = 8
      BY DEF QueryLimit
    <3>2. CASE step = "PLAN"
      <4>1. queries = <<>>
        BY <2>1, <3>2 DEF PlanInv
      <4>2. Len(queries) = 0
        BY <4>1
      <4> QED BY <3>1, <4>2
    <3>3. CASE step # "PLAN"
      <4> DEFINE n == Len(queries)
      <4>1. n \in 1..8
        BY <2>1, <3>3, QueriesOk, Zenon
      <4> HIDE DEF n
      <4>2. n <= QueryLimit("RESEARCH")
        BY <3>1, <4>1
      <4> QED BY <4>2 DEF n
    <3> QED BY <3>2, <3>3
  <2>4. Len(responses) <= Len(queries)
    BY <2>1, Zenon DEF ResponseInv
  <2>5. /\ Len(selected) <= MaxSelectedHits /\ Len(pages) = Len(selected)
        /\ \A i \in 1..Len(pages) : pages[i] \in PageStates
    BY <2>1, ElementOfSeq, Zenon DEF SelectedInv
  <2>6. /\ verify.status \in {"NONE", "QUEUED", "SUCCEEDED", "FAILED"}
        /\ degraded \cup asked \subseteq {"planner", "verifier", "synthesizer"}
        /\ failed \subseteq {"discovery", "fetch", "extract", "verify"}
        /\ answer.quality \in {"NONE", "COMPLETE", "PARTIAL"}
    BY <2>1, Zenon DEF VerifyInv, FailureInv, AnswerInv
  <2> QED BY <2>2, <2>3, <2>4, <2>5, <2>6, Zenon DEF TypeOK, PageStates
<1> QED BY <1>1, Invariant, PTL

\* For every message the router can recognise and every reply the planning model can
\* give, a plan that no template made has as many facts as the message asks for, at
\* most eight, all different, and none is optional unless the message allows it
\* (IntentParser, HeuristicIntentPlanner).
THEOREM PlansKeepTheFloor == Spec => []PlansMeetTheFloor
<1>1. IInv => PlansMeetTheFloor
  <2> SUFFICES ASSUME IInv, plan # NoPlan, ~Reviewed
               PROVE  /\ Len(Facts) \in minimum_fact_count(request.message)..MaxFacts
                      /\ ~request.message.optional => Required = FactIds
                      /\ \A i, j \in FactIds : Facts[i].key = Facts[j].key => i = j
    BY Zenon DEF PlansMeetTheFloor
  <2>1. PlanOf(request.message, plan) /\ plan.strategy # "reviewed_template"
    BY Zenon DEF IInv, PlanInv, Reviewed
  <2>2. NovelFacts(request.message, Facts)
    BY <2>1, Zenon DEF PlanOf, Facts
  <2>3. /\ Len(Facts) \in minimum_fact_count(request.message)..MaxFacts
        /\ \A i \in FactIds : ~request.message.optional => Facts[i].required = TRUE
        /\ \A i, j \in FactIds : Facts[i].key = Facts[j].key => i = j
    BY <2>2, Zenon DEF NovelFacts, FactIds
  <2>4. ~request.message.optional => Required = FactIds
    BY <2>3, Zenon DEF Required
  <2> QED BY <2>3, <2>4
<1> QED BY <1>1, Invariant, PTL

\* A complete answer rests, fact by fact, on evidence that was accepted from a page
\* fetched and read for that fact, in a run in which no step failed and no model was
\* replaced, whatever the web returned and in whatever order the pages arrived
\* (synthesize, _maybe_verify, CitationValidator).
THEOREM CompleteAnswersAreGrounded == Spec => []CompleteIsGrounded
<1>1. IInv => CompleteIsGrounded
  BY Zenon DEF IInv, AnswerInv
<1> QED BY <1>1, Invariant, PTL

\* What accepted evidence comes from: a candidate of one of the plan's facts, read from
\* the document of a page that was found for that fact.
LEMMA EvidenceOrigin ==
    ASSUME IInv, NEW i \in Accepted(evidence)
    PROVE  /\ step # "PLAN"
           /\ \E c, h : /\ Backed(i, c) /\ h \in MergeHits(AllHits)
                        /\ c.id \in 1..Len(Facts) /\ c.id \in h.facts /\ c.fact = Facts[c.id]
                        /\ c.url = FinalUrl(h.url)
<1>1. PlanInv /\ VerifyInv
  BY Zenon DEF IInv
<1>2. evidence # {}
  BY Zenon DEF Accepted
<1>3. step # "PLAN"
  <2>1. verify.status = "SUCCEEDED"
    BY <1>1, <1>2, Zenon DEF VerifyInv
  <2> QED BY <1>1, <2>1 DEF VerifyInv
<1>4. DOMAIN Facts = 1..Len(Facts)
  BY <1>1, <1>3, QueriesOk, Zenon
<1>5. PICK c \in Candidates : Backed(i, c)
  BY <1>1, Zenon DEF VerifyInv, EvidenceOk
<1>6. ReadFrom(c, plan.intent.entity, Facts, verify.documents)
  BY <1>5, CandidateOrigin, Zenon DEF Candidates
<1>7. PICK id \in 1..Len(Facts), d \in DOMAIN verify.documents :
         /\ id \in verify.documents[d].facts
         /\ \E k : c = Candidate(id, Facts[id], plan.intent.entity, verify.documents[d], d, k)
  BY <1>4, <1>6, Zenon DEF ReadFrom
<1>8. PICK h \in MergeHits(AllHits) : verify.documents[d] = Document(h)
  BY <1>1, <1>7, Zenon DEF VerifyInv, DocumentsRead
<1>9. c.id = id /\ c.fact = Facts[id] /\ c.url = Document(h).url /\ id \in Document(h).facts
  <2> DEFINE doc == Document(h)
  <2> HIDE DEF doc
  <2>1. verify.documents[d] = doc
    BY <1>8 DEF doc
  <2>2. c.id = id /\ c.fact = Facts[id] /\ c.url = doc.url /\ id \in doc.facts
    BY <1>7, <2>1 DEF Candidate
  <2> QED BY <2>2 DEF doc
<1>10. Document(h).url = FinalUrl(h.url) /\ Document(h).facts = h.facts
  BY DEF Document
<1> QED BY <1>3, <1>5, <1>7, <1>8, <1>9, <1>10, Zenon

\* No run accepts evidence for a question whose answer is that sources are silent, and
\* none with such a required fact is complete: not through an adapter, not through the
\* model, and not for a plan the model made (_requires_source_set_absence,
\* reviewed_templates.py, model_verifier.py).
THEOREM SilenceIsNeverProved == Spec => []NothingProvesAbsence
<1>1. IInv => NothingProvesAbsence
  <2> SUFFICES ASSUME IInv PROVE NothingProvesAbsence
    OBVIOUS
  <2>1. ASSUME NEW i \in Accepted(evidence) PROVE Facts[i.id].answer # Nothing
    <3>1. SUFFICES ASSUME Facts[i.id].answer = Nothing PROVE FALSE
      OBVIOUS
    <3>2. step # "PLAN"
      BY EvidenceOrigin, Zenon
    <3>3. PICK c : Backed(i, c) /\ c.id \in 1..Len(Facts) /\ c.fact = Facts[c.id]
      BY EvidenceOrigin, Zenon
    <3>4. i.id = c.id /\ c.fact.answer = Nothing
      BY <3>1, <3>3, Zenon DEF Backed
    <3>5. PlanOf(request.message, plan)
      BY <3>2, Zenon DEF IInv, PlanInv
    <3>6. Silent(c.fact) /\ c.fact.text \subseteq GapWords
      <4>1. CASE plan.strategy = "reviewed_template"
        <5>1. GoodFact(plan.intent.entity, Facts[c.id])
          BY <3>3, <3>5, <4>1, Zenon DEF PlanOf, GoodIntent, Facts
        <5> QED BY <3>3, <3>4, <5>1, Zenon DEF GoodFact, GapReport
      <4>2. CASE plan.strategy # "reviewed_template"
        <5>1. Facts[c.id].answer = Nothing => GapReport(Facts[c.id])
          BY <3>3, <3>5, <4>2, Zenon DEF PlanOf, NovelFacts, Facts
        <5> QED BY <3>3, <3>4, <5>1, Zenon DEF GapReport
      <4> QED BY <4>1, <4>2
    <3>7. deterministic_proposal(c) = NoProposal /\ requires_source_set_absence(c)
      BY <3>6, GapsAreSilent, SilentIsWithheld, Zenon
    <3> QED BY <3>3, <3>7, Zenon DEF Backed
  <2>2. CompleteIsGrounded
    BY Zenon DEF IInv, AnswerInv
  <2>3. ASSUME answer.quality = "COMPLETE", NEW id \in Required PROVE Facts[id].answer # Nothing
    <3>1. PICK c \in answer.claims : c.fact = id /\ c.cited # {}
      BY <2>2, <2>3, Zenon DEF CompleteIsGrounded
    <3>2. PICK i \in c.cited : i \in Accepted(evidence) /\ i.id = id
      BY <2>2, <2>3, <3>1, Zenon DEF CompleteIsGrounded
    <3> QED BY <2>1, <3>2, Zenon
  <2> QED BY <2>1, <2>3, Zenon DEF NothingProvesAbsence
<1> QED BY <1>1, Invariant, PTL

\* A fact for which a page is listed that must be recent has the word that page is
\* known by, or reports a gap.
LEMMA ListedFactNamesPage ==
    ASSUME NEW fact, NEW r, NEW page \in FreshPages, GoodFact("apex legends", fact), RuleMatches(r, fact),
           Listable("apex legends", r.types, r.terms, page)
    PROVE  \/ Silent(fact)
           \/ page = "ea/midseason" /\ "midseason" \in fact.text
           \/ page = "ea/breach" /\ "breach" \in fact.text
           \/ page = "apexranked/meta" /\ "live table" \in fact.text
<1> SUFFICES ASSUME ~Silent(fact)
             PROVE  \/ page = "ea/midseason" /\ "midseason" \in fact.text
                    \/ page = "ea/breach" /\ "breach" \in fact.text
                    \/ page = "apexranked/meta" /\ "live table" \in fact.text
  OBVIOUS
<1>1. /\ "patch" \in fact.text \/ fact.fact_type = "patch_notes" => "midseason" \in fact.text
      /\ fact.fact_type = "character_changes" => "breach" \in fact.text
      /\ "community" \in fact.text \/ fact.fact_type = "team_meta" => "live table" \in fact.text
      /\ fact.fact_type \notin {"background", "comparison"}
  BY Zenon DEF GoodFact
<1>2. fact.fact_type \in r.types /\ (r.terms = AnyTerm \/ \E w \in r.terms : w \in fact.text)
  BY Zenon DEF RuleMatches
<1>3. CASE page = "ea/midseason"
  <2>1. r.terms = {"midseason"} \/ r.terms = {"patch"} \/ r.types = {"patch_notes"}
    BY <1>3 DEF Listable
  <2> QED BY <1>1, <1>2, <1>3, <2>1 DEF AnyTerm
<1>4. CASE page = "ea/breach"
  <2>1. r.terms = {"breach"} \/ r.types = {"character_changes"}
    BY <1>4 DEF Listable
  <2> QED BY <1>1, <1>2, <1>4, <2>1 DEF AnyTerm
<1>5. CASE page = "apexranked/meta"
  <2>1. \/ r.terms = {"live table"} \/ r.terms = {"community"}
        \/ r.types \subseteq {"team_meta", "background", "comparison"}
    BY <1>5 DEF Listable
  <2> QED BY <1>1, <1>2, <1>5, <2>1 DEF AnyTerm
<1> QED BY <1>3, <1>4, <1>5 DEF FreshPages

\* No run accepts evidence from one of the pages that must be recent once it is past
\* its age limit, for any fact of a reviewed plan: whatever rule lists the page, the
\* fact has the word by which the verifier knows that the page must be recent
\* (_is_stale_reviewed_current, official_sources.py, reviewed_templates.py).
THEOREM StalePagesAreNotCurrent == Spec => []StaleIsNotCurrent
<1>1. IInv => StaleIsNotCurrent
  <2> SUFFICES ASSUME IInv, NEW i \in Accepted(evidence), Reviewed, ~i.recent, i.url \in FreshPages
               PROVE  FALSE
    BY Zenon DEF StaleIsNotCurrent, FreshPages
  <2>1. PlanInv /\ ResponseInv
    BY Zenon DEF IInv
  <2>2. step # "PLAN"
    BY EvidenceOrigin, Zenon
  <2>3. PICK c, m : /\ Backed(i, c) /\ m \in MergeHits(AllHits)
                    /\ c.id \in 1..Len(Facts) /\ c.id \in m.facts /\ c.fact = Facts[c.id]
                    /\ c.url = FinalUrl(m.url)
    BY EvidenceOrigin, Zenon
  <2>4. c.url \in FreshPages /\ ~c.recent
    BY <2>3, Zenon DEF Backed
  <2>5. m.url = c.url
    <3>1. \/ FinalUrl(m.url) = m.url \/ FinalUrl(m.url) = "moved ibm.com"
          \/ FinalUrl(m.url) = "moved" \/ FinalUrl(m.url) = "elsewhere"
      BY DEF FinalUrl
    <3> QED BY <2>3, <2>4, <3>1 DEF FreshPages
  <2>6. PICK h : FoundHit(h) /\ h.url = c.url /\ c.id \in h.facts
    BY <2>1, <2>2, <2>3, <2>5, HitsMerged, Zenon
  <2>7. PICK q \in 1..Len(queries) : FoundFor(h, queries[q], plan.intent.entity)
    BY <2>6, Zenon DEF FoundHit
  <2>8. queries[q].fact = c.id /\ \E k \in 1..Len(queries[q].urls) : c.url = queries[q].urls[k]
    <3>1. PICK url, provider :
            /\ \E rank, score \in Int : h = Hit(url, provider, rank, score, queries[q].fact, plan.intent.entity)
            /\ url \in OnTheWeb \/ \E k \in 1..Len(queries[q].urls) : url = queries[q].urls[k]
      BY <2>7, Zenon DEF FoundFor
    <3>2. h.url = url /\ h.facts = {queries[q].fact}
      BY <3>1 DEF Hit
    <3>3. url \notin OnTheWeb
      BY <2>4, <2>6, <3>2 DEF FreshPages, OnTheWeb
    <3> QED BY <2>6, <3>1, <3>2, <3>3, Zenon
  <2>9. queries[q].urls = urls_for_fact(plan.intent.entity, c.fact)
    BY <2>1, <2>2, <2>3, <2>7, <2>8, QueriesOk, Zenon
  <2>10. PICK r : RuleMatches(r, c.fact) /\ Listable(plan.intent.entity, r.types, r.terms, c.url)
    BY <2>8, <2>9, UrlsListed, Zenon
  <2>11. plan.intent.entity = "apex legends"
    BY <2>4, <2>10, Zenon DEF Listable
  <2>12. GoodFact("apex legends", c.fact)
    <3>1. GoodIntent(plan.intent)
      BY <2>1, <2>2, Zenon DEF PlanInv, PlanOf, Reviewed
    <3> QED BY <2>3, <2>11, <3>1, Zenon DEF GoodIntent, Facts
  <2>13. deterministic_proposal(c) = NoProposal
    <3>1. "number" \notin c.fact.text /\ "listed terms" \notin c.fact.text
      BY <2>12, Zenon DEF GoodFact
    <3> QED BY <2>4, <3>1, StaleIsSilent, Zenon
  <2>14. ~Silent(c.fact) /\ ~is_stale_reviewed_current(c)
    BY <2>3, <2>13, SilentIsWithheld, Zenon DEF Backed
  <2>15. \/ c.url = "ea/midseason" /\ "midseason" \in c.fact.text
         \/ c.url = "ea/breach" /\ "breach" \in c.fact.text
         \/ c.url = "apexranked/meta" /\ "live table" \in c.fact.text
    BY <2>4, <2>10, <2>11, <2>12, <2>14, ListedFactNamesPage, Zenon
  <2> QED BY <2>4, <2>14, <2>15, Zenon DEF is_stale_reviewed_current
<1> QED BY <1>1, Invariant, PTL

-----------------------------------------------------------------------------------
(* The slots of RESEARCH.                                                           *)

\* What the hits before place i were found for.
FoundBefore(s, i) == CoveredBy({s[j] : j \in 1..(i - 1)})
Spent(s, M) ==
  \A i \in 1..Len(s) : s[i].facts \subseteq FoundBefore(s, i) => FoundBefore(s, i) = CoveredBy(M)
Over(state) == state.left = {} \/ Satisfied(state)
\* The selection after k steps: nothing is lost, no place was spent on a hit that adds
\* nothing while a fact could be covered, and it has k hits unless it is over.
Research(state, M, k) ==
  /\ DOMAIN state = {"chosen", "left"} /\ state.chosen \in Seq(M) /\ state.left \in SUBSET M
  /\ ToSet(state.chosen) \cup state.left = M
  /\ Spent(state.chosen, M)
  /\ Len(state.chosen) = k \/ Over(state)

\* A hit adds a fact exactly when it has one that is not covered.
LEMMA GainIsNew ==
    ASSUME NEW h, NEW n \in Nat, GoodHit(h, n), NEW state
    PROVE  /\ Gain(h, state) \in Nat
           /\ Gain(h, state) > 0 <=> ~(h.facts \subseteq CoveredBy(ToSet(state.chosen)))
<1> DEFINE new == h.facts \ CoveredBy(ToSet(state.chosen))
<1>1. IsFiniteSet(new)
  <2>1. 1 \in Int /\ n \in Int
    OBVIOUS
  <2>2. IsFiniteSet(1..n)
    BY <2>1, FS_Interval, Zenon
  <2>3. new \in SUBSET (1..n)
    BY DEF GoodHit
  <2> QED BY <2>2, <2>3, FS_Subset, Zenon
<1>2. Gain(h, state) = Cardinality(new)
  BY Zenon DEF Gain
<1>3. new = {} <=> h.facts \subseteq CoveredBy(ToSet(state.chosen))
  OBVIOUS
<1> HIDE DEF new
<1>4. Cardinality(new) \in Nat /\ (Cardinality(new) = 0 <=> new = {})
  BY <1>1, FS_CardinalityType, FS_EmptySet, Zenon
<1> QED BY <1>2, <1>3, <1>4

\* The hit that a step picks adds a fact, or no hit does.
LEMMA PickGains ==
    ASSUME NEW M, NEW n, GoodHits(M, n), NEW state, NEW k \in Nat, Research(state, M, k), ~Over(state)
    PROVE  \E h \in state.left :
             /\ ResearchStep(state) = Pick(state, h)
             /\ h.facts \subseteq CoveredBy(ToSet(state.chosen)) =>
                  CoveredBy(ToSet(state.chosen)) = CoveredBy(M)
<1> DEFINE pool == ResearchPool(state)
           key == [h \in pool |-> ResearchKey(state, h)]
           gaining == {h \in state.left : Gain(h, state) > 0}
           covered == CoveredBy(ToSet(state.chosen))
<1>1. /\ pool \in SUBSET state.left /\ pool # {}
      /\ gaining # {} => pool \in SUBSET gaining
  BY Zenon DEF ResearchPool, Over
<1>2. pool \in SUBSET M /\ state.left \in SUBSET M
  BY <1>1, Zenon DEF Research
<1>3. key \in [pool -> Int]
  <2>1. ASSUME NEW h \in pool PROVE ResearchKey(state, h) \in Int
    <3>1. GoodHit(h, n) /\ n \in Nat
      BY <1>2, <2>1, Zenon DEF GoodHits
    <3> DEFINE g == Gain(h, state)
               c == Cardinality(h.facts)
               a == Flag(h.official)
               b == Flag(~Seen(state, h))
    <3>2. g \in Nat /\ c \in Nat
      BY <3>1, GainType, Zenon
    <3>3. a \in Int /\ b \in Int
      BY DEF Flag
    <3>4. ResearchKey(state, h) = IF g > 0 THEN 1000 * (8 - g) + 10 * c + 2 * a + b ELSE 2 * b + a
      BY Zenon DEF ResearchKey
    <3> HIDE DEF g, c, a, b
    <3> QED BY <3>2, <3>3, <3>4
  <2> HIDE DEF pool
  <2> QED BY <2>1, Zenon
<1>4. ResearchStep(state) = Pick(state, Best(key))
  BY Zenon DEF ResearchStep, Over
<1> DEFINE h == Best(key)
<1> HIDE DEF pool, key
<1>5. h \in pool
  BY <1>1, <1>2, <1>3, BestLeft, Zenon
<1>6. ASSUME h.facts \subseteq covered PROVE covered = CoveredBy(M)
  <2> HIDE DEF h
  <2>1. \A o \in state.left : Gain(o, state) > 0 <=> ~(o.facts \subseteq covered)
    BY <1>2, GainIsNew, Zenon DEF GoodHits
  <2>2. gaining = {}
    BY <1>1, <1>5, <1>6, <2>1, Zenon
  <2>3. \A o \in state.left : o.facts \subseteq covered
    BY <2>1, <2>2, Zenon
  <2>4. CoveredBy(state.left) \subseteq covered
    BY <2>3, Zenon DEF CoveredBy
  <2>5. ToSet(state.chosen) \cup state.left = M
    BY Zenon DEF Research
  <2>6. CoveredBy(M) = covered \cup CoveredBy(state.left)
    BY <2>5, Zenon DEF CoveredBy
  <2> HIDE DEF covered
  <2> QED BY <2>4, <2>6, Zenon
<1> HIDE DEF h
<1>7. h \in state.left /\ ResearchStep(state) = Pick(state, h)
  BY <1>1, <1>4, <1>5, Zenon DEF h
<1> QED BY <1>6, <1>7, Zenon

\* One more step.
LEMMA ResearchGoesOn ==
    ASSUME NEW M, NEW n, GoodHits(M, n), NEW state, NEW k \in Nat, Research(state, M, k)
    PROVE  Research(ResearchStep(state), M, k + 1)
<1>1. CASE Over(state)
  <2>1. ResearchStep(state) = state
    BY <1>1, Zenon DEF ResearchStep, Over
  <2> QED BY <1>1, <2>1, Zenon DEF Research
<1>2. CASE ~Over(state)
  <2>1. PICK h \in state.left :
          /\ ResearchStep(state) = Pick(state, h)
          /\ h.facts \subseteq CoveredBy(ToSet(state.chosen)) =>
               CoveredBy(ToSet(state.chosen)) = CoveredBy(M)
    BY <1>2, PickGains, Zenon
  <2> DEFINE c == state.chosen
             d == Append(c, h)
             s == Pick(state, h)
  <2>2. c \in Seq(M) /\ Len(c) = k /\ h \in M /\ state.left \in SUBSET M /\ Spent(c, M)
        /\ ToSet(c) \cup state.left = M
    BY <1>2, <2>1, Zenon DEF Research
  <2>3. DOMAIN s = {"chosen", "left"} /\ s.chosen = d /\ s.left = state.left \ {h}
    BY DEF Pick
  <2> HIDE DEF c
  <2>4. /\ d \in Seq(M) /\ Len(d) = k + 1 /\ d[k + 1] = h
        /\ \A i \in 1..k : d[i] = c[i]
    BY <2>2
  <2>5. ToSet(c) = {c[j] : j \in 1..k} /\ ToSet(d) = {d[j] : j \in 1..(k + 1)}
    <3>1. DOMAIN c = 1..k /\ DOMAIN d = 1..(k + 1)
      BY <2>2, <2>4
    <3> QED BY <3>1 DEF ToSet
  <2> HIDE DEF d
  <2>6. ToSet(d) = ToSet(c) \cup {h}
    BY <2>4, <2>5
  <2>7. ASSUME NEW i \in 1..Len(d), d[i].facts \subseteq FoundBefore(d, i)
        PROVE  FoundBefore(d, i) = CoveredBy(M)
    <3>1. {d[j] : j \in 1..(i - 1)} = {c[j] : j \in 1..(i - 1)}
      BY <2>4
    <3>2. FoundBefore(d, i) = FoundBefore(c, i)
      BY <3>1, Zenon DEF FoundBefore
    <3>3. CASE i = k + 1
      <4>1. (k + 1) - 1 = k
        OBVIOUS
      <4>2. FoundBefore(c, i) = CoveredBy(ToSet(c))
        BY <2>5, <3>3, <4>1, Zenon DEF FoundBefore
      <4>3. h.facts \subseteq CoveredBy(ToSet(c)) => CoveredBy(ToSet(c)) = CoveredBy(M)
        BY <2>1 DEF c
      <4> QED BY <2>4, <2>7, <3>2, <3>3, <4>2, <4>3, Zenon
    <3>4. CASE i # k + 1
      <4>1. i \in 1..k
        BY <2>4, <3>4
      <4>2. d[i] = c[i]
        BY <2>4, <4>1, Zenon
      <4>3. i \in 1..Len(c)
        BY <2>2, <4>1, Zenon
      <4> QED BY <2>2, <2>7, <3>2, <4>2, <4>3, Zenon DEF Spent
    <3> QED BY <3>3, <3>4
  <2>8. Spent(d, M)
    BY <2>7, Zenon DEF Spent
  <2>9. ToSet(d) \cup (state.left \ {h}) = M
    BY <2>2, <2>6
  <2> HIDE DEF s
  <2>10. Research(s, M, k + 1)
    BY <2>2, <2>3, <2>4, <2>8, <2>9 DEF Research
  <2> QED BY <2>1, <2>10, Zenon DEF s
<1> QED BY <1>1, <1>2

\* What four steps leave: when a place stays free, the hits left over add neither a fact
\* nor a publisher that is needed.
LeftOver(s, left, M) ==
  /\ ToSet(s) \cup left = M
  /\ left = {} \/ /\ CoveredBy(left) \subseteq CoveredBy(ToSet(s))
                  /\ \/ Cardinality({h.site : h \in ToSet(s)}) >= 2
                     \/ \A h \in left : \E o \in ToSet(s) : o.site = h.site
LEMMA FourSlots ==
    ASSUME NEW M, NEW n, GoodHits(M, n), NEW s, s = SelectResearch(M)
    PROVE  /\ s \in Seq(M) /\ Spent(s, M)
           /\ Len(s) # 4 => \E left : LeftOver(s, left, M)
<1> DEFINE s0 == Start(M)
           s1 == ResearchStep(s0)
           s2 == ResearchStep(s1)
           s3 == ResearchStep(s2)
           s4 == ResearchStep(s3)
<1>1. s = s4.chosen
  BY Zenon DEF SelectResearch
<1>2. /\ 0 \in Nat /\ 0 + 1 \in Nat /\ 0 + 1 + 1 \in Nat /\ 0 + 1 + 1 + 1 \in Nat
      /\ 0 + 1 + 1 + 1 + 1 = 4
  OBVIOUS
<1>3. Research(s0, M, 0)
  <2>1. DOMAIN s0 = {"chosen", "left"} /\ s0.chosen = <<>> /\ s0.left = M
    BY DEF Start
  <2>2. <<>> \in Seq(M) /\ Len(<<>>) = 0 /\ ToSet(<<>>) = {}
    BY DEF ToSet
  <2>3. Spent(<<>>, M)
    BY DEF Spent
  <2> HIDE DEF s0
  <2> QED BY <2>1, <2>2, <2>3 DEF Research
<1> HIDE DEF s0
<1>4. Research(s1, M, 0 + 1)
  BY <1>2, <1>3, ResearchGoesOn, Zenon
<1> HIDE DEF s1
<1>5. Research(s2, M, 0 + 1 + 1)
  BY <1>2, <1>4, ResearchGoesOn, Zenon
<1> HIDE DEF s2
<1>6. Research(s3, M, 0 + 1 + 1 + 1)
  BY <1>2, <1>5, ResearchGoesOn, Zenon
<1> HIDE DEF s3
<1>7. Research(s4, M, 0 + 1 + 1 + 1 + 1)
  BY <1>2, <1>6, ResearchGoesOn, Zenon
<1> HIDE DEF s4
<1>8. /\ s4.chosen \in Seq(M) /\ Spent(s4.chosen, M) /\ ToSet(s4.chosen) \cup s4.left = M
      /\ Len(s4.chosen) = 4 \/ Over(s4)
  BY <1>2, <1>7, Zenon DEF Research
<1>9. Over(s4) =>
        s4.left = {} \/ /\ CoveredBy(s4.left) \subseteq CoveredBy(ToSet(s4.chosen))
                        /\ \/ Cardinality({h.site : h \in ToSet(s4.chosen)}) >= 2
                           \/ \A h \in s4.left : \E o \in ToSet(s4.chosen) : o.site = h.site
  BY Zenon DEF Over, Satisfied, Seen
<1>10. Over(s4) => LeftOver(s4.chosen, s4.left, M)
  BY <1>8, <1>9, Zenon DEF LeftOver
<1> QED BY <1>1, <1>8, <1>10, Zenon

\* What the hits of one address become.
LEMMA MergedAt ==
    ASSUME NEW H, IsFiniteSet(H), NEW n, \A h \in H : GoodHit(h, n), NEW g \in H
    PROVE  /\ MergedHit(H, g.url).url = g.url
           /\ MergedHit(H, g.url).facts = UNION {h.facts : h \in {o \in H : o.url = g.url}}
<1> DEFINE m == MergedHit(H, g.url)
           same == {h \in H : h.url = g.url}
           best == CHOOSE h \in same : \A o \in same : o.score <= h.score
           all == UNION {h.facts : h \in same}
<1>1. same \in SUBSET H /\ g \in same
  OBVIOUS
<1>2. IsFiniteSet(same)
  <2> HIDE DEF same
  <2> QED BY <1>1, FS_Subset
<1>3. \A h \in same : h.score \in Int
  BY Zenon DEF GoodHit
<1>4. \E h \in same : \A o \in same : o.score <= h.score
  <2> DEFINE rank == [h \in same |-> -h.score]
  <2> HIDE DEF same
  <2>1. rank \in [same -> Int]
    BY <1>3
  <2>2. \E x \in same : \A y \in same : rank[x] <= rank[y]
    <3> HIDE DEF rank
    <3> QED BY <1>1, <1>2, <2>1, LeastRank, Zenon
  <2> QED BY <1>3, <2>2
<1>5. best \in same
  <2> HIDE DEF same
  <2> QED BY <1>4, Zenon
<1>6. m = [best EXCEPT !.facts = all]
  BY Zenon DEF MergedHit
<1> HIDE DEF best
<1>7. best.url = g.url /\ DOMAIN best = HitFields
  BY <1>5, Zenon DEF GoodHit
<1> HIDE DEF all, m
<1>8. m.url = g.url /\ m.facts = all
  BY <1>6, <1>7 DEF HitFields
<1> QED BY <1>8 DEF m, all

\* Merging loses neither a fact nor a publisher.
LEMMA MergeKeeps ==
    ASSUME NEW H, IsFiniteSet(H), NEW n, \A h \in H : GoodHit(h, n)
    PROVE  /\ CoveredBy(MergeHits(H)) = CoveredBy(H)
           /\ {h.site : h \in MergeHits(H)} = {h.site : h \in H}
<1> DEFINE M == MergeHits(H)
<1>1. \A m \in M : m.site = Site(m.url) /\ \A id \in m.facts : \E h \in H : id \in h.facts
  BY Merged, Zenon DEF GoodHit
<1>2. \A h \in H : h.site = Site(h.url)
  BY Zenon DEF GoodHit
<1>3. ASSUME NEW g \in H
      PROVE  \E m \in M : m.url = g.url /\ g.facts \subseteq m.facts
  <2> DEFINE m == MergedHit(H, g.url)
             same == {o \in H : o.url = g.url}
  <2>1. m \in M
    BY <1>3, Zenon DEF MergeHits
  <2>2. m.url = g.url /\ m.facts = UNION {h.facts : h \in same}
    BY MergedAt, Zenon
  <2>3. g \in same
    OBVIOUS
  <2> HIDE DEF m, same
  <2>4. g.facts \subseteq m.facts
    BY <2>2, <2>3, Zenon
  <2> QED BY <2>1, <2>2, <2>4, Zenon
<1>4. ASSUME NEW m \in M PROVE \E h \in H : h.url = m.url
  <2>1. PICK g \in H : m = MergedHit(H, g.url)
    BY <1>4, Zenon DEF MergeHits
  <2> QED BY <2>1, MergedAt, Zenon
<1> HIDE DEF M
<1>5. CoveredBy(M) = CoveredBy(H)
  <2>1. ASSUME NEW id \in CoveredBy(M) PROVE id \in CoveredBy(H)
    <3>1. PICK m \in M : id \in m.facts
      BY <2>1, Zenon DEF CoveredBy
    <3>2. PICK h \in H : id \in h.facts
      BY <1>1, <3>1, Zenon
    <3> QED BY <3>2, Zenon DEF CoveredBy
  <2>2. ASSUME NEW id \in CoveredBy(H) PROVE id \in CoveredBy(M)
    <3>1. PICK h \in H : id \in h.facts
      BY <2>2, Zenon DEF CoveredBy
    <3>2. PICK m \in M : h.facts \subseteq m.facts
      BY <1>3, <3>1, Zenon
    <3> QED BY <3>1, <3>2, Zenon DEF CoveredBy
  <2> QED BY <2>1, <2>2, Zenon
<1>6. {h.site : h \in M} = {h.site : h \in H}
  <2>1. \A m \in M : \E h \in H : h.site = m.site
    BY <1>1, <1>2, <1>4, Zenon
  <2>2. ASSUME NEW h \in H PROVE \E m \in M : h.site = m.site
    <3>1. PICK m \in M : m.url = h.url
      BY <1>3, <2>2, Zenon
    <3>2. m.site = Site(m.url) /\ h.site = Site(h.url)
      BY <1>1, <1>2, <2>2, <3>1, Zenon
    <3>3. h.site = m.site
      BY <3>1, <3>2, Zenon
    <3> QED BY <3>3, Zenon
  <2> QED BY <2>1, <2>2
<1> QED BY <1>5, <1>6 DEF M

\* From the selection on, the pages of a RESEARCH run are those that SelectResearch chose.
SlotsInv ==
  request.mode = "RESEARCH" /\ step \in {"FETCH", "SYNTHESIZE", "DONE"} =>
    selected = SelectResearch(MergeHits(AllHits))
LEMMA SlotsKept == Spec => []SlotsInv
<1>1. Init => SlotsInv
  BY DEF Init, SlotsInv
<1>2. SlotsInv /\ [Next]_vars => SlotsInv'
  <2> SUFFICES ASSUME SlotsInv, [Next]_vars PROVE SlotsInv'
    OBVIOUS
  <2>1. CASE Plan
    <3>1. step' = "DISCOVERY"
      BY <2>1 DEF Plan
    <3> QED BY <3>1 DEF SlotsInv
  <2>2. CASE Discover
    <3>1. step' \in {"SELECT", "DISCOVERY"}
      BY <2>2 DEF Discover
    <3> QED BY <3>1 DEF SlotsInv
  <2>3. CASE Select
    <3>1. request' = request /\ responses' = responses /\ selected' = SelectHits(AllHits, request.mode)
      BY <2>3, Zenon DEF Select
    <3>2. AllHits' = AllHits
      BY <3>1, Zenon DEF AllHits
    <3>3. request.mode = "RESEARCH" => SelectHits(AllHits, request.mode) = SelectResearch(MergeHits(AllHits))
      BY DEF SelectHits
    <3>4. MergeHits(AllHits)' = MergeHits(AllHits)
      BY <3>2 DEF MergeHits
    <3> QED BY <3>1, <3>3, <3>4 DEF SlotsInv
  <2>4. CASE \/ \E i \in 1..Len(pages) : Fetch(i) \/ Extract(i)
             \/ Verify \/ VerifyFails \/ Synthesize \/ UNCHANGED vars
    <3>1. /\ request' = request /\ responses' = responses /\ selected' = selected
          /\ step' = step \/ step \in {"FETCH", "SYNTHESIZE"}
      <4>1. CASE \E i \in 1..Len(pages) : Fetch(i) \/ Extract(i)
        BY <4>1, Zenon DEF Fetch, Extract, PageStep
      <4>2. CASE Verify
        BY <4>2, Zenon DEF Verify, Verified
      <4>3. CASE VerifyFails \/ UNCHANGED vars
        BY <4>3, Zenon DEF VerifyFails, vars
      <4>4. CASE Synthesize
        <5>1. request' = request /\ responses' = responses /\ selected' = selected
          BY <4>4, Zenon DEF Synthesize
        <5>2. step \in {"FETCH", "SYNTHESIZE"}
          BY <4>4 DEF Synthesize, AllStepsEnded
        <5> QED BY <5>1, <5>2
      <4> QED BY <2>4, <4>1, <4>2, <4>3, <4>4, Zenon
    <3>2. AllHits' = AllHits
      BY <3>1, Zenon DEF AllHits
    <3>3. MergeHits(AllHits)' = MergeHits(AllHits)
      BY <3>2 DEF MergeHits
    <3> QED BY <3>1, <3>3 DEF SlotsInv
  <2> QED BY <2>1, <2>2, <2>3, <2>4, Zenon DEF Next
<1> QED BY <1>1, <1>2, PTL DEF Spec

\* However many facts share the four pages of a RESEARCH run, and whatever was found
\* for them: a page that adds no fact is taken only when all that was found is covered,
\* and a place stays free only when there are also two publishers or all that there are
\* (_select_ranked_hits).
THEOREM SlotsAreUsed == Spec => []ResearchUsesItsSlots
<1>1. IInv /\ SlotsInv => ResearchUsesItsSlots
  <2> SUFFICES ASSUME IInv, SlotsInv, request.mode = "RESEARCH", step \in {"FETCH", "SYNTHESIZE", "DONE"}
               PROVE  ResearchUsesItsSlots
    BY Zenon DEF ResearchUsesItsSlots
  <2> DEFINE H == AllHits
             M == MergeHits(H)
             s == selected
             sites(hits) == {h.site : h \in hits}
  <2>1. PlanInv /\ ResponseInv /\ step # "PLAN"
    BY DEF IInv
  <2>2. GoodHits(M, Len(Facts))
    BY <2>1, HitsMerged, Zenon
  <2>3. IsFiniteSet(H) /\ \A h \in H : GoodHit(h, Len(Facts))
    <3>1. IsFiniteSet(AllHits) /\ \A h \in AllHits : FoundHit(h)
      BY <2>1, HitsFound
    <3>2. Len(Facts) \in Nat /\ \A q \in 1..Len(queries) : queries[q].fact \in 1..Len(Facts)
      BY <2>1, QueriesOk, Zenon
    <3> QED BY <3>1, <3>2, FoundIsGood, Zenon DEF FoundHit
  <2>4. CoveredBy(M) = CoveredBy(H) /\ sites(M) = sites(H)
    BY <2>3, MergeKeeps, Zenon
  <2>5. s = SelectResearch(M)
    BY Zenon DEF SlotsInv
  <2> HIDE DEF H, M
  <2>6. /\ s \in Seq(M) /\ Spent(s, M)
        /\ Len(s) # 4 => \E left : LeftOver(s, left, M)
    BY <2>2, <2>5, FourSlots, Zenon
  <2>7. \A i \in 1..Len(s) :
          s[i].facts \subseteq CoveredBy({s[j] : j \in 1..(i - 1)}) =>
            CoveredBy({s[j] : j \in 1..(i - 1)}) = CoveredBy(H)
    BY <2>4, <2>6, Zenon DEF Spent, FoundBefore
  <2>8. ASSUME Len(s) < MaxSelectedHits
        PROVE  /\ CoveredBy(ToSet(s)) = CoveredBy(H)
               /\ Cardinality(sites(ToSet(s))) >= 2 \/ sites(H) \subseteq sites(ToSet(s))
    <3>1. Len(s) # 4
      <4>1. Len(s) \in Nat
        BY <2>6
      <4>2. \A k \in Nat : k < MaxSelectedHits => k # 4
        BY DEF MaxSelectedHits
      <4> QED BY <2>8, <4>1, <4>2, Zenon
    <3>2. PICK left : /\ ToSet(s) \cup left = M
                      /\ left = {} \/ /\ CoveredBy(left) \subseteq CoveredBy(ToSet(s))
                                      /\ \/ Cardinality(sites(ToSet(s))) >= 2
                                         \/ \A h \in left : \E o \in ToSet(s) : o.site = h.site
      BY <2>6, <3>1, Zenon DEF LeftOver
    <3>3. CoveredBy(M) = CoveredBy(ToSet(s)) \cup CoveredBy(left)
      BY <3>2, Zenon DEF CoveredBy
    <3>4. CoveredBy(left) \subseteq CoveredBy(ToSet(s))
      <4>1. CASE left = {}
        BY <4>1, Zenon DEF CoveredBy
      <4> QED BY <3>2, <4>1, Zenon
    <3>5. Cardinality(sites(ToSet(s))) >= 2 \/ sites(M) \subseteq sites(ToSet(s))
      <4>1. ASSUME \A h \in left : \E o \in ToSet(s) : o.site = h.site
            PROVE  sites(M) \subseteq sites(ToSet(s))
        <5>1. ASSUME NEW h \in M PROVE \E o \in ToSet(s) : o.site = h.site
          BY <3>2, <4>1, <5>1, Zenon
        <5> QED BY <5>1
      <4> HIDE DEF sites
      <4> QED BY <3>2, <4>1, Zenon
    <3> HIDE DEF sites
    <3> QED BY <2>4, <3>3, <3>4, <3>5, Zenon
  <2> QED BY <2>7, <2>8, Zenon DEF ResearchUsesItsSlots, H
<1> QED BY <1>1, Invariant, SlotsKept, PTL
====
