----------------------------- MODULE MCServices -----------------------------
(***************************************************************************)
(* Instances for TLC of two small models that share nothing: a behaviour is *)
(* one of Discovery or one of LockOrder, while the other one stays in its   *)
(* initial state.                                                           *)
(***************************************************************************)
EXTENDS Discovery, LockOrder

CONSTANTS a1, a2, b1, c1, p1, p2, s1

VARIABLE model      \* which of the two

\* Two searches of one tenant, and one each of two others, one of which has
\* a provider of its own.
MCTenantOf   == [s \in Searches |-> CASE s = b1 -> "b" [] s = c1 -> "c" [] OTHER -> "a"]
MCProviderOf == [s \in Searches |-> IF s = c1 THEN p2 ELSE p1]

Init ==
    /\ model \in {"discovery", "locks"}
    /\ DiscoveryInit
    /\ LockInit

Next ==
    \/ model = "discovery" /\ DiscoveryNext /\ UNCHANGED <<model, lockVars>>
    \/ model = "locks" /\ LockNext /\ UNCHANGED <<model, discoveryVars>>

Spec == Init /\ [][Next]_<<model, discoveryVars, lockVars>>

\* All rows, records and counters of both models keep their shape.
TypeOK == DiscoveryTypes /\ LockTypes
=============================================================================
