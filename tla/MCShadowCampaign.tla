-------------------------- MODULE MCShadowCampaign --------------------------
(***************************************************************************)
(* Instances of ShadowCampaign for TLC.  One run reserves two calls; a run  *)
(* uses less than its reserve, all of it as possibly billed, or more.       *)
(***************************************************************************)
EXTENDS ShadowCampaign

CONSTANTS t1, t2, r1, r2

OneRunner  == [t \in Tasks |-> r1]
TwoRunners == [t \in Tasks |-> IF t = t1 THEN r1 ELSE r2]

Both(n)   == [k \in Resource |-> n]
Reserve   == Both(2)
ForTwo    == Both(4)
ForOne    == Both(3)

Exact     == {[observed |-> Both(1), possibly |-> Zero]}
Varied    == {[observed |-> Both(1), possibly |-> Zero],
              [observed |-> Zero, possibly |-> Both(2)],
              [observed |-> [calls |-> 2, cost |-> 3], possibly |-> Zero]}
=============================================================================
