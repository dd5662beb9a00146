----------------------------- MODULE MCBosswave -----------------------------
(***************************************************************************)
(* Two calls on one client object: one asks all the databases, of which    *)
(* its sender may read one, the other names one that is not loaded.        *)
(***************************************************************************)
EXTENDS Bosswave, TLC

CONSTANTS a1, q1, q2, d1, d2, d3

MCAgentOf == q1 :> a1 @@ q2 :> a1
MCFrom == q1 :> {} @@ q2 :> {d2, d3}
MCAllowed == {<<a1, d1>>, <<a1, d3>>}
=============================================================================
