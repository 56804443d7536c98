----------------------------- MODULE MCMetrics -----------------------------
(***************************************************************************)
(* Instances of Metrics for TLC.                                           *)
(***************************************************************************)
EXTENDS Metrics, Quantile, TLC

\* The clients that reset are interchangeable.
MCClients == Permutations(Resetters)

\* A pod may get ready and lose its readiness again.
MCConditions == {"starting", "ready"}

\* The first three bounds of schedulingBuckets, in hundredths; observations
\* on, between and beyond them.
MCBounds == <<10, 25, 50>>
MCValues == {0, 7, 10, 11, 50, 60}

\* The flags and the registry do not depend on what is observed: TLC explores
\* the one from the initial state of the other.
MCInit == MetricsInit /\ QuantileInit
MCNext ==
    \/ QuantileInit /\ MetricsNext /\ UNCHANGED obs
    \/ MetricsInit /\ QuantileNext /\ UNCHANGED allVars
MCSpec == MCInit /\ [][MCNext]_<<allVars, obs>>
=============================================================================
