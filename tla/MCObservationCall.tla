-------------------------- MODULE MCObservationCall --------------------------
EXTENDS ObservationCall, TLC

CONSTANTS root, child

\* One WorkItem with a child.
MCParent == root :> NoParent @@ child :> root

\* Two WorkItems side by side.
MCFlat == root :> NoParent @@ child :> NoParent
=============================================================================
