-------------------------- MODULE MCSnapshotStore --------------------------
(***************************************************************************)
(* Instances of SnapshotStore for TLC.                                     *)
(***************************************************************************)
EXTENDS SnapshotRefinement, TLC

CONSTANTS root, menu, A, G, empty, text, oops, null, nobody

MCHostOf == [u \in URL |-> IF u = root THEN A ELSE G]

\* Only one of the URLs is crawled in a behaviour: the archives of two URLs have nothing
\* in common but the clock and the history query.
OneAtATime == Cardinality({u \in URL : u \in queue \/ snaps[u] # <<>>}) <= 1
=============================================================================
