-------------------------- MODULE MCLayerLifecycle --------------------------
(* Small instances of LayerLifecycle for TLC.                              *)
EXTENDS LayerLifecycle, TLC

CONSTANTS i1, i2, p1, p2

\* Two identifiers of two paths; the asset at p2 is in a repository under i2.
MCLocation  == (i1 :> p1) @@ (i2 :> p2)
MCOneLocation == i1 :> p1
MCRepoPath  == (p1 :> NoIdentifier) @@ (p2 :> i2)
NoRepoPath  == (p1 :> NoIdentifier) @@ (p2 :> NoIdentifier)
MCAssets    == {p1, p2}

MCSymmetry == Permutations(Layer) \cup Permutations(Thread)

=============================================================================
