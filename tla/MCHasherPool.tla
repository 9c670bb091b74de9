---------------------------- MODULE MCHasherPool ----------------------------
(***************************************************************************)
(* An instance of HasherPool for TLC.                                      *)
(***************************************************************************)
EXTENDS HasherPool, TLC

CONSTANTS t1, t2, t3, h1, h2, h3, h4, h5

MCThreads == {t1, t2, t3}
MCHashers == {h1, h2, h3, h4, h5}

\* Where only safety is checked, threads and hashers are interchangeable.
Symmetry == Permutations(MCThreads) \union Permutations(MCHashers)

\* Two threads, where liveness is checked and symmetry is not sound.
TwoThreads == {t1, t2}
FourHashers == {h1, h2, h3, h4}
=============================================================================
