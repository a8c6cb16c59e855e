---------------------------- MODULE MCBaselines ----------------------------
\* Two notes and a free path.
EXTENDS Baselines, TLC

CONSTANTS x, y, z, n1, n2

MCHome == (x :> n1) @@ (y :> n2) @@ (z :> NoNote)
=============================================================================
