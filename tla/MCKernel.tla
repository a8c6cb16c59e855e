------------------------------ MODULE MCKernel ------------------------------
\* A few calls on one note.
EXTENDS Kernel, TLC

\* Every identity a call can present.
MCIdentities == [args : Args, ifRev : {NoRev} \union Ops \union 0..MaxEdits]
MCSymmetry == Permutations(Ops)
=============================================================================
