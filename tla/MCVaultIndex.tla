---------------------------- MODULE MCVaultIndex ----------------------------
\* Places in the vault with filenames that give one id.
EXTENDS VaultIndex, TLC

CONSTANT i1

MCIdOf == [p \in Paths |-> i1]
=============================================================================
