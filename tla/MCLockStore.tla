---------------------------- MODULE MCLockStore ----------------------------
\* Nested, disjoint and whole-vault scopes.
EXTENDS LockStore, TLC

MCScopes == {<<>>, <<"a">>, <<"a", "b">>}
MCPaths == {<<"a", "b">>, <<"c">>}
MCSymmetry == Permutations(Holders)
=============================================================================
