----------------------------- MODULE MCAccounts -----------------------------
\* Slugs, names, permission lists and codes of the instance TLC checks.
EXTENDS Accounts, TLC

CONSTANTS b0, acme, globex, e1, e2, c1, c2, n1, n2, r1, r2, r3

MCOwner == <<"roles:write", "users:write">>
MCPermission == {"roles:write", "users:write", "x", "y"}
MCRoleName == {"Owner", n1, n2}

\* Lists that disagree on their order, and one that names a permission twice.
MCPayload == {<<"x", "y">>, <<"y", "x">>, <<"x", "x">>}
Symmetry == Permutations(Req) \cup Permutations(CodeIndex) \cup Permutations({n1, n2})
=============================================================================
