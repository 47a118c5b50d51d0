----------------------------- MODULE MCAccounts -----------------------------
\* Instances of Accounts for model checking.
EXTENDS Accounts, TLC

CONSTANTS p1, p2, r1, r2, demo, ann, dflt, acme

TwoProcesses == {p1, p2}
TwoRequests == {r1, r2}
TwoNames == {demo, ann}
TwoTenants == {dflt, acme}

=============================================================================
