-------------------------- MODULE MCKnowledgeBase --------------------------
\* Instances of KnowledgeBase for model checking.
EXTENDS KnowledgeBase, TLC

CONSTANTS j1, j2, d1, d2, w1, w2, adm1, adm2, t1, t2

OneJob == {j1}
TwoJobs == {j1, j2}
OneDoc == {d1}
TwoDocs == {d1, d2}
OneWorker == {w1}
TwoWorkers == {w1, w2}
Nobody == {}
Second == {j2}
OneAdmin == {adm1}
TwoAdmins == {adm1, adm2}
TwoTenants == {t1, t2}

\* Everything in one tenant; or the second upload in a tenant without requests.
SameTenant == [x \in Jobs \cup Admins |-> t1]
OneEach == [x \in Jobs \cup Admins |-> IF x = j2 THEN t2 ELSE t1]

NoFaults == {}
AllFaults == {"db", "qdrant", "redis", "crash", "timeout"}
=============================================================================
