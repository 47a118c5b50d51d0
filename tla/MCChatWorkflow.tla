--------------------------- MODULE MCChatWorkflow ---------------------------
\* Instances of ChatWorkflow for model checking.
EXTENDS ChatWorkflow, TLC

CONSTANTS c1, c2, d1, d2

OneCall == {c1}
OneDoc == {d1}
TwoDocs == {d1, d2}

NoChanges == {}
AllChanges == {"policy", "documents"}
=============================================================================
