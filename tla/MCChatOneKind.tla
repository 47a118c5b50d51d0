---------------------------- MODULE MCChatOneKind ---------------------------
\* ChatWorkflow in behaviours in which the admins change the policy, or the documents,
\* but not both: DecisionInForce needs it, and chat_mixed shows why.
EXTENDS MCChatWorkflow

VARIABLE kind

OneKindInit == Init /\ kind \in Changes

OneKindNext == /\ Next
               /\ policy' # policy => kind = "policy"
               /\ setting' # setting => kind = "documents"
               /\ UNCHANGED kind

OneKindSpec == /\ OneKindInit
               /\ [][OneKindNext]_<<vars, kind>>
               /\ \A c \in Calls : WF_vars(Step(c))
=============================================================================
