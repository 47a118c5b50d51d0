---------------------------- MODULE MCChatStream ----------------------------
\* Instances of ChatStream for model checking.
EXTENDS ChatStream, TLC

CONSTANT c1

OneCall == {c1}
=============================================================================
