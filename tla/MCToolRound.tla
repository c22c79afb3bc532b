----------------------------- MODULE MCToolRound -----------------------------
\* Model values for ToolRound.
EXTENDS ToolRound

CONSTANTS t1, t2, t3

MCTool2 == {t1, t2}
MCTool3 == {t1, t2, t3}
=============================================================================
