------------------------- MODULE MCToolConfirmation -------------------------
\* Model values for ToolConfirmation.
EXTENDS ToolConfirmation

CONSTANTS c1, c2

MCCall1 == {c1}
MCCall2 == {c1, c2}
=============================================================================
