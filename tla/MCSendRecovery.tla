--------------------------- MODULE MCSendRecovery ---------------------------
EXTENDS SendRecovery

\* Two calls, the first with two messages: lines are numbered across the script.
TwoCalls == <<<<1, 2>>, <<3>>>>
=============================================================================
