----------------------------- MODULE MCWakeups -----------------------------
EXTENDS Wakeups
\* The file she starts with, and how much may go wrong with it.
Watches == {{"o", "r"}}
One == {{"a", "e"}, {"o"}, {"r"}} \union Watches
TwoForTimed ==
  [start \in One |-> CASE start = {"a", "e"} -> 2
                       [] start \in Watches -> 0
                       [] OTHER -> 1]
RepeatingWatch == {{"r"}}
OneUpset == [start \in Watches \union RepeatingWatch |-> 1]
Times12 == {1, 2}
=============================================================================
