--------------------------- MODULE MCUsageHistory ---------------------------
EXTENDS UsageHistory

\* Records are alike, so they may be numbered in the order in which they are published.
InOrder == \A r, q \in Records : r < q /\ publisher[r] = "new" => publisher[q] = "new"
=============================================================================
