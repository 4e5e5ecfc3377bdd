-------------------------- MODULE MCSimplexAdapter --------------------------
EXTENDS SimplexAdapter

CONSTANTS i1, i2, i3, i4, i5, i6

\* One daily problem per day count of a month, February of a leap year
\* included, in an order the search loop must scan to the end.
MCProblems == 0..3
MCNbJoursDUnProbleme == [i \in MCProblems |-> 31 - i]
MCMonthLengths == 28..31
MCInstances == {i1, i2, i3, i4, i5, i6}

=============================================================================
