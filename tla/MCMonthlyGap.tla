---------------------------- MODULE MCMonthlyGap ----------------------------
EXTENDS Digests
MCRank == [e \in Market |-> 0]
=============================================================================
