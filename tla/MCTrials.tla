------------------------------ MODULE MCTrials ------------------------------
EXTENDS Trials
CONSTANTS c1, c2, a1, a2
MCCases == {c1, c2}
MCArms == {a1, a2}
=============================================================================
