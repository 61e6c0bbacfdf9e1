---------------------------- MODULE MCFundedScenarios ----------------------------
EXTENDS FundedScenarios

\* Two things go wrong in a run, one in the two longest
MCMaxMishaps ==
    [s \in Scripts |-> IF s \in {"best-execution", "private-lp-accounting-probe"} THEN 1 ELSE 2]
================================================================================
