---------------------------- MODULE MCConformance ----------------------------
EXTENDS Conformance

\* Two cases, the second failing to execute under the second build.
MCCases == {1, 2}
MCBuilds == {"b1", "b2"}
MCFailsToExecute == {<<2, "b2">>}

\* The epoch (also what a clock before the epoch reads as), the end of the
\* leap days of 1972 and 2000, the first of March 2000, the last second of
\* 2024 and the last one TLC's integers hold (2038-01-19).
MCClockSamples == {0, 68193015, 951868799, 951868800, 1735689599, 2147483647}

\* Days around the turn of the epoch, 1900-02-28 (no leap day), 0000-03-01
\* (the start of an era) and 0001-01-01, 1972-02-29, 2000-01-01,
\* 2000-02-29, 2100-02-28 and 2400-02-29.
MCDaySamples ==
    {-1, 0, 1, -25509, -25508, -719469, -719468, -719467, -719162,
     788, 789, 790, 10956, 10957, 11015, 11016, 11017, 47540, 47541,
     157112, 157113, 157114}

====
