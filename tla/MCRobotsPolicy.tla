---------------------------- MODULE MCRobotsPolicy ---------------------------
EXTENDS RobotsPolicy

CONSTANTS c1, c2, c3, c4, oa, ob, ra, rb

FourChecks == {c1, c2, c3, c4}
ThreeChecks == {c1, c2, c3}
TwoOrigins == {oa, ob}
TwoRules == {ra, rb}
=============================================================================
