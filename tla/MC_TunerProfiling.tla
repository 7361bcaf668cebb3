-------------------------- MODULE MC_TunerProfiling --------------------------
\* Two configs with one operator each.
EXTENDS TunerProfiling

OneAndOne == <<1, 2>>
=============================================================================
