---------------------------- MODULE MCStatsStore ----------------------------
EXTENDS StatsStore

CONSTANTS f1, f2, s1

MCFlusher == {f1, f2}
MCStream  == {s1}
=============================================================================
