---------------------------- MODULE MCScheduler ----------------------------
EXTENDS Scheduler
CONSTANTS t1, t2, w1, w2, w3

TwoThreads == {t1, t2}
TwoWorks   == {w1, w2}
ThreeWorks == {w1, w2, w3}

NowOrLater == {0, 1, 2}
Now        == {0}
=============================================================================
