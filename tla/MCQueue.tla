------------------------------ MODULE MCQueue ------------------------------
EXTENDS Queue
CONSTANTS c1, c2, v1, v2, v3

TwoConsumers == {c1, c2}
ThreeValues  == {v1, v2, v3}
=============================================================================
