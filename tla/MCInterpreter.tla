--------------------------- MODULE MCInterpreter ---------------------------
EXTENDS Interpreter
CONSTANTS t1, t2, w1, w2, w3

TwoThreads == {t1, t2}
ThreeWorks == {w1, w2, w3}
Messages   == {w1, w2}
First      == {w1}
Timer      == {w3}
Callers    == {w1, w3}
=============================================================================
