----------------------------- MODULE MCPromise -----------------------------
EXTENDS Promise
CONSTANTS t1, t2, p1, p2, p3, h1, v, e

TwoThreads == {t1, t2}
OneRoot    == {p1}
ThreePromises == {p1, p2, p3}
OneHandler == {h1}
OneValue   == {v}
OneError   == {e}

AnyResult  == {v, e, Undefined}
=============================================================================
