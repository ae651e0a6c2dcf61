------------------------------ MODULE MCActor ------------------------------
EXTENDS StatelessActor, TLC
CONSTANTS t1, t2, s1, s2, m1, m2, m3, get, put, other

TwoThreads    == {t1, t2}
TwoSenders    == {s1, s2}
ThreeMessages == {m1, m2, m3}

GetPutOther == {get, put, other}

ReaderWriter == (get :> SHARED) @@ (put :> EXCLUSIVE)
OtherMissing == ReaderWriter @@ (other :> Undefined)

\* The reader becomes a writer.
Redefined == {<<get, EXCLUSIVE>>}
=============================================================================
