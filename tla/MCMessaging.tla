---------------------------- MODULE MCMessaging ----------------------------
EXTENDS Messaging, TLC
CONSTANTS r1, r2, q1, q2

TwoRequests   == {r1, r2}
TwoRequesters == {q1, q2}

Use(p, w1, w2, o2) ==
  [pattern |-> p, owner |-> r1 :> q1 @@ r2 :> o2, what |-> r1 :> w1 @@ r2 :> w2]

ManySetups ==
  {Use("reply", "value", "error", q1),
   Use("reply", "value", "unencodable", q1),
   Use("reply", "value", "malformed", q2),
   Use("reply", "undefined", "error", q2),
   Use("publish", "value", "malformed", q1),
   Use("publish", "value", "unencodable", q2)}
OneSetup == {Use("reply", "value", "value", q1)}
=============================================================================
