--------------------------- MODULE MCThreadRequest ---------------------------
(* Three threads that may all send requests to each other.                  *)
EXTENDS ThreadRequest

CONSTANTS t1, t2, t3

MCThread == {t1, t2, t3}
OneNotifyUser == {t1}
TwoNotifyUsers == {t1, t2}
OneMortal == {t3}
NoMortal == {}

=============================================================================
