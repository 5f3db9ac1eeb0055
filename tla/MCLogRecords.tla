---------------------------- MODULE MCLogRecords ----------------------------
(* LogRecords for TLC: messages that fit at once, after growing, not quite,
   and not at all.  Threads share nothing but the key, so that one of them
   next to the one that terminates the library shows every case. *)
EXTENDS LogRecords, TLC

CONSTANTS t1, short, long, exact, oversize

MCThread == {t1}
MCMessage == {short, long, exact, oversize}
MCLength == (short :> 1) @@ (long :> 7) @@ (exact :> 4) @@ (oversize :> 9)
=============================================================================
