--------------------------- MODULE MCRealTimeClock ---------------------------
EXTENDS RealTimeClock, TLC

CONSTANTS small, large, MaxTime

MCSizes == (small :> 2) @@ (large :> 3)
MCDates == {[i \in 0..1 |-> IF i = 0 THEN {0, 5} ELSE {6}], [i \in 0..1 |-> IF i = 0 THEN {0, 5} ELSE {0, 3}]}
MCStatuses == {{1}}
MCRomByte == {SIO}

Recent == page_time <= MaxTime
=============================================================================
