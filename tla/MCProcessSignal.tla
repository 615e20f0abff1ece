--------------------------- MODULE MCProcessSignal ---------------------------
EXTENDS ProcessSignal, TLC

CONSTANTS t1, t2, t3

MCMakes ==
  [t \in {t1, t2, t3} |->
     {"wait", "next", "read", "write", "close"} \cup
     (IF t = t1 THEN {"terminate", "shutdown"} ELSE {})]
=============================================================================
