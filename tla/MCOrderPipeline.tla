-------------------------- MODULE MCOrderPipeline --------------------------
(* Instances of OrderPipeline for TLC.  Calls whose name ends in 1 or 2 are *)
(* about order k1 (so r1 and r2 are one request re-sent), the others about  *)
(* order k2.                                                                *)
EXTENDS OrderPipeline

MCKeyOf == [h \in Handlers |->
              IF h \in {"r1", "r2", "c1", "c2", "a1", "a2"} THEN "k1" ELSE "k2"]

\* Both orders want p1; only k1 wants p2.
MCQty == [k \in Keys |->
            IF k = "k1" THEN [p \in Products |-> 1]
            ELSE [p \in Products |-> IF p = "p1" THEN 2 ELSE 0]]

\* Not enough of p1 for both orders.
Scarce == [p \in Products |-> 2]

\* Enough for both.
Ample == [p \in Products |-> 3]
=============================================================================
