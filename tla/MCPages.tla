------------------------------ MODULE MCPages ------------------------------
(* One busy auction and one quiet one; two makes with a model each; one model
   with two finitions, the second with an engine more. *)
EXTENDS FrontPages

CONSTANTS a1, a2, y1, seller, b1, v1, m1, m2, d1, d2, t1, t2, f1, f2, x1, x2

MCSeller == [a \in Auctions |-> seller]
MCRank == [key \in {"newly-listed", "lowest-mileage"} |->
  [a \in Auctions |-> IF (a = a1) = (key = "newly-listed") THEN 1 ELSE 2]]
MCOptionOf == [a \in Auctions |-> [s \in Selects |-> IF a = a1 \/ s = "year" THEN y1 ELSE NoOption]]
MCBuyNow == [a \in Auctions |-> 2]
MCOptionMake == [d \in ModelOptions |-> IF d = d1 THEN m1 ELSE m2]
MCMakeOf == [d \in Models |-> IF d = d1 THEN m1 ELSE m2]
MCModelOf == [t \in Trims |-> d1]
MCEngines ==
  [t \in Trims |-> IF t = t1 THEN [f \in {f1} |-> x1]
                   ELSE [f \in {f1, f2} |-> IF f = f1 THEN x2 ELSE x1]]
=============================================================================
