--------------------------- MODULE MCErgoPublisher ---------------------------
EXTENDS ErgoPublisher

CONSTANT Large  \* the record that needs two boxes

MCNeeds == [r \in Records |-> IF r = Large THEN 2 ELSE 1]
=============================================================================
