------------------------------ MODULE MCFrontend ------------------------------
EXTENDS Frontend

CONSTANTS u1, u2

MCMaxReplies == [u \in Uids |-> IF u = u1 THEN 2 ELSE 1]
===============================================================================
