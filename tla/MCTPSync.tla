------------------------------- MODULE MCTPSync -------------------------------
EXTENDS TPSync

\* A scheduler as the amount of work it has: a message brings some, an
\* iteration does some.
MCStep(work, batch) == (IF work > 0 THEN work - 1 ELSE 0) + Len(batch)
MCIdle(work) == work = 0
================================================================================
