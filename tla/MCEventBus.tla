----------------------------- MODULE MCEventBus -----------------------------
\* The instance of EventBus that TLC checks: the run and one other publisher,
\* print mode and one subscriber that may stall.
EXTENDS EventBus

CONSTANTS run, other, print, slow

MCPubs == {run, other}
MCSubs == {print, slow}
MCQuota == [p \in MCPubs |-> IF p = run THEN 2 ELSE 1]
=============================================================================
