------------------------------ MODULE MCBridge ------------------------------
\* A call, a batch of a call and a notification, and a lone notification.
EXTENDS Bridge, TLC

CONSTANTS r1, r2, n1, n2

MCBatches == {{r1}, {r2, n1}, {n2}}
=============================================================================
