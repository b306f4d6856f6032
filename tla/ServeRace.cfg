\* Start-up under every environment, then requests, a failing listener and
\* signals in every order.  The process may stop.
SPECIFICATION FairSpec
CONSTANTS
    r1 = r1
    r2 = r2
    q1 = q1
    q2 = q2
    Realms = {r1, r2}
    Requests = {q1, q2}
    Grace = 2
CHECK_DEADLOCK FALSE
INVARIANT CleanExitIsDrained
INVARIANT FailureIsReported
INVARIANT ServedAsConfigured
PROPERTY SignalEndsServe
