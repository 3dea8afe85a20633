-------------------------- MODULE MCDeadlineAlerts --------------------------
\* Instances of DeadlineAlerts for TLC.
EXTENDS DeadlineAlerts
=============================================================================
