-------------------------- MODULE MCUsageLimitWait --------------------------
EXTENDS UsageLimitWait
=============================================================================
