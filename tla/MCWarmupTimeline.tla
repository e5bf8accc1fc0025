-------------------------- MODULE MCWarmupTimeline --------------------------
EXTENDS WarmupTimeline
=============================================================================
