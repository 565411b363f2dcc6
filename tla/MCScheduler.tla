----------------------------- MODULE MCScheduler -----------------------------
EXTENDS Scheduler

==============================================================================
