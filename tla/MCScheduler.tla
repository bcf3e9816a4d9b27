---------------------------- MODULE MCScheduler ----------------------------
(***************************************************************************)
(* Instances of Scheduler for TLC: a message with a delay and a repeat, one*)
(* with a CRON expression, a repeat and a period, and one that repeats.    *)
(***************************************************************************)
EXTENDS Scheduler

CONSTANTS m1, m2, m3, w1, w2, r1, r2

Options(a, b, c) == [m \in MessageId |-> CASE m = m1 -> a [] m = m2 -> b [] OTHER -> c]

MCDelay  == Options(1, 0, 0)
MCRepeat == Options(1, 1, 2)
MCPeriod == Options(0, 1, 1)
MCCron   == Options(0, 2, 0)
=============================================================================
