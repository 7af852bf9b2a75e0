---------------------------- MODULE MCScheduler ----------------------------
(* The scheduler with the kernel task and at most three background tasks:    *)
(* kernel_main creates no more (main.c:354-357).                             *)
EXTENDS Scheduler
=============================================================================
