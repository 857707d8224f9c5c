------------------------------ MODULE MCCron -------------------------------
(***************************************************************************)
(* An instance of CronScheduler for TLC.  The code declares one schedule,  *)
(* which is new or had another cron expression; another one was dropped.   *)
(***************************************************************************)
EXTENDS CronScheduler

CONSTANTS kept, dropped

MCDeclared == [s \in {kept} |-> 2]
MCEarlier == {[s \in {dropped} |-> 2], [s \in {kept, dropped} |-> 1]}
=============================================================================
