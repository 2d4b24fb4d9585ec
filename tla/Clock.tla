------------------------------- MODULE Clock -------------------------------
(***************************************************************************)
(* The gateway's time (timer_task in csro_mqtt.c).  The system time counts *)
(* seconds from power-up until SNTP sets it; the task, which wakes once a  *)
(* second, counts the wake-ups before that to find when it was started.    *)
(* The state document publishes time_now - time_start as "run", from       *)
(* another task and at any moment.                                         *)
(***************************************************************************)
EXTENDS Integers

CONSTANTS
    Year2016,    \* the system time at the start of 2016
    MaxSeconds   \* bound: how long the gateway is watched

ASSUME TimeAssumption == Year2016 \in Nat /\ MaxSeconds \in 1 .. Year2016 - 1

VARIABLES
    clock,      \* the system time
    age,        \* seconds since timer_task was started
    timer,      \* its place: "off", "delay", "read", "year" or "start"
    count,      \* wake-ups before the system time was set
    timeNow, timeStart, timeSync   \* sysinfo.time_now, time_start, time_sync

timeVars == <<count, timeNow, timeStart, timeSync>>
clockVars == <<clock, age, timer, timeVars>>

ClockInit ==
    /\ clock = 0
    /\ age = 0 /\ timer = "off" /\ count = 0
    /\ timeNow = 0 /\ timeStart = 0 /\ timeSync = FALSE

\* A restart; the system time may outlive it.
ClockRestarts ==
    /\ age' = 0 /\ timer' = "off" /\ count' = 0
    /\ timeNow' = 0 /\ timeStart' = 0 /\ timeSync' = FALSE

-----------------------------------------------------------------------------
(* A faulty variant of StartTime, no part of Boot!Spec: the count is left out. *)
StartTimeOfNow == timeNow

-----------------------------------------------------------------------------
\* csro_start_mqtt creates the task.
StartTimerTask ==
    /\ timer = "off"
    /\ timer' = "delay"
    /\ UNCHANGED <<clock, age, timeVars>>

\* A second passes; the task is through with its turn long before the next.
Second ==
    /\ timer \in {"off", "delay"} /\ clock % Year2016 < MaxSeconds
    /\ clock' = clock + 1
    /\ IF timer = "off" THEN UNCHANGED <<age, timer>>
                        ELSE age' = age + 1 /\ timer' = "read"
    /\ UNCHANGED timeVars

\* SNTP sets the time, at any moment; the gateway's own clock keeps it.
Synchronise ==
    /\ timer # "off" /\ clock < Year2016
    /\ clock' = Year2016 + age
    /\ UNCHANGED <<age, timer, timeVars>>

ReadClock ==
    /\ timer = "read"
    /\ timeNow' = clock
    /\ timer' = "year"
    /\ UNCHANGED <<clock, age, count, timeStart, timeSync>>

NotYetSet == timeNow < Year2016

CompareYear ==
    /\ timer = "year"
    /\ IF NotYetSet
         THEN count' = count + 1 /\ timer' = "delay"
         ELSE UNCHANGED count /\ timer' = IF timeSync THEN "delay" ELSE "start"
    /\ UNCHANGED <<clock, age, timeNow, timeStart, timeSync>>

StartTime == timeNow - count

SetStart ==
    /\ timer = "start"
    /\ timeStart' = StartTime
    /\ timeSync' = TRUE
    /\ timer' = "delay"
    /\ UNCHANGED <<clock, age, count, timeNow>>

TimerTask == ReadClock \/ CompareYear \/ SetStart
ClockRuns == Second \/ Synchronise \/ TimerTask

-----------------------------------------------------------------------------
(* Every variable keeps its type. *)
ClockTypeOK ==
    /\ clock \in (0 .. MaxSeconds) \cup (Year2016 .. Year2016 + MaxSeconds)
    /\ timer \in {"off", "delay", "read", "year", "start"}
    /\ age \in 0 .. MaxSeconds /\ count \in 0 .. MaxSeconds
    /\ timeNow \in Nat /\ timeStart \in Nat /\ timeSync \in BOOLEAN

\* What csro_update_airsys_state publishes as "run".
Run == timeNow - timeStart

(* Whenever the MQTT task looks, "run" is the age of timer_task as of its   *)
(* last or last but one wake-up, short of the second before the first,      *)
(* however late the time was set.  Before that it is a number of seconds of *)
(* this power-up, except in the few instructions from the reading of a time *)
(* just set to the store of time_start, when it is the time since 1970.     *)
RunTracks ==
    /\ timeSync => Run \in {age - 2, age - 1}
    /\ ~timeSync /\ timer \notin {"year", "start"} => Run \in 0 .. MaxSeconds
=============================================================================
