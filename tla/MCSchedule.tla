---------------------------- MODULE MCSchedule ----------------------------
(* Instances of Schedule for TLC: what the configurations cannot write.    *)
EXTENDS ScheduleContract

MCOneAutoId == -1
MCUids == 1 .. 6
=============================================================================
