-------------------------- MODULE ScheduleContract --------------------------
(***************************************************************************)
(* The scheduler keeps the promises of JobQueue as long as no command of a *)
(* job waits (Wait).  A job is pending while a record of it is in the      *)
(* queue that has not been started or marked; it is running while a        *)
(* squeue_execute on the stack runs it.                                    *)
(***************************************************************************)
EXTENDS Schedule

JobOf(r) == [line |-> r.line, id |-> r.id, periodic |-> r.period > 0]

Pending ==
  {JobOf(sq[i]) : i \in {k \in DOMAIN sq : ~sq[k].del /\ sq[k].starts = 0}}

Running == {JobOf(sq[PosOf(sq, stack[f].rec)]) : f \in JobFrames}

Promise == INSTANCE JobQueue WITH
             Names <- Uids, Groups <- AllIds, pending <- Pending, running <- Running

(* Schedule implements JobQueue. *)
KeepsPromise == Promise!Spec
=============================================================================
