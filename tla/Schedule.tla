------------------------------ MODULE Schedule ------------------------------
(***************************************************************************)
(* The scheduler of mvwm/schedule.c on the queue of libs/fqueue.c, driven  *)
(* by the event loop of mvwm/events.c (My_XNextEvent) and by the commands  *)
(* Schedule, Deschedule and Wait (CMD_Wait of mvwm/builtins.c).            *)
(*                                                                         *)
(* The window manager has one thread, yet the queue is used re-entrantly:  *)
(* squeue_execute holds the queue locked while it runs the command of a    *)
(* job, a command may schedule and deschedule, and the command Wait runs   *)
(* a nested event loop that calls squeue_execute again.  The call stack is *)
(* therefore part of the state.  Its frames, innermost first:              *)
(*     "begin", "again", "select", "woken"   a call of My_XNextEvent       *)
(*     "cmd"    a command run for an X event or a module                   *)
(*     "job"    squeue_execute while execute_obj_func runs                 *)
(***************************************************************************)
EXTENDS Fqueue

CONSTANTS
  Ids,          \* the job group ids users write in commands (positive)
  MinId,        \* stands for INT_MIN, where the automatic ids wrap
  Delays,       \* the delays users write in commands
  Periods,      \* the periods of periodic jobs
  Uids,         \* names for the records of the queue
  MaxJobs,      \* bound: no Schedule command when the queue is this long
  MaxWaits,     \* bound: nesting of Wait commands
  ClockMod,     \* the X server's clock is a CARD32: it counts modulo this
  TimeMod,      \* 2^w of unsigned long, the type of Time in the program
  SkewMs,       \* CLOCK_SKEW_MS
  InitClock,    \* the server's clock at the start
  MaxClock,     \* bound: the clock stops here (unreachable: it never stops)
  JobsDeschedule  \* may the commands of jobs contain Deschedule?

ASSUME ScheduleAssumption ==
  /\ Ids \subseteq Nat \ {0}
  /\ MinId \in Int /\ MinId < 0
  /\ Delays \subseteq Nat /\ Periods \subseteq Nat \ {0}
  /\ Uids \subseteq Nat \ {0}
  /\ MaxJobs \in Nat /\ MaxWaits \in Nat
  /\ ClockMod \in Nat \ {0} /\ TimeMod \in Nat \ {0} /\ ClockMod <= TimeMod
  /\ SkewMs \in Nat
  /\ InitClock \in 0 .. ClockMod - 1 /\ MaxClock \in Nat
  /\ JobsDeschedule \in BOOLEAN

VARIABLES
  sq,                \* the queue: a sequence of records
  lock_level,
  is_dirty,
  last_schedule_id,
  next_schedule_id,
  clock,             \* the X server's clock
  evtime,            \* fev_last_timestamp
  stack,             \* the call stack, innermost frame first
  cancelled          \* ghost: ids descheduled since they were last scheduled,
                     \* [id |-> "idle"] or [id |-> "busy"]: was the queue locked?

queueVars == <<sq, lock_level, is_dirty>>
idVars == <<last_schedule_id, next_schedule_id>>
vars == <<sq, lock_level, is_dirty, last_schedule_id, next_schedule_id,
          clock, evtime, stack, cancelled>>

Times == 0 .. TimeMod - 1
AllIds == Ids \cup (MinId .. -1)
LoopPoints == {"begin", "again", "select", "woken"}

(* A record: sq_object_type, the flags of the queue, and two ghosts: the    *)
(* number of times execute_obj_func was called for it, and the Schedule     *)
(* command (by the uid it got) that it descends from.  cmd: command # NULL  *)
Record == [uid : Uids, id : AllIds, time : Times, period : {0} \cup Periods,
           cmd : BOOLEAN, del : BOOLEAN, new : BOOLEAN,
           starts : Nat, line : Uids]

(* ms: the timeout of select, -1 for none; rec, ctime, has: the record that *)
(* runs, current_time, and whether a command of it was started              *)
Frame == [at : LoopPoints \cup {"cmd", "job"}, ms : Int,
          rec : Uids \cup {0}, ctime : Times, has : BOOLEAN]

Loop(pc, ms) == [at |-> pc, ms |-> ms, rec |-> 0, ctime |-> 0, has |-> FALSE]
Cmd == [at |-> "cmd", ms |-> -1, rec |-> 0, ctime |-> 0, has |-> TRUE]
Job(r, ct) ==
  [at |-> "job", ms |-> -1, rec |-> r.uid, ctime |-> ct, has |-> r.cmd]

Top == stack[1]
Goto(pc, ms) == [stack EXCEPT ![1] = Loop(pc, ms)]
Waits == Cardinality({i \in DOMAIN stack : stack[i].at \in LoopPoints}) - 1
JobsIn(s) == {i \in DOMAIN s : s[i].at = "job"}
JobFrames == JobsIn(stack)
-----------------------------------------------------------------------------
(* Time *)

Plus(t, ms) == (t + ms) % TimeMod

(* the difference of two unsigned longs, read as a signed long *)
CmpTimes(t1, t2) ==
  LET diff == (t1 - t2) % TimeMod
  IN IF diff = 0 THEN 0 ELSE IF 2 * diff < TimeMod THEN 1 ELSE -1

(* fev_update_last_timestamp *)
Stamped(new) ==
  IF new > evtime \/ (evtime - new) % TimeMod > SkewMs THEN new ELSE evtime
-----------------------------------------------------------------------------
(* The queue *)

PosOf(q, uid) == CHOOSE i \in DOMAIN q : q[i].uid = uid

Used(q) == {q[i].uid : i \in DOMAIN q}

(* malloc: the least name that is not in use *)
FreshUids ==
  LET free == Uids \ UNION {{sq[i].uid, sq[i].line} : i \in DOMAIN sq}
  IN {u \in free : \A v \in free : u <= v}

(* the search loop of fqueue_add_inside with cmp_object_time *)
InsertPos(q, r) ==
  LET later == {i \in DOMAIN q : CmpTimes(r.time, q[i].time) < 0}
  IN IF later = {} THEN Len(q) + 1
     ELSE CHOOSE i \in later : \A j \in later : i <= j

AddInside(q, r) == AddAt(q, InsertPos(q, r), r)

(* a variant: without the test for jobs that are due already *)
GetNextMsUnchecked(q, et) ==
  LET first == GetFirst(q)
  IN IF first = 0 THEN -1 ELSE (q[first].time - et) % TimeMod

(* squeue_get_next_ms with the time stamp et *)
GetNextMs(q, et) ==
  LET first == GetFirst(q)
  IN IF first = 0 THEN -1
     ELSE IF CmpTimes(et, q[first].time) >= 0 THEN 0
     ELSE (q[first].time - et) % TimeMod

(* check_execute_obj_func on the records that                              *)
(* fqueue_remove_or_operate_all does not skip                              *)
Due(r, ct) == Eligible(r) /\ CmpTimes(ct, r.time) >= 0

(* the next position from "from" on whose job is due, 0 if there is none *)
Scan(q, from, ct) ==
  LET due == {i \in from .. Len(q) : Due(q[i], ct)}
  IN IF due = {} THEN 0 ELSE CHOOSE i \in due : \A j \in due : i <= j

(* The loop of fqueue_remove_or_operate_all from position "from" on, up to  *)
(* the next call of execute_obj_func, or to the unlock that ends it.  q is  *)
(* the queue, lock its lock level (this call's lock included), rest the     *)
(* stack below this call.                                                   *)
OperateFrom(q, from, ct, lock, dirty, rest) ==
  LET i == Scan(q, from, ct)
  IN IF i # 0
     THEN /\ sq' = [q EXCEPT ![i].starts = @ + 1]
          /\ lock_level' = lock
          /\ stack' = <<Job(q[i], ct)>> \o rest
     ELSE /\ sq' = Unlocked(q, lock, dirty)
          /\ lock_level' = lock - 1
          /\ stack' = rest

(* squeue_execute; get_server_time makes the server send a time stamp *)
SqueueExecute(rest) ==
  IF sq = <<>>
  THEN stack' = rest /\ UNCHANGED <<queueVars, evtime>>
  ELSE /\ evtime' = Stamped(clock)
       /\ OperateFrom(sq, 1, clock, lock_level + 1, is_dirty, rest)
       /\ UNCHANGED is_dirty
-----------------------------------------------------------------------------
Init ==
  /\ sq = <<>> /\ lock_level = 0 /\ is_dirty = FALSE
  /\ last_schedule_id = 0 /\ next_schedule_id = -1
  /\ clock = InitClock /\ evtime = InitClock
  /\ stack = <<Loop("begin", -1)>>
  /\ cancelled = [id \in {} |-> "idle"]

(* The server's clock advances; a select that waits for a job comes nearer  *)
(* to its timeout.                                                          *)
Tick ==
  /\ clock # MaxClock \/ (Top.at = "select" /\ Top.ms > 0)
  /\ clock' = IF clock = MaxClock THEN clock ELSE (clock + 1) % ClockMod
  /\ stack' = IF Top.at = "select" /\ Top.ms > 0
              THEN Goto("select", Top.ms - 1) ELSE stack
  /\ UNCHANGED <<queueVars, idVars, evtime, cancelled>>

(* My_XNextEvent finds an X event, with or without a time stamp, and it is  *)
(* dispatched: a binding may run a command.  In the loop of Wait the event  *)
(* may be the one that is waited for.                                       *)
LoopEvent ==
  /\ Top.at = "begin"
  /\ evtime' \in {evtime, Stamped(clock)}
  /\ \E pc \in IF Waits > 0 THEN {"begin", "woken"} ELSE {"begin"} :
       stack' = <<Cmd>> \o Goto(pc, -1)
  /\ UNCHANGED <<queueVars, idVars, clock, cancelled>>

(* No X event is pending: run what is due, then compute the timeout. *)
LoopIdle ==
  /\ Top.at = "begin"
  /\ LET ms == GetNextMs(sq, evtime)
     IN IF ms = 0
        THEN SqueueExecute(Goto("again", -1))
        ELSE /\ stack' = Goto("select", ms)
             /\ UNCHANGED <<queueVars, evtime>>
  /\ UNCHANGED <<idVars, clock, cancelled>>

LoopAgain ==
  /\ Top.at = "again"
  /\ LET ms == GetNextMs(sq, evtime)
     IN stack' = Goto("select", IF ms = 0 THEN 1 ELSE ms)
  /\ UNCHANGED <<queueVars, idVars, clock, evtime, cancelled>>

(* select times out *)
LoopTimeout ==
  /\ Top.at = "select" /\ Top.ms = 0
  /\ SqueueExecute(Goto("begin", -1))
  /\ UNCHANGED <<idVars, clock, cancelled>>

(* select reports an X event, which the next call picks up, or the input of *)
(* a module, whose command is executed.                                     *)
LoopInput ==
  /\ Top.at = "select"
  /\ stack' \in {Goto("begin", -1), <<Cmd>> \o Goto("begin", -1)}
  /\ UNCHANGED <<queueVars, idVars, clock, evtime, cancelled>>

(* the event that CMD_Wait waited for has been dispatched *)
WaitDone ==
  /\ Top.at = "woken"
  /\ stack' = Tail(stack)
  /\ UNCHANGED <<queueVars, idVars, clock, evtime, cancelled>>
-----------------------------------------------------------------------------
(* What a running command may do *)

Commanding == Top.at = "cmd" \/ (Top.at = "job" /\ Top.has)

(* a variant: without the wrap-around *)
NextIdUnbounded == next_schedule_id - 1

NextId == IF next_schedule_id = MinId THEN -1 ELSE next_schedule_id - 1

(* CMD_Schedule; id = 0 stands for a command without an id argument *)
CmdSchedule(ms, period, id) ==
  /\ Commanding
  /\ Len(sq) < MaxJobs
  /\ period \in {0, ms}
  /\ \E uid \in FreshUids :
       LET theId == IF id = 0 THEN next_schedule_id ELSE id
       IN /\ sq' = AddInside(sq,
                     [uid |-> uid, id |-> theId, time |-> Plus(evtime, ms),
                      period |-> period, cmd |-> TRUE, del |-> FALSE,
                      new |-> lock_level > 0, starts |-> 0, line |-> uid])
          /\ last_schedule_id' = theId
          /\ cancelled' = [i \in DOMAIN cancelled \ {theId} |-> cancelled[i]]
  /\ next_schedule_id' = IF id = 0 THEN NextId ELSE next_schedule_id
  /\ is_dirty' = (is_dirty \/ lock_level > 0)
  /\ UNCHANGED <<lock_level, clock, evtime, stack>>

(* a variant: Deschedule always takes the last id *)
MarkedLast(q, id) ==
  [i \in DOMAIN q |-> IF Eligible(q[i]) /\ q[i].id = last_schedule_id
                      THEN [q[i] EXCEPT !.del = TRUE] ELSE q[i]]

Marked(q, id) ==
  [i \in DOMAIN q |-> IF Eligible(q[i]) /\ q[i].id = id
                      THEN [q[i] EXCEPT !.del = TRUE] ELSE q[i]]

(* CMD_Deschedule; id = 0 stands for a command without an id argument *)
CmdDeschedule(id) ==
  /\ Commanding
  /\ JobsDeschedule \/ JobFrames = {}
  /\ LET theId == IF id = 0 THEN last_schedule_id ELSE id
         marked == Marked(sq, theId)
         dirty == is_dirty \/ marked # sq
     IN /\ IF sq = <<>>
           THEN UNCHANGED queueVars
           ELSE /\ sq' = Unlocked(marked, lock_level + 1, dirty)
                /\ is_dirty' = dirty
                /\ UNCHANGED lock_level
        /\ cancelled' =
             [i \in DOMAIN cancelled \cup {theId} |->
                IF i # theId THEN cancelled[i]
                ELSE IF lock_level = 0 THEN "idle" ELSE "busy"]
  /\ UNCHANGED <<idVars, clock, evtime, stack>>

(* CMD_Wait *)
CmdWait ==
  /\ Commanding
  /\ Waits < MaxWaits
  /\ stack' = <<Loop("begin", -1)>> \o stack
  /\ UNCHANGED <<queueVars, idVars, clock, evtime, cancelled>>

(* a command of an X event or a module ends *)
CmdReturn ==
  /\ Top.at = "cmd"
  /\ stack' = Tail(stack)
  /\ UNCHANGED <<queueVars, idVars, clock, evtime, cancelled>>

(* The rest of execute_obj_func for a periodic job: a copy of the object    *)
(* takes over the command and goes back into the queue.                     *)
Rearmed(q, i, uid) ==
  AddInside([q EXCEPT ![i].cmd = FALSE],
            [q[i] EXCEPT !.uid = uid, !.time = Plus(evtime, q[i].period),
                         !.new = TRUE, !.del = FALSE, !.starts = 0])

(* a variant: the first record is marked, not the one that was executed *)
FinishedFirst(q, uid) == [q EXCEPT ![1].del = TRUE]

(* the end of fqueue_operate *)
Finished(q, uid) == [q EXCEPT ![PosOf(q, uid)].del = TRUE]

(* The command of a job ends, or it had none: the rest of execute_obj_func  *)
(* and of fqueue_operate, then the loop over the queue goes on behind the   *)
(* record.                                                                  *)
JobReturn ==
  /\ Top.at = "job"
  /\ LET i == PosOf(sq, Top.rec)
     IN \E uid \in IF sq[i].period > 0 THEN FreshUids ELSE {Top.rec} :
          LET back == IF sq[i].period > 0 THEN Rearmed(sq, i, uid) ELSE sq
              done == Finished(back, Top.rec)
          IN OperateFrom(done, PosOf(done, Top.rec) + 1, Top.ctime, lock_level,
                         TRUE, Tail(stack))
  /\ is_dirty' = TRUE
  /\ UNCHANGED <<idVars, clock, evtime, cancelled>>

Loops == LoopEvent \/ LoopIdle \/ LoopAgain \/ LoopTimeout \/ LoopInput \/ WaitDone
Commands ==
  \/ \E ms \in Delays \cup Periods, period \in {0} \cup Periods, id \in Ids \cup {0} :
       CmdSchedule(ms, period, id)
  \/ \E id \in Ids \cup {0} : CmdDeschedule(id)
  \/ CmdWait \/ CmdReturn \/ JobReturn

Next == Tick \/ Loops \/ Commands

Spec == Init /\ [][Next]_vars

(* Commands end, the clock runs, and the loop is not kept from going on:    *)
(* again and again no X event is pending, and a select that has come to its *)
(* timeout is not preempted by input each time.                             *)
LoopFairness ==
  /\ WF_vars(Tick) /\ WF_vars(LoopAgain) /\ WF_vars(WaitDone)
  /\ SF_vars(LoopIdle) /\ SF_vars(LoopTimeout)
  /\ SF_vars(CmdReturn) /\ SF_vars(JobReturn)

(* Somebody uses the display: input and events with a current time stamp    *)
(* arrive.                                                                  *)
UserFairness ==
  WF_vars(LoopInput) /\ SF_vars(LoopEvent /\ evtime' = Stamped(clock))

(* The window that a Wait command waits for appears. *)
WaitFairness == SF_vars(LoopEvent /\ stack'[2].at = "woken")

FairSpec == Spec /\ LoopFairness /\ UserFairness
FairWaitSpec == FairSpec /\ WaitFairness
-----------------------------------------------------------------------------
TypeOK ==
  /\ sq \in Seq(Record)
  /\ lock_level \in Nat /\ is_dirty \in BOOLEAN
  /\ last_schedule_id \in AllIds \cup {0} /\ next_schedule_id \in MinId .. -1
  /\ clock \in 0 .. ClockMod - 1 /\ evtime \in 0 .. ClockMod - 1
  /\ stack \in Seq(Frame) /\ stack # <<>>

UniqueUids == \A i, j \in DOMAIN sq : sq[i].uid = sq[j].uid => i = j

(* fqueue.c frees a record only when nobody iterates over the queue: every  *)
(* call of squeue_execute on the stack holds one lock and its record t,     *)
(* whose t->next it will read, is still in the queue.                       *)
Pinned ==
  /\ lock_level = Cardinality(JobFrames)
  /\ \A f \in JobFrames : stack[f].rec \in Used(sq)
  /\ UniqueUids

(* When nobody iterates, no record is left over from an earlier iteration:  *)
(* whatever was marked is gone, whatever was added can be executed.         *)
CleanWhenUnlocked ==
  lock_level = 0 => \A i \in DOMAIN sq : Eligible(sq[i])

(* schedule.c, squeue_get_next_ms relies on it: the queue is in the order   *)
(* of time_to_execute, whatever was added, put back and marked meanwhile.   *)
QueueSorted ==
  \A i, j \in DOMAIN sq : i < j => CmpTimes(sq[i].time, sq[j].time) <= 0

(* The select of My_XNextEvent never sleeps past the time of a job that is  *)
(* still to be run (by one millisecond if it is due already).               *)
NoOversleep ==
  Top.at = "select" =>
    \A i \in DOMAIN sq :
      ~sq[i].del =>
        /\ Top.ms >= 0
        /\ \/ Top.ms <= 1
           \/ CmpTimes(Plus(evtime, Top.ms), sq[i].time) <= 0

(* The two together: select sleeps for the first job, and that is the next. *)
QueueOrder == QueueSorted /\ NoOversleep

(* A job that has finished is never started again: a record that is still   *)
(* to be run was started exactly by the calls of squeue_execute that are    *)
(* still running it.  (Nested calls can start one job twice: see AtMostOnce) *)
FinishedStaysFinished ==
  \A i \in DOMAIN sq :
    ~sq[i].del =>
      sq[i].starts = Cardinality({f \in JobFrames : stack[f].rec = sq[i].uid})

(* A Deschedule issued while no job is running is final: until the next     *)
(* Schedule with that id, the queue holds no record of the group.           *)
IdleDescheduleSticks ==
  \A i \in DOMAIN sq :
    sq[i].id \in DOMAIN cancelled => cancelled[sq[i].id] # "idle"

(* Without Wait, each Schedule command has at most one record to be run,    *)
(* which still has its command: putting a periodic job back never doubles   *)
(* it and never loses the command string.                                   *)
OneRecordPerJob ==
  \A i, j \in DOMAIN sq :
    ~sq[i].del /\ ~sq[j].del => (sq[i].line = sq[j].line => i = j) /\ sq[i].cmd

(* Without Wait no job is lost, doubled, revived or started once too often. *)
JobsKept == FinishedStaysFinished /\ IdleDescheduleSticks /\ OneRecordPerJob

Unstarted(u) == \E i \in DOMAIN sq : sq[i].uid = u /\ ~sq[i].del /\ sq[i].starts = 0

IsDue(u) == \E i \in DOMAIN sq : sq[i].uid = u /\ CmpTimes(clock, sq[i].time) >= 0

(* A job whose time has come is started, unless it is descheduled first. *)
DueJobsRun == \A u \in Uids : (Unstarted(u) /\ IsDue(u)) ~> ~Unstarted(u)
-----------------------------------------------------------------------------
(* What the documentation and the comments say, and the code does not do *)

(* fqueue.c: "Schedule the object for deletion if it was executed": a       *)
(* record is executed at most once.                                         *)
AtMostOnce == \A i \in DOMAIN sq : sq[i].starts <= 1

(* Schedule.xml: "The command is executed after about delay_ms              *)
(* milliseconds".                                                           *)
ScheduledJobsRun == \A u \in Uids : Unstarted(u) ~> ~Unstarted(u)
=============================================================================
