------------------------------ MODULE JobQueue ------------------------------
(***************************************************************************)
(* What the manual promises of Schedule and Deschedule                     *)
(* (legacy/doc/commands/Schedule.xml, Deschedule.xml), without queue       *)
(* records, locks, clocks or an event loop: a set of jobs that are still   *)
(* to be started and the jobs whose commands are running.  A job is        *)
(* started once, or once per period; cancelling a group is final for the   *)
(* jobs of it that are waiting.                                            *)
(***************************************************************************)
EXTENDS Integers

CONSTANTS Names,   \* what tells the jobs of one group apart
          Groups   \* the job group ids

VARIABLES pending, running

jobVars == <<pending, running>>

Jobs == [line : Names, id : Groups, periodic : BOOLEAN]

Init == pending = {} /\ running = {}

Submit(j) ==
  /\ \A k \in pending \cup running : k.line # j.line
  /\ pending' = pending \cup {j}
  /\ UNCHANGED running

(* All waiting jobs of the group go, except that jobs submitted while some  *)
(* job is running may be spared. A running job goes on, and a periodic one  *)
(* that cancels its own group is put back all the same.                     *)
Cancel(id) ==
  /\ \E spared \in SUBSET {j \in pending : j.id = id} :
       /\ running = {} => spared = {}
       /\ pending' = {j \in pending : j.id = id => j \in spared}
  /\ UNCHANGED running

(* One job at most ends and one at most starts.  A periodic job that ends   *)
(* is pending again.                                                        *)
Proceed(ends, starts) ==
  /\ starts \subseteq pending
  /\ running' = (running \ ends) \cup starts
  /\ pending' = (pending \ starts) \cup {j \in ends : j.periodic}

AtMostOne(S) == {{}} \cup {{x} : x \in S}

Next ==
  \/ \E j \in Jobs : Submit(j)
  \/ \E id \in Groups : Cancel(id)
  \/ \E ends \in AtMostOne(running), starts \in AtMostOne(pending) : Proceed(ends, starts)

Spec == Init /\ [][Next]_jobVars
=============================================================================
