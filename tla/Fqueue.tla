------------------------------- MODULE Fqueue -------------------------------
(***************************************************************************)
(* The lockable queue of libs/fqueue.c, as operators on values.            *)
(*                                                                         *)
(* A queue is the sequence of its records, first to last.  A record is a   *)
(* TLA+ record with the two flags of fqueue_record,                        *)
(*      del   is_scheduled_for_deletion                                    *)
(*      new   is_just_created                                              *)
(* and the fields of its object.  Scheduling and executing a record calls  *)
(* back into the queue's user, so the loops over a queue are actions of    *)
(* the modules that use it; here is what one call does without a callback. *)
(***************************************************************************)
EXTENDS Subsequences

(* fqueue_operate and the two "skip" tests of the queue functions *)
Eligible(r) == ~r.del /\ ~r.new

(* fqueue_add_inside once the search loop has stopped at position p *)
AddAt(q, p, r) ==
  [i \in 1 .. Len(q) + 1 |->
     IF i < p THEN q[i] ELSE IF i = p THEN r ELSE q[i - 1]]

(* The positions that fqueue_cleanup_queue keeps, and what it leaves *)
Kept(q) == {i \in 1 .. Len(q) : ~q[i].del}

Cleanup(q) ==
  LET kept == Subsequence(q, Kept(q))
  IN  [k \in DOMAIN kept |-> [kept[k] EXCEPT !.new = FALSE]]

(* variants: every unlock cleans up; no unlock does *)
UnlockedAlways(q, lockLevel, dirty) == IF dirty THEN Cleanup(q) ELSE q

UnlockedNever(q, lockLevel, dirty) == q

(* fqueue_unlock_queue: only the outermost unlock of a dirty queue cleans up *)
Unlocked(q, lockLevel, dirty) ==
  IF lockLevel = 1 /\ dirty THEN Cleanup(q) ELSE q

(* fqueue_get_first skips what is scheduled for deletion and nothing else;
   0 stands for "the queue is empty" *)
GetFirst(q) ==
  IF Kept(q) = {} THEN 0
  ELSE CHOOSE i \in Kept(q) : \A j \in Kept(q) : i <= j
=============================================================================
