--------------------------- MODULE ScheduleProofs ---------------------------
(***************************************************************************)
(* Proofs about Schedule, for all values of its constants: the types, that *)
(* a record is never freed while a call of squeue_execute points at it     *)
(* (Pinned), and that an unlocked queue holds no leftovers                 *)
(* (CleanWhenUnlocked). The second part is about the jobs: what becomes of *)
(* each from the command Schedule on, the order of the queue, and that the *)
(* scheduler keeps the promises of JobQueue when no command waits.         *)
(***************************************************************************)
EXTENDS ScheduleContract, SubsequenceProofs, SequenceTheorems

USE ScheduleAssumption

AllEligible(q) == \A i \in DOMAIN q : Eligible(q[i])
Distinct(q) == \A i, j \in DOMAIN q : q[i].uid = q[j].uid => i = j
HeldIn(s) == {s[f].rec : f \in JobsIn(s)}

(* The outermost call is the main loop, which never returns. *)
MainLoop(s) == s # <<>> /\ s[Len(s)].at \in LoopPoints \ {"woken"}

(* A queue q that s, the call stack, uses consistently.  A locked queue may *)
(* hold marked and new records, and only is_dirty makes the last unlock     *)
(* clean them up; hence the last two lines.                                 *)
Consistent(q, lock, dirty, s) ==
  /\ q \in Seq(Record) /\ Distinct(q)
  /\ s \in Seq(Frame) /\ MainLoop(s)
  /\ lock \in Nat /\ lock = Cardinality(JobsIn(s))
  /\ HeldIn(s) \subseteq Used(q)
  /\ dirty \in BOOLEAN
  /\ ~dirty => AllEligible(q)
  /\ lock = 0 => AllEligible(q)

ScalarsOK ==
  /\ last_schedule_id \in AllIds \cup {0} /\ next_schedule_id \in MinId .. -1
  /\ clock \in 0 .. ClockMod - 1 /\ evtime \in 0 .. ClockMod - 1

(* The inductive invariant *)
IInv == Consistent(sq, lock_level, is_dirty, stack) /\ ScalarsOK

LEMMA IInvImplies == IInv => TypeOK /\ Pinned /\ CleanWhenUnlocked
BY DEF IInv, Consistent, ScalarsOK, TypeOK, Pinned, CleanWhenUnlocked,
       UniqueUids, Distinct, MainLoop, HeldIn, JobFrames, AllEligible
-----------------------------------------------------------------------------
(* Records *)

(* fqueue_add_inside inserts the new record and keeps all others, in order. *)
LEMMA AddAtKeeps ==
  ASSUME NEW S, NEW q \in Seq(S), NEW r \in S, NEW p \in 1 .. Len(q) + 1
  PROVE  /\ AddAt(q, p, r) \in Seq(S)
         /\ Len(AddAt(q, p, r)) = Len(q) + 1
         /\ AddAt(q, p, r)[p] = r
         /\ \A i \in 1 .. Len(q) : i < p => AddAt(q, p, r)[i] = q[i]
         /\ \A i \in 1 .. Len(q) : i >= p => AddAt(q, p, r)[i + 1] = q[i]
         /\ \A j \in 1 .. Len(q) + 1 :
              j # p => AddAt(q, p, r)[j] = q[IF j < p THEN j ELSE j - 1]
BY DEF AddAt

LEMMA KeptFinite ==
  ASSUME NEW q, Len(q) \in Nat
  PROVE  /\ Kept(q) \in SUBSET (1 .. Len(q)) /\ Kept(q) \in SUBSET Nat
         /\ IsFiniteSet(Kept(q)) /\ Cardinality(Kept(q)) \in Nat
BY PositionsFinite DEF Kept

(* fqueue_cleanup_queue leaves a queue of records that were not marked, and *)
(* each of them as it was, but for the flag is_just_created.                *)
LEMMA CleanupKeeps ==
  ASSUME NEW q, Len(q) \in Nat, NEW k \in 1 .. Cardinality(Kept(q))
  PROVE  \E i \in 1 .. Len(q) :
           /\ ~q[i].del /\ Rank(Kept(q), i) = k
           /\ Cleanup(q)[k] = [q[i] EXCEPT !.new = FALSE]
<1>1. PICK i \in Kept(q) : Rank(Kept(q), i) = k /\ Subsequence(q, Kept(q))[k] = q[i]
  <2>1. Kept(q) \in SUBSET Nat /\ IsFiniteSet(Kept(q))
    BY KeptFinite
  <2> HIDE ScheduleAssumption
  <2> QED BY <2>1, SubsequenceAt, Zenon
<1>2. k \in DOMAIN Subsequence(q, Kept(q))
  BY DEF Subsequence
<1>3. Cleanup(q)[k] = [q[i] EXCEPT !.new = FALSE]
  BY <1>1, <1>2 DEF Cleanup
<1> QED BY <1>1, <1>3 DEF Kept

LEMMA RecordUpdates ==
  ASSUME NEW r \in Record
  PROVE  /\ [r EXCEPT !.new = FALSE] \in Record
         /\ [r EXCEPT !.new = FALSE].uid = r.uid
         /\ [r EXCEPT !.new = FALSE].del = r.del
         /\ [r EXCEPT !.new = FALSE].new = FALSE
         /\ [r EXCEPT !.del = TRUE] \in Record
         /\ [r EXCEPT !.del = TRUE].uid = r.uid
         /\ [r EXCEPT !.cmd = FALSE] \in Record
         /\ [r EXCEPT !.cmd = FALSE].uid = r.uid
         /\ [r EXCEPT !.starts = @ + 1] \in Record
         /\ [r EXCEPT !.starts = @ + 1].uid = r.uid
         /\ [r EXCEPT !.starts = @ + 1].del = r.del
         /\ [r EXCEPT !.starts = @ + 1].new = r.new
<1>1. /\ [r EXCEPT !.new = FALSE] \in Record
      /\ [r EXCEPT !.new = FALSE].uid = r.uid
      /\ [r EXCEPT !.new = FALSE].del = r.del
      /\ [r EXCEPT !.new = FALSE].new = FALSE
  BY DEF Record
<1>2. /\ [r EXCEPT !.del = TRUE] \in Record
      /\ [r EXCEPT !.del = TRUE].uid = r.uid
  BY DEF Record
<1>3. /\ [r EXCEPT !.cmd = FALSE] \in Record
      /\ [r EXCEPT !.cmd = FALSE].uid = r.uid
  BY DEF Record
<1>4. r.starts + 1 \in Nat
  BY DEF Record
<1>5. /\ [r EXCEPT !.starts = @ + 1] \in Record
      /\ [r EXCEPT !.starts = @ + 1].uid = r.uid
      /\ [r EXCEPT !.starts = @ + 1].del = r.del
      /\ [r EXCEPT !.starts = @ + 1].new = r.new
  BY <1>4 DEF Record
<1> QED BY <1>1, <1>2, <1>3, <1>5
-----------------------------------------------------------------------------
(* Queues of records *)

(* Changing one record in place, but not its name, keeps all names. *)
LEMMA UpdateKeeps ==
  ASSUME NEW q \in Seq(Record), Distinct(q), NEW i \in DOMAIN q,
         NEW r \in Record, r.uid = q[i].uid
  PROVE  /\ [q EXCEPT ![i] = r] \in Seq(Record)
         /\ Len([q EXCEPT ![i] = r]) = Len(q)
         /\ DOMAIN [q EXCEPT ![i] = r] = DOMAIN q
         /\ Distinct([q EXCEPT ![i] = r])
         /\ Used([q EXCEPT ![i] = r]) = Used(q)
<1> DEFINE p == [q EXCEPT ![i] = r]
<1>1. p \in Seq(Record) /\ Len(p) = Len(q) /\ DOMAIN p = DOMAIN q
  OBVIOUS
<1>2. \A j \in DOMAIN q : p[j].uid = q[j].uid
  OBVIOUS
<1> HIDE DEF p
<1>3. Distinct(p)
  BY <1>1, <1>2 DEF Distinct
<1>4. Used(p) = Used(q)
  BY <1>1, <1>2 DEF Used
<1> QED BY <1>1, <1>3, <1>4 DEF p

LEMMA InsertPosType ==
  ASSUME NEW q \in Seq(Record), NEW r
  PROVE  InsertPos(q, r) \in 1 .. Len(q) + 1
<1> DEFINE later == {i \in DOMAIN q : CmpTimes(r.time, q[i].time) < 0}
<1>1. later \in SUBSET Nat /\ later \subseteq 1 .. Len(q)
  OBVIOUS
<1>2. later # {} => \E i \in later : \A j \in later : i <= j
  <2> HIDE DEF later
  <2> QED BY <1>1, NatSetHasMin
<1>3. CASE later = {}
  BY <1>3 DEF InsertPos
<1>4. CASE later # {}
  <2>1. (CHOOSE i \in later : \A j \in later : i <= j) \in later
    <3> HIDE DEF later
    <3> QED BY <1>2, <1>4
  <2> QED BY <1>4, <1>1, <2>1 DEF InsertPos
<1> QED BY <1>3, <1>4

LEMMA AddInsideKeeps ==
  ASSUME NEW q \in Seq(Record), Distinct(q),
         NEW r \in Record, r.uid \notin Used(q)
  PROVE  /\ AddInside(q, r) \in Seq(Record)
         /\ Distinct(AddInside(q, r))
         /\ Used(AddInside(q, r)) = Used(q) \cup {r.uid}
         /\ AllEligible(q) /\ Eligible(r) => AllEligible(AddInside(q, r))
<1> DEFINE p == InsertPos(q, r)
           a == AddAt(q, p, r)
<1>1. p \in 1 .. Len(q) + 1
  BY InsertPosType
<1>2. /\ a \in Seq(Record) /\ Len(a) = Len(q) + 1
      /\ a[p] = r
      /\ \A i \in 1 .. Len(q) : i < p => a[i] = q[i]
      /\ \A i \in 1 .. Len(q) : i >= p => a[i + 1] = q[i]
      /\ \A j \in 1 .. Len(q) + 1 : j # p => a[j] = q[IF j < p THEN j ELSE j - 1]
  <2> HIDE DEF p
  <2> QED BY <1>1, AddAtKeeps
<1>3. DOMAIN a = 1 .. Len(q) + 1 /\ DOMAIN q = 1 .. Len(q) /\ Len(q) \in Nat
  <2> HIDE DEF a
  <2> QED BY <1>2
<1> DEFINE old(j) == IF j < p THEN j ELSE j - 1
<1>4. \A j \in DOMAIN a : j # p => old(j) \in DOMAIN q /\ a[j] = q[old(j)]
  <2> HIDE DEF a, p
  <2> QED BY <1>1, <1>2, <1>3
<1>5. \A j, k \in DOMAIN a : j # p /\ k # p /\ j # k => old(j) # old(k)
  <2> HIDE DEF a, p
  <2> QED BY <1>1, <1>3
<1>6. \A j \in DOMAIN q : q[j].uid # r.uid
  BY DEF Used
<1>7. Distinct(a)
  <2> HIDE DEF a, p, old
  <2> QED BY <1>2, <1>4, <1>5, <1>6 DEF Distinct
<1>8. Used(a) = Used(q) \cup {r.uid}
  <2>1. ASSUME NEW j \in DOMAIN a PROVE a[j].uid \in Used(q) \cup {r.uid}
    <3> HIDE DEF a, p, old
    <3> QED BY <1>2, <1>4 DEF Used
  <2>2. ASSUME NEW i \in DOMAIN q PROVE \E j \in DOMAIN a : a[j].uid = q[i].uid
    <3> HIDE DEF a, p
    <3>1. CASE i < p
      BY <3>1, <1>2, <1>3
    <3>2. CASE i >= p
      BY <3>2, <1>2, <1>3
    <3> QED BY <3>1, <3>2, <1>1, <1>3
  <2>3. \E j \in DOMAIN a : a[j].uid = r.uid
    <3> HIDE DEF a, p
    <3> QED BY <1>1, <1>2, <1>3
  <2> HIDE DEF a
  <2> QED BY <2>1, <2>2, <2>3 DEF Used
<1>9. AllEligible(q) /\ Eligible(r) => AllEligible(a)
  <2> HIDE DEF a, p, old
  <2> QED BY <1>2, <1>4 DEF AllEligible
<1>10. AddInside(q, r) = a
  BY DEF AddInside
<1> HIDE DEF a
<1> QED BY <1>2, <1>7, <1>8, <1>9, <1>10

LEMMA CleanupType ==
  ASSUME NEW q \in Seq(Record), Distinct(q)
  PROVE  /\ Cleanup(q) \in Seq(Record)
         /\ Distinct(Cleanup(q))
         /\ AllEligible(Cleanup(q))
<1> DEFINE c == Cleanup(q)
           n == Cardinality(Kept(q))
<1>1. Len(q) \in Nat /\ n \in Nat /\ DOMAIN q = 1 .. Len(q)
  BY KeptFinite
<1>2. DOMAIN c = 1 .. n
  BY DEF Cleanup, Subsequence
<1>3. \A k \in 1 .. n : \E i \in DOMAIN q :
        ~q[i].del /\ Rank(Kept(q), i) = k /\ c[k] = [q[i] EXCEPT !.new = FALSE]
  BY <1>1, CleanupKeeps
<1>4. \A k \in 1 .. n : \E i \in DOMAIN q :
        /\ Rank(Kept(q), i) = k /\ c[k] \in Record /\ c[k].uid = q[i].uid
        /\ ~c[k].del /\ ~c[k].new
  <2> SUFFICES ASSUME NEW k \in 1 .. n
               PROVE  \E i \in DOMAIN q :
                        /\ Rank(Kept(q), i) = k /\ c[k] \in Record /\ c[k].uid = q[i].uid
                        /\ ~c[k].del /\ ~c[k].new
    OBVIOUS
  <2>1. PICK i \in DOMAIN q :
          ~q[i].del /\ Rank(Kept(q), i) = k /\ c[k] = [q[i] EXCEPT !.new = FALSE]
    BY <1>3
  <2>2. q[i] \in Record
    OBVIOUS
  <2> HIDE DEF c
  <2> QED BY <2>1, <2>2, RecordUpdates, ZenonT(60)
<1>5. c \in [1 .. n -> Record]
  BY <1>2, <1>4 DEF Cleanup
<1>6. c \in Seq(Record)
  <2> HIDE DEF c, n
  <2> QED BY <1>1, <1>5
<1>7. Distinct(c)
  <2> HIDE DEF c, n
  <2> QED BY <1>2, <1>4 DEF Distinct
<1>8. AllEligible(c)
  <2> HIDE DEF c, n
  <2> QED BY <1>2, <1>4 DEF AllEligible, Eligible
<1> QED BY <1>6, <1>7, <1>8

(* Deschedule marks records and changes nothing else; if it marks none, the *)
(* queue is as it was.                                                      *)
LEMMA MarkedKeeps ==
  ASSUME NEW q \in Seq(Record), Distinct(q), NEW id
  PROVE  /\ Marked(q, id) \in Seq(Record)
         /\ Distinct(Marked(q, id))
         /\ Used(Marked(q, id)) = Used(q)
<1> DEFINE m == Marked(q, id)
<1>1. DOMAIN m = DOMAIN q /\ DOMAIN q = 1 .. Len(q) /\ Len(q) \in Nat
  BY DEF Marked
<1>2. ASSUME NEW i \in DOMAIN q
      PROVE  m[i] \in Record /\ m[i].uid = q[i].uid
  <2>1. q[i] \in Record
    OBVIOUS
  <2>2. m[i] = q[i] \/ m[i] = [q[i] EXCEPT !.del = TRUE]
    BY DEF Marked
  <2> HIDE DEF m
  <2> QED BY <2>1, <2>2, RecordUpdates
<1>3. m \in [1 .. Len(q) -> Record]
  BY <1>1, <1>2 DEF Marked
<1> HIDE DEF m
<1>4. m \in Seq(Record)
  BY <1>1, <1>3
<1>5. Distinct(m) /\ Used(m) = Used(q)
  BY <1>1, <1>2 DEF Distinct, Used
<1> QED BY <1>4, <1>5 DEF m

LEMMA PosOfType ==
  ASSUME NEW q, NEW uid \in Used(q)
  PROVE  PosOf(q, uid) \in DOMAIN q /\ q[PosOf(q, uid)].uid = uid
BY DEF PosOf, Used

LEMMA ScanType ==
  ASSUME NEW q \in Seq(Record), NEW from \in Nat \ {0}, NEW ct
  PROVE  Scan(q, from, ct) = 0 \/ Scan(q, from, ct) \in DOMAIN q
<1> DEFINE due == {i \in from .. Len(q) : Due(q[i], ct)}
<1>1. due \in SUBSET Nat /\ due \subseteq DOMAIN q
  OBVIOUS
<1>2. due # {} => \E i \in due : \A j \in due : i <= j
  <2> HIDE DEF due
  <2> QED BY <1>1, NatSetHasMin
<1>3. CASE due = {}
  BY <1>3 DEF Scan
<1>4. CASE due # {}
  <2>1. (CHOOSE i \in due : \A j \in due : i <= j) \in due
    <3> HIDE DEF due
    <3> QED BY <1>2, <1>4
  <2> QED BY <1>4, <1>1, <2>1 DEF Scan
<1> QED BY <1>3, <1>4

(* The timeout of select. *)
LEMMA GetNextMsType ==
  ASSUME NEW q \in Seq(Record), NEW et \in Times
  PROVE  GetNextMs(q, et) \in Int
<1>1. Kept(q) \in SUBSET Nat /\ Kept(q) \subseteq DOMAIN q
  BY KeptFinite
<1>2. Kept(q) # {} => \E i \in Kept(q) : \A j \in Kept(q) : i <= j
  BY <1>1, NatSetHasMin
<1>3. GetFirst(q) = 0 \/ GetFirst(q) \in DOMAIN q
  BY <1>1, <1>2 DEF GetFirst
<1>4. CASE GetFirst(q) = 0
  BY <1>4 DEF GetNextMs
<1>5. CASE GetFirst(q) \in DOMAIN q
  <2> DEFINE first == GetFirst(q)
  <2>0. q[first] \in Record
    BY <1>5
  <2>1. q[GetFirst(q)].time \in Int
    <3> HIDE DEF first
    <3>1. q[first].time \in Int
      BY <2>0 DEF Record, Times
    <3> QED BY <3>1 DEF first
  <2>2. (q[GetFirst(q)].time - et) % TimeMod \in Int
    BY <2>1 DEF Times
  <2> QED BY <1>5, <2>2 DEF GetNextMs
<1> QED BY <1>3, <1>4, <1>5
-----------------------------------------------------------------------------
(* Call stacks *)

LEMMA JobsFinite ==
  ASSUME NEW s \in Seq(Frame)
  PROVE  /\ JobsIn(s) \in SUBSET (1 .. Len(s))
         /\ IsFiniteSet(JobsIn(s)) /\ Cardinality(JobsIn(s)) \in Nat
<1>1. DOMAIN s = 1 .. Len(s) /\ Len(s) \in Nat
  OBVIOUS
<1>2. JobsIn(s) \in SUBSET (1 .. Len(s))
  BY <1>1 DEF JobsIn
<1>3. IsFiniteSet(1 .. Len(s))
  BY <1>1, FS_Interval
<1> QED BY <1>2, <1>3, FS_Subset, FS_CardinalityType

(* Calling adds one frame; the job frames below are those of the caller. *)
LEMMA PushFrame ==
  ASSUME NEW s \in Seq(Frame), NEW f \in Frame
  PROVE  /\ <<f>> \o s \in Seq(Frame)
         /\ MainLoop(s) => MainLoop(<<f>> \o s)
         /\ IsFiniteSet(JobsIn(<<f>> \o s))
         /\ Cardinality(JobsIn(<<f>> \o s)) =
              Cardinality(JobsIn(s)) + (IF f.at = "job" THEN 1 ELSE 0)
         /\ HeldIn(<<f>> \o s) =
              HeldIn(s) \cup (IF f.at = "job" THEN {f.rec} ELSE {})
<1> DEFINE t == <<f>> \o s
           up == {i + 1 : i \in JobsIn(s)}
           shift == [i \in JobsIn(s) |-> i + 1]
<1>1. /\ t \in Seq(Frame) /\ t # <<>> /\ Len(t) = Len(s) + 1 /\ Len(s) \in Nat
      /\ DOMAIN t = 1 .. Len(s) + 1 /\ DOMAIN s = 1 .. Len(s)
      /\ t[1] = f /\ \A i \in 1 .. Len(s) : t[i + 1] = s[i]
  OBVIOUS
<1> HIDE DEF t
<1>2. JobsIn(s) \in SUBSET (1 .. Len(s))
  BY JobsFinite
<1>3. IsFiniteSet(JobsIn(s)) /\ Cardinality(JobsIn(s)) \in Nat
  BY JobsFinite
<1>4. JobsIn(t) = up \cup (IF f.at = "job" THEN {1} ELSE {})
  <2>1. ASSUME NEW i \in JobsIn(t), i # 1 PROVE i - 1 \in JobsIn(s) /\ (i - 1) + 1 = i
    BY <1>1, <2>1 DEF JobsIn
  <2>2. ASSUME NEW i \in JobsIn(s) PROVE i + 1 \in JobsIn(t)
    BY <1>1, <2>2 DEF JobsIn
  <2>3. 1 \in JobsIn(t) <=> f.at = "job"
    BY <1>1 DEF JobsIn
  <2> QED BY <2>1, <2>2, <2>3
<1>5. 1 \notin up
  BY <1>2
<1>6. IsFiniteSet(up) /\ Cardinality(up) = Cardinality(JobsIn(s))
  <2>1. shift \in Surjection(JobsIn(s), up)
    BY DEF Surjection
  <2>2. shift \in Injection(JobsIn(s), up)
    BY <1>2 DEF Injection, IsInjective
  <2> HIDE DEF shift, up
  <2> QED BY <2>1, <2>2, <1>3, FS_Surjection
<1>7. /\ IsFiniteSet(JobsIn(t))
      /\ Cardinality(JobsIn(t)) =
           Cardinality(JobsIn(s)) + (IF f.at = "job" THEN 1 ELSE 0)
  <2> HIDE DEF up
  <2>1. CASE f.at = "job"
    BY <2>1, <1>3, <1>4, <1>5, <1>6, FS_AddElement
  <2>2. CASE f.at # "job"
    BY <2>2, <1>3, <1>4, <1>6
  <2> QED BY <2>1, <2>2
<1>8. HeldIn(t) = HeldIn(s) \cup (IF f.at = "job" THEN {f.rec} ELSE {})
  <2>1. ASSUME NEW i \in JobsIn(s) PROVE t[i + 1].rec = s[i].rec
    BY <1>1, <1>2
  <2> QED BY <1>1, <1>4, <2>1 DEF HeldIn
<1>9. MainLoop(s) => MainLoop(t)
  <2>1. s # <<>> => Len(t) = Len(s) + 1 /\ t[Len(s) + 1] = s[Len(s)]
    BY <1>1
  <2> QED BY <1>1, <2>1 DEF MainLoop
<1> QED BY <1>1, <1>7, <1>8, <1>9 DEF t

(* A stack is its innermost frame on the stack of its callers. *)
LEMMA TopAndRest ==
  ASSUME NEW s \in Seq(Frame), s # <<>>
  PROVE  s[1] \in Frame /\ Tail(s) \in Seq(Frame) /\ s = <<s[1]>> \o Tail(s)
OBVIOUS

LEMMA NoJobsHoldNothing ==
  ASSUME NEW s \in Seq(Frame), Cardinality(JobsIn(s)) = 0
  PROVE  HeldIn(s) = {}
<1>1. IsFiniteSet(JobsIn(s))
  BY JobsFinite
<1>2. JobsIn(s) = {}
  BY <1>1, FS_EmptySet
<1> QED BY <1>2 DEF HeldIn
-----------------------------------------------------------------------------
(* Frames and times *)

LEMMA FrameTypes ==
  /\ \A pc \in LoopPoints, ms \in Int : Loop(pc, ms) \in Frame /\ Loop(pc, ms).at # "job"
  /\ Cmd \in Frame /\ Cmd.at # "job"
  /\ \A r \in Record, ct \in Times :
       Job(r, ct) \in Frame /\ Job(r, ct).at = "job" /\ Job(r, ct).rec = r.uid
<1>1. 0 \in Times
  BY DEF Times
<1>2. \A pc \in LoopPoints, ms \in Int : Loop(pc, ms) \in Frame /\ Loop(pc, ms).at # "job"
  BY <1>1 DEF Loop, Frame, LoopPoints
<1>3. Cmd \in Frame /\ Cmd.at # "job"
  BY <1>1 DEF Cmd, Frame
<1>4. ASSUME NEW r \in Record, NEW ct \in Times
      PROVE  Job(r, ct) \in Frame /\ Job(r, ct).at = "job" /\ Job(r, ct).rec = r.uid
  <2>1. r.uid \in Uids /\ r.cmd \in BOOLEAN
    BY DEF Record
  <2> QED BY <2>1 DEF Job, Frame
<1> QED BY <1>2, <1>3, <1>4

(* Time stamps stay CARD32 values, and sums with them stay Time values. *)
LEMMA TimeTypes ==
  /\ 0 .. ClockMod - 1 \subseteq Times
  /\ \A t \in Times, ms \in Nat : Plus(t, ms) \in Times
  /\ clock \in 0 .. ClockMod - 1 /\ evtime \in 0 .. ClockMod - 1
       => Stamped(clock) \in 0 .. ClockMod - 1
<1>1. 0 .. ClockMod - 1 \subseteq Times
  BY DEF Times
<1>2. ASSUME NEW t \in Times, NEW ms \in Nat PROVE Plus(t, ms) \in Times
  <2>1. t + ms \in Nat
    BY DEF Times
  <2>2. (t + ms) % TimeMod \in 0 .. TimeMod - 1
    BY <2>1
  <2> QED BY <2>2 DEF Plus, Times
<1>3. clock \in 0 .. ClockMod - 1 /\ evtime \in 0 .. ClockMod - 1
        => Stamped(clock) \in 0 .. ClockMod - 1
  BY DEF Stamped
<1> QED BY <1>1, <1>2, <1>3
-----------------------------------------------------------------------------
(* Steps that leave the queue alone *)

(* Goto: the innermost frame goes on at another point *)
LEMMA GotoKeeps ==
  ASSUME NEW s \in Seq(Frame), s # <<>>, s[1].at # "job",
         NEW f \in Frame, f.at # "job"
  PROVE  /\ [s EXCEPT ![1] = f] \in Seq(Frame)
         /\ MainLoop(s) /\ (Len(s) > 1 \/ f.at \in LoopPoints \ {"woken"})
              => MainLoop([s EXCEPT ![1] = f])
         /\ Cardinality(JobsIn([s EXCEPT ![1] = f])) = Cardinality(JobsIn(s))
         /\ HeldIn([s EXCEPT ![1] = f]) = HeldIn(s)
<1> DEFINE t == [s EXCEPT ![1] = f]
<1>1. /\ t \in Seq(Frame) /\ t # <<>> /\ DOMAIN t = DOMAIN s /\ t[1] = f
      /\ Len(t) = Len(s) /\ Len(s) \in DOMAIN s
  OBVIOUS
<1>2. \A i \in DOMAIN s : i # 1 => t[i] = s[i]
  OBVIOUS
<1> HIDE DEF t
<1>3. JobsIn(t) = JobsIn(s)
  BY <1>1, <1>2 DEF JobsIn
<1>4. HeldIn(t) = HeldIn(s)
  BY <1>1, <1>2, <1>3 DEF HeldIn, JobsIn
<1>5. MainLoop(s) /\ (Len(s) > 1 \/ f.at \in LoopPoints \ {"woken"}) => MainLoop(t)
  BY <1>1, <1>2 DEF MainLoop
<1> QED BY <1>1, <1>3, <1>4, <1>5 DEF t

(* A call pushes a frame that is not a job. *)
LEMMA CallKeeps ==
  ASSUME NEW s \in Seq(Frame), NEW f \in Frame, f.at # "job"
  PROVE  /\ <<f>> \o s \in Seq(Frame)
         /\ MainLoop(s) => MainLoop(<<f>> \o s)
         /\ Cardinality(JobsIn(<<f>> \o s)) = Cardinality(JobsIn(s))
         /\ HeldIn(<<f>> \o s) = HeldIn(s)
<1>1. Cardinality(JobsIn(s)) \in Nat
  BY JobsFinite
<1> DEFINE t == <<f>> \o s
<1>2. /\ t \in Seq(Frame) /\ (MainLoop(s) => MainLoop(t))
      /\ Cardinality(JobsIn(t)) = Cardinality(JobsIn(s)) + (IF f.at = "job" THEN 1 ELSE 0)
      /\ HeldIn(t) = HeldIn(s) \cup (IF f.at = "job" THEN {f.rec} ELSE {})
  BY PushFrame
<1> HIDE DEF t
<1>3. Cardinality(JobsIn(t)) = Cardinality(JobsIn(s))
  BY <1>1, <1>2
<1>4. HeldIn(t) = HeldIn(s)
  BY <1>2
<1> QED BY <1>2, <1>3, <1>4 DEF t

(* A return pops a frame; the main loop stays. *)
LEMMA TailMainLoop ==
  ASSUME NEW s \in Seq(Frame), MainLoop(s), s[1].at \notin LoopPoints \ {"woken"}
  PROVE  Tail(s) \in Seq(Frame) /\ MainLoop(Tail(s))
<1>1. Len(s) \in Nat /\ Len(s) > 1
  BY DEF MainLoop
<1>2. Tail(s) \in Seq(Frame) /\ Len(Tail(s)) = Len(s) - 1
  BY <1>1
<1>3. \A i \in 1 .. Len(s) - 1 : Tail(s)[i] = s[i + 1]
  BY <1>1
<1>4. Tail(s)[Len(Tail(s))] = s[Len(s)]
  BY <1>1, <1>2, <1>3
<1>5. Tail(s) # <<>>
  <2>1. Len(Tail(s)) # 0
    BY <1>1, <1>2
  <2>2. Len(<<>>) = 0
    OBVIOUS
  <2> QED BY <2>1, <2>2
<1> QED BY <1>2, <1>4, <1>5 DEF MainLoop

(* A return from a frame that is not a job *)
LEMMA ReturnKeeps ==
  ASSUME NEW s \in Seq(Frame), s # <<>>, s[1].at # "job"
  PROVE  /\ Tail(s) \in Seq(Frame)
         /\ Cardinality(JobsIn(Tail(s))) = Cardinality(JobsIn(s))
         /\ HeldIn(Tail(s)) = HeldIn(s)
<1>1. s[1] \in Frame /\ Tail(s) \in Seq(Frame) /\ s = <<s[1]>> \o Tail(s)
  BY TopAndRest
<1> QED BY <1>1, CallKeeps
-----------------------------------------------------------------------------
(* The loop of fqueue_remove_or_operate_all: q is the queue when the loop    *)
(* goes on, lock its lock level with this call's lock, rest the callers.     *)
LEMMA OperateFromKeeps ==
  ASSUME NEW q \in Seq(Record), Distinct(q), NEW from \in Nat \ {0},
         NEW ct \in Times, NEW lock, NEW dirty \in BOOLEAN,
         ~dirty => AllEligible(q),
         NEW rest \in Seq(Frame), MainLoop(rest),
         lock = Cardinality(JobsIn(rest)) + 1, HeldIn(rest) \subseteq Used(q),
         OperateFrom(q, from, ct, lock, dirty, rest), is_dirty' = dirty
  PROVE  Consistent(sq, lock_level, is_dirty, stack)'
<1> DEFINE i == Scan(q, from, ct)
<1>1. Cardinality(JobsIn(rest)) \in Nat
  BY JobsFinite
<1>2. CASE i # 0
  <2> DEFINE r == [q[i] EXCEPT !.starts = @ + 1]
  <2>1. i \in DOMAIN q
    BY <1>2, ScanType
  <2>2. q[i] \in Record
    BY <2>1
  <2>3. sq' = [q EXCEPT ![i] = r] /\ lock_level' = lock /\ stack' = <<Job(q[i], ct)>> \o rest
    BY <1>2 DEF OperateFrom
  <2>4. r \in Record /\ r.uid = q[i].uid /\ (Eligible(q[i]) => Eligible(r))
    <3> HIDE DEF i
    <3> QED BY <2>2, RecordUpdates DEF Eligible
  <2>5. /\ sq' \in Seq(Record) /\ DOMAIN sq' = DOMAIN q
        /\ Distinct(sq') /\ Used(sq') = Used(q)
    <3> HIDE DEF r, i
    <3> QED BY <2>1, <2>3, <2>4, UpdateKeeps
  <2>6. AllEligible(q) => AllEligible(sq')
    <3>1. \A j \in DOMAIN q : sq'[j] = IF j = i THEN r ELSE q[j]
      <4> HIDE DEF r, i
      <4> QED BY <2>1, <2>3
    <3> HIDE DEF r, i
    <3> QED BY <3>1, <2>4, <2>5 DEF AllEligible
  <2>7. Job(q[i], ct) \in Frame /\ Job(q[i], ct).at = "job" /\ Job(q[i], ct).rec = q[i].uid
    BY <2>2, FrameTypes
  <2>8. /\ stack' \in Seq(Frame) /\ MainLoop(stack')
        /\ Cardinality(JobsIn(stack')) = Cardinality(JobsIn(rest)) + 1
        /\ HeldIn(stack') = HeldIn(rest) \cup {q[i].uid}
    <3> DEFINE f == Job(q[i], ct)
    <3> HIDE DEF f
    <3>1. f \in Frame /\ f.at = "job" /\ f.rec = q[i].uid /\ stack' = <<f>> \o rest
      BY <2>3, <2>7 DEF f
    <3> QED BY <3>1, PushFrame
  <2>9. q[i].uid \in Used(q)
    BY <2>1 DEF Used
  <2>10. lock \in Nat /\ lock # 0
    BY <1>1
  <2> HIDE DEF i, r
  <2> QED BY <2>3, <2>5, <2>6, <2>8, <2>9, <2>10 DEF Consistent
<1>3. CASE i = 0
  <2>1. sq' = Unlocked(q, lock, dirty) /\ lock_level' = lock - 1 /\ stack' = rest
    BY <1>3 DEF OperateFrom
  <2>2. lock - 1 = Cardinality(JobsIn(rest)) /\ lock - 1 \in Nat
    BY <1>1
  <2>3. CASE lock = 1 /\ dirty
    <3>1. sq' = Cleanup(q)
      BY <2>1, <2>3 DEF Unlocked
    <3>2. sq' \in Seq(Record) /\ Distinct(sq') /\ AllEligible(sq')
      BY <3>1, CleanupType
    <3>3. HeldIn(rest) = {}
      BY <2>2, <2>3, NoJobsHoldNothing
    <3> QED BY <2>1, <2>2, <3>2, <3>3 DEF Consistent
  <2>4. CASE ~(lock = 1 /\ dirty)
    <3>1. sq' = q
      BY <2>1, <2>4 DEF Unlocked
    <3>2. lock - 1 = 0 => ~dirty
      BY <2>2, <2>4, <1>1
    <3> QED BY <2>1, <2>2, <3>1, <3>2 DEF Consistent
  <2> QED BY <2>3, <2>4
<1> QED BY <1>2, <1>3
-----------------------------------------------------------------------------
(* The steps *)

LEMMA InitHolds == Init => IInv
<1> SUFFICES ASSUME Init PROVE IInv
  OBVIOUS
<1>1. sq = <<>> /\ sq \in Seq(Record) /\ Distinct(sq) /\ AllEligible(sq)
  BY DEF Init, Distinct, AllEligible
<1>2. ScalarsOK
  BY DEF Init, ScalarsOK
<1>3. stack \in Seq(Frame) /\ MainLoop(stack) /\ JobsIn(stack) = {}
  <2>1. Loop("begin", -1) \in Frame /\ Loop("begin", -1).at # "job"
    BY FrameTypes DEF LoopPoints
  <2>2. Loop("begin", -1).at = "begin"
    BY DEF Loop
  <2> QED BY <2>1, <2>2 DEF Init, JobsIn, MainLoop, LoopPoints
<1>4. Cardinality(JobsIn(stack)) = 0 /\ HeldIn(stack) = {}
  BY <1>3, FS_EmptySet DEF HeldIn
<1>5. lock_level = 0 /\ is_dirty = FALSE
  BY DEF Init
<1> QED BY <1>1, <1>2, <1>3, <1>4, <1>5 DEF IInv, Consistent

(* squeue_execute, called by a stack that uses the queue consistently *)
LEMMA SqueueExecuteKeeps ==
  ASSUME IInv, NEW rest \in Seq(Frame), MainLoop(rest),
         Cardinality(JobsIn(rest)) = Cardinality(JobsIn(stack)),
         HeldIn(rest) = HeldIn(stack),
         SqueueExecute(rest)
  PROVE  /\ Consistent(sq, lock_level, is_dirty, stack)'
         /\ evtime' \in 0 .. ClockMod - 1
<1>1. CASE sq = <<>>
  <2>1. UNCHANGED <<sq, lock_level, is_dirty, evtime>> /\ stack' = rest
    BY <1>1 DEF SqueueExecute, queueVars
  <2> QED BY <2>1 DEF IInv, Consistent, ScalarsOK
<1>2. CASE sq # <<>>
  <2>1. /\ evtime' = Stamped(clock) /\ is_dirty' = is_dirty
        /\ OperateFrom(sq, 1, clock, lock_level + 1, is_dirty, rest)
    BY <1>2 DEF SqueueExecute
  <2>2. clock \in Times /\ evtime' \in 0 .. ClockMod - 1
    BY <2>1, TimeTypes DEF IInv, ScalarsOK
  <2>3. /\ sq \in Seq(Record) /\ Distinct(sq) /\ is_dirty \in BOOLEAN
        /\ ~is_dirty => AllEligible(sq)
        /\ lock_level + 1 = Cardinality(JobsIn(rest)) + 1
        /\ HeldIn(rest) \subseteq Used(sq)
    BY DEF IInv, Consistent
  <2>4. Consistent(sq, lock_level, is_dirty, stack)'
    BY <2>1, <2>2, <2>3, OperateFromKeeps
  <2> QED BY <2>2, <2>4
<1> QED BY <1>1, <1>2

LEMMA LoopsKeep == IInv /\ Loops => IInv'
<1> SUFFICES ASSUME IInv, Loops PROVE IInv'
  OBVIOUS
<1>1. /\ Consistent(sq, lock_level, is_dirty, stack) /\ ScalarsOK
      /\ stack \in Seq(Frame) /\ MainLoop(stack) /\ stack # <<>>
  BY DEF IInv, Consistent, MainLoop
<1>2. evtime \in Times /\ Stamped(clock) \in 0 .. ClockMod - 1
  BY <1>1, TimeTypes DEF ScalarsOK
<1>3. GetNextMs(sq, evtime) \in Int
  BY <1>1, <1>2, GetNextMsType DEF Consistent
<1> DEFINE Same(t) == /\ t \in Seq(Frame) /\ MainLoop(t)
                      /\ Cardinality(JobsIn(t)) = Cardinality(JobsIn(stack))
                      /\ HeldIn(t) = HeldIn(stack)
<1>4. ASSUME NEW pc \in LoopPoints, NEW ms \in Int, Top.at # "job",
             pc # "woken" \/ Len(stack) > 1
      PROVE  Same(Goto(pc, ms))
  <2>1. Loop(pc, ms) \in Frame /\ Loop(pc, ms).at # "job" /\ Loop(pc, ms).at = pc
    BY FrameTypes DEF Loop
  <2> QED BY <1>1, <1>4, <2>1, GotoKeeps DEF Goto, Top
<1>5. ASSUME NEW t \in Seq(Frame), Same(t) PROVE Same(<<Cmd>> \o t)
  BY <1>5, FrameTypes, CallKeeps
<1> HIDE DEF Same
<1>6. ASSUME Same(stack'), UNCHANGED <<queueVars, idVars, clock>>,
             evtime' \in 0 .. ClockMod - 1
      PROVE  IInv'
  BY <1>1, <1>6 DEF IInv, Consistent, ScalarsOK, queueVars, idVars, Same
<1>7. ASSUME NEW t, Same(t), SqueueExecute(t), UNCHANGED <<idVars, clock>>
      PROVE  IInv'
  <2>1. Consistent(sq, lock_level, is_dirty, stack)' /\ evtime' \in 0 .. ClockMod - 1
    BY <1>7, SqueueExecuteKeeps DEF Same
  <2> QED BY <1>1, <1>7, <2>1 DEF IInv, ScalarsOK, idVars
<1>8. {"begin", "again", "select", "woken"} = LoopPoints /\ -1 \in Int
  BY DEF LoopPoints
<1>9. evtime \in 0 .. ClockMod - 1
  BY <1>1 DEF ScalarsOK
<1>10. CASE LoopEvent
  <2>0. Waits > 0 => Len(stack) > 1
    <3>1. ASSUME Len(stack) = 1 PROVE Waits = 0
      <4>1. stack[1].at \in LoopPoints /\ DOMAIN stack = {1}
        BY <1>1, <3>1 DEF MainLoop
      <4>2. {i \in DOMAIN stack : stack[i].at \in LoopPoints} = {1}
        BY <4>1
      <4>3. Cardinality({1}) = 1
        BY FS_Singleton
      <4> QED BY <4>2, <4>3 DEF Waits
    <3>2. CASE Len(stack) = 1
      BY <3>1, <3>2
    <3>3. CASE Len(stack) # 1
      <4> DEFINE n == Len(stack)
      <4>1. n \in Nat /\ n # 0 /\ n # 1
        BY <1>1, <3>3
      <4>2. \A m \in Nat : m # 0 /\ m # 1 => m > 1
        OBVIOUS
      <4> QED BY <4>1, <4>2
    <3> QED BY <3>2, <3>3
  <2>1. PICK pc \in {"begin", "woken"} :
          stack' = <<Cmd>> \o Goto(pc, -1) /\ (pc # "woken" \/ Len(stack) > 1)
    BY <1>10, <2>0 DEF LoopEvent
  <2>2. Same(Goto(pc, -1))
    BY <1>4, <1>8, <1>10, <2>1 DEF LoopEvent
  <2>3. Goto(pc, -1) \in Seq(Frame)
    BY <2>2 DEF Same
  <2>4. Same(stack')
    BY <1>5, <2>1, <2>2, <2>3
  <2>5. evtime' \in 0 .. ClockMod - 1
    BY <1>2, <1>9, <1>10 DEF LoopEvent
  <2> QED BY <1>6, <1>10, <2>4, <2>5 DEF LoopEvent
<1>11. CASE LoopIdle
  <2>1. Top.at # "job" /\ UNCHANGED <<idVars, clock>>
    BY <1>11 DEF LoopIdle
  <2>2. CASE GetNextMs(sq, evtime) = 0
    BY <1>4, <1>7, <1>8, <1>11, <2>1, <2>2 DEF LoopIdle
  <2>3. CASE GetNextMs(sq, evtime) # 0
    BY <1>3, <1>4, <1>6, <1>8, <1>9, <1>11, <2>1, <2>3 DEF LoopIdle
  <2> QED BY <2>2, <2>3
<1>12. CASE LoopAgain
  <2>1. PICK ms \in Int : stack' = Goto("select", ms)
    BY <1>3, <1>12 DEF LoopAgain
  <2> QED BY <1>4, <1>6, <1>8, <1>9, <1>12, <2>1 DEF LoopAgain
<1>13. CASE LoopTimeout
  <2>1. Top.at # "job" /\ UNCHANGED <<idVars, clock>> /\ SqueueExecute(Goto("begin", -1))
    BY <1>13 DEF LoopTimeout
  <2>2. Same(Goto("begin", -1))
    BY <1>4, <1>8, <2>1
  <2> QED BY <1>7, <2>1, <2>2
<1>14. CASE LoopInput
  <2>1. Same(Goto("begin", -1))
    BY <1>4, <1>8, <1>14 DEF LoopInput
  <2>2. Same(<<Cmd>> \o Goto("begin", -1))
    BY <1>5, <2>1 DEF Same
  <2> QED BY <1>6, <1>9, <1>14, <2>1, <2>2 DEF LoopInput
<1>15. CASE WaitDone
  <2>1. stack[1].at # "job" /\ stack[1].at \notin LoopPoints \ {"woken"}
        /\ stack' = Tail(stack)
    BY <1>15 DEF WaitDone, Top
  <2>2. Same(stack')
    BY <1>1, <2>1, ReturnKeeps, TailMainLoop DEF Same
  <2> QED BY <1>6, <1>9, <1>15, <2>2 DEF WaitDone
<1> QED BY <1>10, <1>11, <1>12, <1>13, <1>14, <1>15 DEF Loops

LEMMA CmdScheduleKeeps ==
  ASSUME IInv, NEW ms \in Nat, NEW period \in {0} \cup Periods, NEW id \in Ids \cup {0},
         CmdSchedule(ms, period, id)
  PROVE  IInv'
<1> DEFINE theId == IF id = 0 THEN next_schedule_id ELSE id
<1>1. PICK uid \in FreshUids :
        /\ sq' = AddInside(sq,
                   [uid |-> uid, id |-> theId, time |-> Plus(evtime, ms),
                    period |-> period, cmd |-> TRUE, del |-> FALSE,
                    new |-> lock_level > 0, starts |-> 0, line |-> uid])
        /\ last_schedule_id' = theId
  BY DEF CmdSchedule
<1> DEFINE r == [uid |-> uid, id |-> theId, time |-> Plus(evtime, ms),
                 period |-> period, cmd |-> TRUE, del |-> FALSE,
                 new |-> lock_level > 0, starts |-> 0, line |-> uid]
<1>2. /\ Consistent(sq, lock_level, is_dirty, stack) /\ ScalarsOK
      /\ sq \in Seq(Record) /\ Distinct(sq) /\ lock_level \in Nat
  BY DEF IInv, Consistent
<1>3. uid \in Uids /\ uid \notin Used(sq)
  BY DEF FreshUids, Used
<1>4. theId \in AllIds
  BY <1>2 DEF ScalarsOK, AllIds
<1>5. Plus(evtime, ms) \in Times
  BY <1>2, TimeTypes DEF ScalarsOK
<1>6. r \in Record /\ r.uid = uid /\ r.del = FALSE /\ r.new = (lock_level > 0)
  BY <1>2, <1>3, <1>4, <1>5 DEF Record
<1>7. sq' = AddInside(sq, r)
  BY <1>1
<1>8. /\ sq' \in Seq(Record) /\ Distinct(sq') /\ Used(sq') = Used(sq) \cup {uid}
      /\ AllEligible(sq) /\ Eligible(r) => AllEligible(sq')
  <2> HIDE DEF r
  <2> QED BY <1>2, <1>3, <1>6, <1>7, AddInsideKeeps
<1>9. /\ is_dirty' = (is_dirty \/ lock_level > 0)
      /\ UNCHANGED <<lock_level, clock, evtime, stack>>
      /\ next_schedule_id' = IF id = 0 THEN NextId ELSE next_schedule_id
  BY DEF CmdSchedule
<1>10. ASSUME ~is_dirty' PROVE AllEligible(sq')
  <2>1. Eligible(r)
    <3> HIDE DEF r
    <3> QED BY <1>6, <1>9, <1>10 DEF Eligible
  <2> QED BY <1>2, <1>8, <1>9, <1>10, <2>1 DEF Consistent
<1>11. ASSUME lock_level' = 0 PROVE AllEligible(sq')
  <2>1. Eligible(r)
    <3> HIDE DEF r
    <3>1. lock_level = 0
      BY <1>9, <1>11
    <3>2. ~(lock_level > 0)
      BY <3>1
    <3>3. ~r.new
      BY <1>6, <3>2, Zenon
    <3> QED BY <1>6, <3>3 DEF Eligible
  <2> QED BY <1>2, <1>8, <1>9, <1>11, <2>1 DEF Consistent
<1>12. Consistent(sq, lock_level, is_dirty, stack)'
  BY <1>2, <1>8, <1>9, <1>10, <1>11 DEF Consistent
<1>13. next_schedule_id' \in MinId .. -1 /\ last_schedule_id' \in AllIds \cup {0}
  BY <1>1, <1>2, <1>4, <1>9 DEF NextId, ScalarsOK
<1> HIDE DEF r
<1> QED BY <1>2, <1>9, <1>12, <1>13 DEF IInv, ScalarsOK

LEMMA CmdDescheduleKeeps ==
  ASSUME IInv, NEW id, CmdDeschedule(id)
  PROVE  IInv'
<1> DEFINE theId == IF id = 0 THEN last_schedule_id ELSE id
           marked == Marked(sq, theId)
           dirty == is_dirty \/ marked # sq
<1>1. /\ Consistent(sq, lock_level, is_dirty, stack) /\ ScalarsOK
      /\ sq \in Seq(Record) /\ Distinct(sq) /\ lock_level \in Nat
  BY DEF IInv, Consistent
<1>2. UNCHANGED <<lock_level, idVars, clock, evtime, stack>>
  BY DEF CmdDeschedule, queueVars
<1>3. ScalarsOK'
  BY <1>1, <1>2 DEF ScalarsOK, idVars
<1>4. CASE sq = <<>>
  <2>1. UNCHANGED queueVars
    BY <1>4 DEF CmdDeschedule
  <2> QED BY <1>1, <1>2, <1>3, <2>1 DEF IInv, Consistent, queueVars
<1>5. CASE sq # <<>>
  <2>1. sq' = Unlocked(marked, lock_level + 1, dirty) /\ is_dirty' = dirty
    BY <1>5 DEF CmdDeschedule
  <2>2. marked \in Seq(Record) /\ Distinct(marked) /\ Used(marked) = Used(sq)
    BY <1>1, MarkedKeeps
  <2>3. ~dirty => AllEligible(marked)
    BY <1>1 DEF Consistent
  <2>4. dirty \in BOOLEAN
    BY <1>1 DEF Consistent
  <2> HIDE DEF marked, dirty
  <2>5. CASE lock_level = 0 /\ dirty
    <3>1. sq' = Cleanup(marked)
      BY <2>1, <2>5 DEF Unlocked
    <3>2. sq' \in Seq(Record) /\ Distinct(sq') /\ AllEligible(sq')
      BY <2>2, <3>1, CleanupType
    <3>3. HeldIn(stack) = {}
      BY <1>1, <2>5, NoJobsHoldNothing DEF Consistent
    <3>4. Consistent(sq, lock_level, is_dirty, stack)'
      BY <1>1, <1>2, <2>1, <2>4, <3>2, <3>3 DEF Consistent
    <3> QED BY <1>3, <3>4 DEF IInv
  <2>6. CASE ~(lock_level = 0 /\ dirty)
    <3>1. sq' = marked
      BY <1>1, <2>1, <2>6 DEF Unlocked
    <3>2. Consistent(sq, lock_level, is_dirty, stack)'
      BY <1>1, <1>2, <2>1, <2>2, <2>3, <2>4, <2>6, <3>1 DEF Consistent
    <3> QED BY <1>3, <3>2 DEF IInv
  <2> QED BY <2>5, <2>6
<1> QED BY <1>4, <1>5

LEMMA JobReturnKeeps == IInv /\ JobReturn => IInv'
<1> SUFFICES ASSUME IInv, JobReturn PROVE IInv'
  OBVIOUS
<1> DEFINE i == PosOf(sq, Top.rec)
<1>1. /\ Consistent(sq, lock_level, is_dirty, stack) /\ ScalarsOK
      /\ sq \in Seq(Record) /\ Distinct(sq) /\ lock_level \in Nat
      /\ stack \in Seq(Frame) /\ MainLoop(stack) /\ stack # <<>>
  BY DEF IInv, Consistent, MainLoop
<1>2. PICK uid \in IF sq[i].period > 0 THEN FreshUids ELSE {Top.rec} :
        LET back == IF sq[i].period > 0 THEN Rearmed(sq, i, uid) ELSE sq
            done == Finished(back, Top.rec)
        IN OperateFrom(done, PosOf(done, Top.rec) + 1, Top.ctime, lock_level,
                       TRUE, Tail(stack))
  BY DEF JobReturn
<1> DEFINE back == IF sq[i].period > 0 THEN Rearmed(sq, i, uid) ELSE sq
           done == Finished(back, Top.rec)
<1>3. /\ OperateFrom(done, PosOf(done, Top.rec) + 1, Top.ctime, lock_level,
                     TRUE, Tail(stack))
      /\ is_dirty' = TRUE /\ UNCHANGED <<idVars, clock, evtime>>
  BY <1>2 DEF JobReturn
<1>4. stack[1] \in Frame /\ Tail(stack) \in Seq(Frame) /\ stack = <<Top>> \o Tail(stack)
  BY <1>1, TopAndRest DEF Top
<1>5. Top \in Frame /\ Top.at = "job" /\ Top.ctime \in Times
  BY <1>4 DEF Top, JobReturn, Frame
<1>6. /\ lock_level = Cardinality(JobsIn(Tail(stack))) + 1
      /\ HeldIn(stack) = HeldIn(Tail(stack)) \cup {Top.rec}
  <2>1. /\ Cardinality(JobsIn(<<Top>> \o Tail(stack))) =
             Cardinality(JobsIn(Tail(stack))) + (IF Top.at = "job" THEN 1 ELSE 0)
        /\ HeldIn(<<Top>> \o Tail(stack)) =
             HeldIn(Tail(stack)) \cup (IF Top.at = "job" THEN {Top.rec} ELSE {})
    BY <1>4, <1>5, PushFrame
  <2>2. lock_level = Cardinality(JobsIn(stack))
    BY <1>1 DEF Consistent
  <2> QED BY <1>4, <1>5, <2>1, <2>2
<1>7. MainLoop(Tail(stack))
  BY <1>1, <1>5, TailMainLoop DEF Top, LoopPoints
<1>8. Top.rec \in Used(sq) /\ HeldIn(Tail(stack)) \subseteq Used(sq)
  BY <1>1, <1>6 DEF Consistent
<1>9. i \in DOMAIN sq /\ sq[i].uid = Top.rec /\ sq[i] \in Record
  BY <1>1, <1>8, PosOfType
<1>10. back \in Seq(Record) /\ Distinct(back) /\ Used(sq) \subseteq Used(back)
  <2>1. CASE sq[i].period > 0
    <3> DEFINE q == [sq EXCEPT ![i].cmd = FALSE]
               r == [sq[i] EXCEPT !.uid = uid, !.time = Plus(evtime, sq[i].period),
                                  !.new = TRUE, !.del = FALSE, !.starts = 0]
    <3>1. uid \in Uids /\ uid \notin Used(sq)
      BY <1>2, <2>1 DEF FreshUids, Used
    <3>2. [sq[i] EXCEPT !.cmd = FALSE] \in Record /\ [sq[i] EXCEPT !.cmd = FALSE].uid = sq[i].uid
      <4> HIDE DEF i
      <4> QED BY <1>9, RecordUpdates
    <3>3. q = [sq EXCEPT ![i] = [sq[i] EXCEPT !.cmd = FALSE]]
      OBVIOUS
    <3>4. q \in Seq(Record) /\ Distinct(q) /\ Used(q) = Used(sq)
      <4> DEFINE e == [sq[i] EXCEPT !.cmd = FALSE]
      <4>1. e \in Record /\ e.uid = sq[i].uid /\ q = [sq EXCEPT ![i] = e]
        BY <3>2, <3>3
      <4> HIDE DEF e, q, i
      <4> QED BY <1>1, <1>9, <4>1, UpdateKeeps
    <3>5. Plus(evtime, sq[i].period) \in Times
      <4>1. sq[i].period \in Nat
        <5> HIDE DEF i
        <5>1. sq[i].period \in {0} \cup Periods
          BY <1>9 DEF Record
        <5>2. \A p \in {0} \cup Periods : p \in Nat
          OBVIOUS
        <5> QED BY <5>1, <5>2
      <4> HIDE DEF i
      <4> QED BY <1>1, <4>1, TimeTypes DEF ScalarsOK
    <3>6. r \in Record /\ r.uid = uid
      <4> HIDE DEF i
      <4> QED BY <1>9, <3>1, <3>5 DEF Record
    <3>7. back = AddInside(q, r)
      BY <2>1 DEF Rearmed
    <3> HIDE DEF q, r, i, back
    <3> QED BY <3>1, <3>4, <3>6, <3>7, AddInsideKeeps
  <2>2. CASE ~(sq[i].period > 0)
    BY <1>1, <2>2
  <2> QED BY <2>1, <2>2
<1>11. done \in Seq(Record) /\ Distinct(done) /\ Used(done) = Used(back)
  <2> DEFINE k == PosOf(back, Top.rec)
             e == [back[k] EXCEPT !.del = TRUE]
  <2> HIDE DEF i, back
  <2>1. k \in DOMAIN back /\ back[k] \in Record
    BY <1>8, <1>10, PosOfType
  <2>2. e \in Record /\ e.uid = back[k].uid
    <3> HIDE DEF k
    <3> QED BY <2>1, RecordUpdates
  <2>3. done = [back EXCEPT ![k] = e]
    BY DEF Finished
  <2> HIDE DEF k, e, done
  <2> QED BY <1>10, <2>1, <2>2, <2>3, UpdateKeeps
<1> HIDE DEF done, back
<1>12. PosOf(done, Top.rec) + 1 \in Nat \ {0}
  <2>1. PosOf(done, Top.rec) \in DOMAIN done
    BY <1>8, <1>10, <1>11, PosOfType
  <2>2. PosOf(done, Top.rec) \in Nat
    BY <1>11, <2>1
  <2> QED BY <2>2
<1>13. HeldIn(Tail(stack)) \subseteq Used(done)
  BY <1>8, <1>10, <1>11
<1>14. Consistent(sq, lock_level, is_dirty, stack)'
  BY <1>3, <1>4, <1>5, <1>6, <1>7, <1>11, <1>12, <1>13, OperateFromKeeps
<1>15. ScalarsOK'
  BY <1>1, <1>3 DEF ScalarsOK, idVars
<1> QED BY <1>14, <1>15 DEF IInv

(* Every step preserves the inductive invariant. *)
LEMMA NextKeeps == IInv /\ [Next]_vars => IInv'
<1> SUFFICES ASSUME IInv, [Next]_vars PROVE IInv'
  OBVIOUS
<1>1. /\ Consistent(sq, lock_level, is_dirty, stack) /\ ScalarsOK
      /\ stack \in Seq(Frame) /\ MainLoop(stack) /\ stack # <<>>
  BY DEF IInv, Consistent, MainLoop
<1>2. ASSUME NEW t \in Seq(Frame), stack' = t, MainLoop(t),
             Cardinality(JobsIn(t)) = Cardinality(JobsIn(stack)),
             HeldIn(t) = HeldIn(stack),
             UNCHANGED <<queueVars, idVars, evtime>>, clock' \in 0 .. ClockMod - 1
      PROVE  IInv'
  BY <1>1, <1>2 DEF IInv, Consistent, ScalarsOK, queueVars, idVars
<1>3. clock \in 0 .. ClockMod - 1
  BY <1>1 DEF ScalarsOK
<1>4. CASE Tick
  <2>1. clock' \in 0 .. ClockMod - 1
    BY <1>3, <1>4 DEF Tick
  <2>2. CASE Top.at = "select" /\ Top.ms > 0
    <3>1. stack' = Goto("select", Top.ms - 1)
      BY <1>4, <2>2 DEF Tick
    <3>2. Top.ms - 1 \in Int
      <4>1. Top \in Frame
        BY <1>1, TopAndRest DEF Top
      <4> QED BY <4>1 DEF Frame
    <3> DEFINE f == Loop("select", Top.ms - 1)
    <3>3. f \in Frame /\ f.at = "select" /\ f.at # "job"
      BY <3>2, FrameTypes DEF LoopPoints, Loop
    <3>4. "select" \in LoopPoints \ {"woken"}
      BY DEF LoopPoints
    <3>5. stack' = [stack EXCEPT ![1] = f]
      BY <3>1 DEF Goto
    <3>6. stack[1].at # "job"
      BY <2>2 DEF Top
    <3> HIDE DEF f
    <3>7. /\ stack' \in Seq(Frame) /\ MainLoop(stack')
          /\ Cardinality(JobsIn(stack')) = Cardinality(JobsIn(stack))
          /\ HeldIn(stack') = HeldIn(stack)
      BY <1>1, <3>3, <3>4, <3>5, <3>6, GotoKeeps
    <3> QED BY <1>2, <1>4, <2>1, <3>7 DEF Tick
  <2>3. CASE ~(Top.at = "select" /\ Top.ms > 0)
    BY <1>1, <1>2, <1>4, <2>1, <2>3 DEF Tick
  <2> QED BY <2>2, <2>3
<1>5. CASE Loops
  BY <1>5, LoopsKeep
<1>6. ASSUME NEW ms \in Delays \cup Periods, NEW period \in {0} \cup Periods,
             NEW id \in Ids \cup {0}, CmdSchedule(ms, period, id)
      PROVE  IInv'
  <2>1. ms \in Nat
    OBVIOUS
  <2> QED BY <1>6, <2>1, CmdScheduleKeeps
<1>7. ASSUME NEW id \in Ids \cup {0}, CmdDeschedule(id) PROVE IInv'
  BY <1>7, CmdDescheduleKeeps
<1>8. CASE CmdWait
  <2> DEFINE f == Loop("begin", -1)
  <2>1. f \in Frame /\ f.at # "job"
    BY FrameTypes DEF LoopPoints
  <2>2. stack' = <<f>> \o stack
    BY <1>8 DEF CmdWait
  <2> HIDE DEF f
  <2>3. /\ stack' \in Seq(Frame) /\ MainLoop(stack')
        /\ Cardinality(JobsIn(stack')) = Cardinality(JobsIn(stack))
        /\ HeldIn(stack') = HeldIn(stack)
    BY <1>1, <2>1, <2>2, CallKeeps
  <2> QED BY <1>2, <1>3, <1>8, <2>3 DEF CmdWait
<1>9. CASE CmdReturn
  <2>1. stack[1].at # "job" /\ stack[1].at \notin LoopPoints \ {"woken"}
    BY <1>9 DEF CmdReturn, Top, LoopPoints
  <2>2. stack' = Tail(stack)
    BY <1>9 DEF CmdReturn
  <2>3. /\ stack' \in Seq(Frame) /\ MainLoop(stack')
        /\ Cardinality(JobsIn(stack')) = Cardinality(JobsIn(stack))
        /\ HeldIn(stack') = HeldIn(stack)
    BY <1>1, <2>1, <2>2, ReturnKeeps, TailMainLoop
  <2> QED BY <1>2, <1>3, <1>9, <2>3 DEF CmdReturn
<1>10. CASE JobReturn
  BY <1>10, JobReturnKeeps
<1>11. CASE UNCHANGED vars
  BY <1>1, <1>2, <1>3, <1>11 DEF vars, queueVars, idVars
<1> QED BY <1>4, <1>5, <1>6, <1>7, <1>8, <1>9, <1>10, <1>11 DEF Next, Commands
-----------------------------------------------------------------------------
(* The inductive invariant holds in every reachable state. *)
THEOREM Invariance == Spec => []IInv
<1>1. Init => IInv
  BY InitHolds
<1>2. IInv /\ [Next]_vars => IInv'
  BY NextKeeps
<1> QED BY <1>1, <1>2, PTL DEF Spec

(* All variables of the scheduler keep their types, with any ids, delays,   *)
(* periods, widths of the clocks and depth of nested Wait commands.         *)
THEOREM TypeCorrectness == Spec => []TypeOK
<1>1. IInv => TypeOK
  BY IInvImplies
<1> QED BY <1>1, Invariance, PTL

(* fqueue_cleanup_queue never frees a record that a call of squeue_execute  *)
(* on the stack still points at, however deep Wait commands nest such       *)
(* calls: the lock level counts the calls, and their records are queued.    *)
THEOREM RunningRecordsStay == Spec => []Pinned
<1>1. IInv => Pinned
  BY IInvImplies
<1> QED BY <1>1, Invariance, PTL

(* The last unlock leaves nothing behind: outside squeue_execute no record  *)
(* is marked for deletion, and none is still hidden as just created.        *)
THEOREM NoLeftovers == Spec => []CleanWhenUnlocked
<1>1. IInv => CleanWhenUnlocked
  BY IInvImplies
<1> QED BY <1>1, Invariance, PTL

-----------------------------------------------------------------------------
(* The jobs                                                                *)

HIDE ScheduleAssumption

(* The calls of squeue_execute in s that run the record u *)
RunsOf(s, u) == Cardinality({f \in JobsIn(s) : s[f].rec = u})

(* The ghost "starts" of a record that is not marked counts these calls. *)
StartsCounted(q, s) ==
  \A i \in DOMAIN q : ~q[i].del => q[i].starts = RunsOf(s, q[i].uid)

(* No record of a group that was descheduled while the queue was idle *)
Sticks(q, c) == \A i \in DOMAIN q : q[i].id \in DOMAIN c => c[q[i].id] # "idle"

(* Each line of Schedule has one record to be run at most; once one of its  *)
(* records is running (H: the names of those), it has no other.             *)
OnePerLine(q) ==
  \A i, j \in DOMAIN q : ~q[i].del /\ ~q[j].del /\ q[i].line = q[j].line => i = j
WithCommand(q) == \A i \in DOMAIN q : ~q[i].del => q[i].cmd
RunsAlone(q, H) ==
  \A i, j \in DOMAIN q : q[i].uid \in H /\ ~q[j].del /\ q[j].line = q[i].line => i = j
Single(q, H) == OnePerLine(q) /\ WithCommand(q) /\ RunsAlone(q, H)

(* No time in the queue is so late that differences of times overflow, so   *)
(* that CmpTimes compares them as numbers.                                  *)
Near(q) == \A i \in DOMAIN q : 2 * q[i].time < TimeMod
Ordered(q) == \A i, j \in DOMAIN q : i < j => q[i].time <= q[j].time
-----------------------------------------------------------------------------
(* Queues that have lost some records, or of which some have been marked *)

(* a is the record b, perhaps marked or finished. *)
SameJob(a, b) ==
  /\ a.uid = b.uid /\ a.id = b.id /\ a.line = b.line
  /\ a.time = b.time /\ a.period = b.period /\ a.starts = b.starts
  /\ ~a.del => ~b.del /\ a.cmd = b.cmd

Thins(g, p, q) ==
  /\ g \in [DOMAIN p -> DOMAIN q]
  /\ \A k, l \in DOMAIN p : k < l => g[k] < g[l]
  /\ \A k \in DOMAIN p : SameJob(p[k], q[g[k]])

LEMMA ThinKeepsOrder ==
  ASSUME NEW p \in Seq(Record), NEW q \in Seq(Record), NEW g, Thins(g, p, q)
  PROVE  /\ Near(q) => Near(p)
         /\ Ordered(q) => Ordered(p)
<1>1. \A k \in DOMAIN p : g[k] \in DOMAIN q /\ p[k].time = q[g[k]].time
  BY DEF Thins, SameJob
<1>2. \A k, l \in DOMAIN p : k < l => g[k] < g[l]
  BY DEF Thins
<1> QED BY ONLY <1>1, <1>2 DEF Near, Ordered

LEMMA ThinKeepsJobs ==
  ASSUME NEW p \in Seq(Record), NEW q \in Seq(Record), NEW g, Thins(g, p, q), NEW s, NEW c, NEW H
  PROVE  /\ StartsCounted(q, s) => StartsCounted(p, s)
         /\ Sticks(q, c) => Sticks(p, c)
         /\ Single(q, H) => Single(p, H)
<1>1. \A k \in DOMAIN p :
        /\ g[k] \in DOMAIN q
        /\ p[k].uid = q[g[k]].uid /\ p[k].id = q[g[k]].id
        /\ p[k].line = q[g[k]].line /\ p[k].starts = q[g[k]].starts
        /\ ~p[k].del => ~q[g[k]].del /\ p[k].cmd = q[g[k]].cmd
  BY DEF Thins, SameJob
<1>2. \A k, l \in DOMAIN p : g[k] = g[l] => k = l
  <2> SUFFICES ASSUME NEW k \in DOMAIN p, NEW l \in DOMAIN p, k < l PROVE g[k] # g[l]
    <3>1. \A k, l \in DOMAIN p : k < l \/ l < k \/ k = l
      OBVIOUS
    <3> QED BY <3>1
  <2>1. g[k] < g[l] /\ g[k] \in DOMAIN q
    BY DEF Thins
  <2>2. g[k] \in Int
    BY <2>1
  <2> QED BY <2>1, <2>2
<1>3. StartsCounted(q, s) => StartsCounted(p, s)
  BY ONLY <1>1 DEF StartsCounted
<1>4. Sticks(q, c) => Sticks(p, c)
  BY ONLY <1>1 DEF Sticks
<1>5. Single(q, H) => Single(p, H)
  <2>1. OnePerLine(q) => OnePerLine(p)
    BY ONLY <1>1, <1>2, SMTT(30) DEF OnePerLine
  <2>2. WithCommand(q) => WithCommand(p)
    BY ONLY <1>1 DEF WithCommand
  <2>3. RunsAlone(q, H) => RunsAlone(p, H)
    <3> SUFFICES ASSUME RunsAlone(q, H), NEW i \in DOMAIN p, NEW j \in DOMAIN p,
                        p[i].uid \in H, ~p[j].del, p[j].line = p[i].line
                 PROVE  i = j
      BY DEF RunsAlone
    <3>1. /\ g[i] \in DOMAIN q /\ g[j] \in DOMAIN q
          /\ q[g[i]].uid \in H /\ ~q[g[j]].del /\ q[g[j]].line = q[g[i]].line
      BY <1>1
    <3>2. g[i] = g[j]
      BY ONLY <3>1, RunsAlone(q, H) DEF RunsAlone
    <3> QED BY <1>2, <3>2
  <2> QED BY <2>1, <2>2, <2>3 DEF Single
<1> QED BY <1>3, <1>4, <1>5

(* fqueue_cleanup_queue *)
LEMMA CleanupThins ==
  ASSUME NEW q \in Seq(Record)
  PROVE  /\ \E g : Thins(g, Cleanup(q), q)
         /\ \A k \in DOMAIN Cleanup(q) : \E i \in DOMAIN q :
              ~q[i].del /\ Cleanup(q)[k] = [q[i] EXCEPT !.new = FALSE]
<1> DEFINE c == Cleanup(q)
           K == Kept(q)
           n == Cardinality(K)
           g == [k \in 1 .. n |->
                   CHOOSE i \in DOMAIN q :
                     ~q[i].del /\ Rank(K, i) = k /\ c[k] = [q[i] EXCEPT !.new = FALSE]]
<1>1. Len(q) \in Nat /\ n \in Nat /\ DOMAIN q = 1 .. Len(q) /\ K \in SUBSET Nat /\ IsFiniteSet(K)
  BY KeptFinite
<1>2. DOMAIN c = 1 .. n
  BY DEF Cleanup, Subsequence
<1>3. \A k \in 1 .. n : \E i \in DOMAIN q :
        ~q[i].del /\ Rank(K, i) = k /\ c[k] = [q[i] EXCEPT !.new = FALSE]
  BY <1>1, CleanupKeeps
<1>4. \A k \in 1 .. n :
        /\ g[k] \in DOMAIN q /\ ~q[g[k]].del /\ Rank(K, g[k]) = k
        /\ c[k] = [q[g[k]] EXCEPT !.new = FALSE]
  <2> SUFFICES ASSUME NEW k \in 1 .. n
               PROVE  /\ g[k] \in DOMAIN q /\ ~q[g[k]].del /\ Rank(K, g[k]) = k
                      /\ c[k] = [q[g[k]] EXCEPT !.new = FALSE]
    OBVIOUS
  <2>1. \E i \in DOMAIN q : ~q[i].del /\ Rank(K, i) = k /\ c[k] = [q[i] EXCEPT !.new = FALSE]
    BY <1>3
  <2>2. g[k] = CHOOSE i \in DOMAIN q :
                 ~q[i].del /\ Rank(K, i) = k /\ c[k] = [q[i] EXCEPT !.new = FALSE]
    OBVIOUS
  <2> HIDE DEF g, c, K, n
  <2> QED BY <2>1, <2>2
<1>5. g \in [1 .. n -> DOMAIN q]
  <2>1. \A k \in 1 .. n : g[k] \in DOMAIN q
    BY <1>4
  <2> QED BY <2>1
<1>6. \A k \in 1 .. n : g[k] \in K
  <2> HIDE DEF g, c, n
  <2> QED BY <1>1, <1>4 DEF Kept
<1> HIDE DEF g, c
<1>7. ASSUME NEW k \in 1 .. n, NEW l \in 1 .. n, k < l PROVE g[k] < g[l]
  <2>1. g[k] \in K /\ g[l] \in K /\ Rank(K, g[k]) = k /\ Rank(K, g[l]) = l
    BY <1>4, <1>6
  <2>2. g[k] # g[l]
    BY <1>7, <2>1
  <2>3. ASSUME g[l] < g[k] PROVE FALSE
    <3>1. Rank(K, g[l]) < Rank(K, g[k])
      BY ONLY <1>1, <2>1, <2>3, RankMonotone
    <3> QED BY <1>1, <1>7, <2>1, <3>1
  <2>4. g[k] \in Nat /\ g[l] \in Nat
    BY <1>1, <2>1
  <2> QED BY <2>2, <2>3, <2>4
<1>8. ASSUME NEW k \in 1 .. n PROVE SameJob(c[k], q[g[k]])
  <2>0. g[k] \in DOMAIN q /\ ~q[g[k]].del /\ c[k] = [q[g[k]] EXCEPT !.new = FALSE]
    BY <1>4, Zenon
  <2>1. q[g[k]] \in Record /\ c[k] = [q[g[k]] EXCEPT !.new = FALSE] /\ ~q[g[k]].del
    BY <2>0
  <2> DEFINE r == q[g[k]]
  <2>2. r \in Record /\ c[k] = [r EXCEPT !.new = FALSE]
    BY <2>1
  <2> HIDE DEF r
  <2>3. /\ c[k].uid = r.uid /\ c[k].id = r.id /\ c[k].line = r.line
        /\ c[k].time = r.time /\ c[k].period = r.period /\ c[k].starts = r.starts
        /\ c[k].del = r.del /\ c[k].cmd = r.cmd
    BY <2>2 DEF Record
  <2>4. SameJob(c[k], r)
    BY <2>3 DEF SameJob
  <2> QED BY <2>4 DEF r
<1>9. Thins(g, c, q)
  BY <1>2, <1>5, <1>7, <1>8 DEF Thins
<1>10. \A k \in DOMAIN c : \E i \in DOMAIN q : ~q[i].del /\ c[k] = [q[i] EXCEPT !.new = FALSE]
  BY <1>2, <1>3
<1> QED BY <1>9, <1>10 DEF c

(* Changing records in place so that they stay the same jobs *)
LEMMA PlaceThins ==
  ASSUME NEW p \in Seq(Record), NEW q \in Seq(Record), DOMAIN p = DOMAIN q,
         \A i \in DOMAIN q : SameJob(p[i], q[i])
  PROVE  \E g : Thins(g, p, q)
<1> DEFINE g == [i \in DOMAIN p |-> i]
<1>1. Thins(g, p, q)
  BY DEF Thins
<1> QED BY <1>1

LEMMA MarkedThins ==
  ASSUME NEW q \in Seq(Record), Distinct(q), NEW id
  PROVE  /\ \E g : Thins(g, Marked(q, id), q)
         /\ Marked(q, id) \in Seq(Record) /\ DOMAIN Marked(q, id) = DOMAIN q
<1> DEFINE m == Marked(q, id)
<1>1. m \in Seq(Record)
  BY MarkedKeeps
<1>2. DOMAIN m = DOMAIN q
  BY DEF Marked
<1>3. ASSUME NEW i \in DOMAIN q PROVE SameJob(m[i], q[i])
  <2>1. q[i] \in Record
    OBVIOUS
  <2>2. m[i] = q[i] \/ m[i] = [q[i] EXCEPT !.del = TRUE]
    BY DEF Marked
  <2> DEFINE r == q[i]
             x == m[i]
  <2>3. r \in Record /\ (x = r \/ x = [r EXCEPT !.del = TRUE])
    BY <2>1, <2>2
  <2> HIDE DEF m, r, x
  <2>4. SameJob(x, r)
    BY <2>3 DEF SameJob, Record
  <2> QED BY <2>4 DEF r, x
<1> HIDE DEF m
<1>4. \E g : Thins(g, m, q)
  BY <1>1, <1>2, <1>3, PlaceThins
<1> QED BY <1>1, <1>2, <1>4 DEF m
-----------------------------------------------------------------------------
(* Queues with a new record *)

(* Where fqueue_add_inside puts the record, and where the others are then.  *)
LEMMA AddInsideAt ==
  ASSUME NEW q \in Seq(Record), NEW r \in Record
  PROVE  \E p \in 1 .. Len(q) + 1 :
           /\ p = InsertPos(q, r)
           /\ DOMAIN AddInside(q, r) = 1 .. Len(q) + 1
           /\ AddInside(q, r)[p] = r
           /\ \A j \in 1 .. Len(q) + 1 :
                j # p => AddInside(q, r)[j] = q[IF j < p THEN j ELSE j - 1]
           /\ \A i \in 1 .. Len(q) : i < p => AddInside(q, r)[i] = q[i]
           /\ \A i \in 1 .. Len(q) : i >= p => AddInside(q, r)[i + 1] = q[i]
<1>1. PICK p \in 1 .. Len(q) + 1 : p = InsertPos(q, r)
  BY InsertPosType
<1> DEFINE a == AddAt(q, p, r)
<1>2. /\ a[p] = r
      /\ \A i \in 1 .. Len(q) : i < p => a[i] = q[i]
      /\ \A i \in 1 .. Len(q) : i >= p => a[i + 1] = q[i]
      /\ \A j \in 1 .. Len(q) + 1 : j # p => a[j] = q[IF j < p THEN j ELSE j - 1]
  BY AddAtKeeps
<1>3. DOMAIN a = 1 .. Len(q) + 1
  BY DEF AddAt
<1>4. AddInside(q, r) = a
  BY <1>1 DEF AddInside
<1> HIDE DEF a
<1> QED BY <1>1, <1>2, <1>3, <1>4

(* a is q with the record r at position p; old gives the positions that the *)
(* other records had.                                                       *)
Grows(a, q, r, p, old) ==
  /\ p \in DOMAIN a /\ a[p] = r
  /\ \A j \in DOMAIN a : j # p =>
       /\ old[j] \in DOMAIN q /\ a[j] = q[old[j]]
       /\ j < p => old[j] < p
       /\ j > p => old[j] >= p
  /\ \A j, k \in DOMAIN a : j # p /\ k # p /\ j < k => old[j] < old[k]
  /\ \A i \in DOMAIN q : \E j \in DOMAIN a : j # p /\ old[j] = i

LEMMA AddInsideGrows ==
  ASSUME NEW q \in Seq(Record), NEW r \in Record
  PROVE  \E old : Grows(AddInside(q, r), q, r, InsertPos(q, r), old)
<1> DEFINE a == AddInside(q, r)
<1>1. PICK p \in 1 .. Len(q) + 1 :
        /\ p = InsertPos(q, r)
        /\ DOMAIN a = 1 .. Len(q) + 1
        /\ a[p] = r
        /\ \A j \in 1 .. Len(q) + 1 : j # p => a[j] = q[IF j < p THEN j ELSE j - 1]
  BY AddInsideAt
<1> DEFINE old == [j \in 1 .. Len(q) + 1 |-> IF j < p THEN j ELSE j - 1]
<1>2. Len(q) \in Nat /\ DOMAIN q = 1 .. Len(q)
  OBVIOUS
<1> HIDE DEF a
<1>3. ASSUME NEW j \in DOMAIN a, j # p
      PROVE  /\ old[j] \in DOMAIN q /\ a[j] = q[old[j]]
             /\ j < p => old[j] < p
             /\ j > p => old[j] >= p
  <2>1. old[j] = IF j < p THEN j ELSE j - 1
    BY <1>1
  <2>2. a[j] = q[old[j]]
    BY <1>1, <1>3, <2>1
  <2> HIDE DEF old
  <2>3. old[j] \in DOMAIN q
    BY <1>1, <1>2, <1>3, <2>1
  <2> QED BY <1>1, <1>3, <2>1, <2>2, <2>3
<1>4. ASSUME NEW j \in DOMAIN a, NEW k \in DOMAIN a, j # p, k # p, j < k
      PROVE  old[j] < old[k]
  BY <1>1, <1>4
<1>5. ASSUME NEW i \in DOMAIN q PROVE \E j \in DOMAIN a : j # p /\ old[j] = i
  <2>1. CASE i < p
    BY <1>1, <1>2, <2>1
  <2>2. CASE i >= p
    <3>1. i + 1 \in DOMAIN a /\ i + 1 # p /\ old[i + 1] = i
      BY <1>1, <1>2, <2>2
    <3> QED BY <3>1
  <2> QED BY <1>1, <1>2, <2>1, <2>2
<1>6. p \in DOMAIN a /\ p = InsertPos(q, r) /\ a[p] = r
  BY <1>1
<1> HIDE DEF old
<1>7. Grows(a, q, r, p, old)
  BY <1>3, <1>4, <1>5, <1>6 DEF Grows
<1> QED BY <1>1, <1>7 DEF a

(* A new job of its own line, or a periodic job that is put back: then no   *)
(* record with its line may be waiting.                                     *)
Apart(q, r, H) ==
  /\ r.cmd /\ r.uid \notin H
  /\ \A i \in DOMAIN q : q[i].line = r.line => q[i].del /\ q[i].uid \notin H

LEMMA AddInsideJobs ==
  ASSUME NEW q \in Seq(Record), NEW r \in Record, r.uid \notin Used(q), NEW s, NEW c, NEW H
  PROVE  /\ StartsCounted(q, s) /\ r.starts = RunsOf(s, r.uid)
              => StartsCounted(AddInside(q, r), s)
         /\ Sticks(q, c) /\ (r.id \in DOMAIN c => c[r.id] # "idle")
              => Sticks(AddInside(q, r), c)
         /\ Single(q, H) /\ Apart(q, r, H) => Single(AddInside(q, r), H)
<1> DEFINE a == AddInside(q, r)
<1> DEFINE p == InsertPos(q, r)
<1>0. PICK old : Grows(a, q, r, p, old)
  BY AddInsideGrows
<1> HIDE DEF p
<1>1. /\ p \in DOMAIN a /\ a[p] = r
      /\ \A j \in DOMAIN a : j # p => old[j] \in DOMAIN q /\ a[j] = q[old[j]]
      /\ \A j, k \in DOMAIN a : j # p /\ k # p /\ j < k => old[j] < old[k]
      /\ \A i \in DOMAIN q : \E j \in DOMAIN a : j # p /\ old[j] = i
  BY <1>0 DEF Grows
<1>2. DOMAIN a \subseteq Nat /\ DOMAIN q \subseteq Nat
  <2>1. PICK n \in 1 .. Len(q) + 1 : DOMAIN a = 1 .. Len(q) + 1
    BY AddInsideAt
  <2> HIDE DEF a
  <2> QED BY <2>1
<1> HIDE DEF a
<1>3. \A j, k \in DOMAIN a : j # p /\ k # p /\ old[j] = old[k] => j = k
  <2> SUFFICES ASSUME NEW j \in DOMAIN a, NEW k \in DOMAIN a, j # p, k # p, old[j] = old[k], j < k
               PROVE  FALSE
    BY <1>2
  <2>1. old[j] < old[k] /\ old[j] \in DOMAIN q
    BY <1>1
  <2> QED BY <1>2, <2>1
<1>4. StartsCounted(q, s) /\ r.starts = RunsOf(s, r.uid) => StartsCounted(a, s)
  BY ONLY <1>1 DEF StartsCounted
<1>5. Sticks(q, c) /\ (r.id \in DOMAIN c => c[r.id] # "idle") => Sticks(a, c)
  BY ONLY <1>1 DEF Sticks
<1>6. ASSUME Single(q, H), Apart(q, r, H) PROVE Single(a, H)
  <2>0. /\ r.cmd /\ r.uid \notin H
        /\ \A i \in DOMAIN q : q[i].line = r.line => q[i].del /\ q[i].uid \notin H
    BY <1>6 DEF Apart
  <2>1. \A i \in DOMAIN a : i # p /\ a[i].line = r.line => a[i].del /\ a[i].uid \notin H
    BY <1>1, <2>0
  <2>2. OnePerLine(a)
    <3> SUFFICES ASSUME NEW i \in DOMAIN a, NEW j \in DOMAIN a,
                        ~a[i].del, ~a[j].del, a[i].line = a[j].line
                 PROVE  i = j
      BY DEF OnePerLine
    <3>1. (i = p /\ j = p) \/ (i # p /\ j # p)
      BY <1>1, <2>1
    <3>2. CASE i # p /\ j # p
      <4>1. old[i] = old[j]
        BY <1>1, <1>6, <3>2 DEF Single, OnePerLine
      <4> QED BY <1>3, <3>2, <4>1
    <3> QED BY <3>1, <3>2
  <2>3. WithCommand(a)
    BY <1>1, <1>6, <2>0 DEF Single, WithCommand
  <2>4. RunsAlone(a, H)
    <3> SUFFICES ASSUME NEW i \in DOMAIN a, NEW j \in DOMAIN a,
                        a[i].uid \in H, ~a[j].del, a[j].line = a[i].line
                 PROVE  i = j
      BY DEF RunsAlone
    <3>1. i # p /\ j # p
      BY <1>1, <2>0, <2>1
    <3>2. old[i] = old[j]
      BY <1>1, <1>6, <3>1 DEF Single, RunsAlone
    <3> QED BY <1>3, <3>1, <3>2
  <2> QED BY <2>2, <2>3, <2>4 DEF Single
<1> QED BY <1>4, <1>5, <1>6, Zenon DEF a
-----------------------------------------------------------------------------
(* The order of times *)

LEMMA SmallModulo ==
  ASSUME NEW a \in Int, NEW m \in Nat \ {0}
  PROVE  /\ 0 <= a /\ a < m => a % m = a
         /\ a < 0 /\ -m <= a => a % m = a + m
OBVIOUS

(* Times less than half of the modulus apart compare as numbers. *)
LEMMA NearTimes ==
  ASSUME NEW t \in Nat, NEW u \in Nat, 2 * t < TimeMod, 2 * u < TimeMod
  PROVE  /\ CmpTimes(t, u) < 0 <=> t < u
         /\ CmpTimes(t, u) <= 0 <=> t <= u
         /\ CmpTimes(t, u) >= 0 <=> t >= u
         /\ t >= u => (t - u) % TimeMod = t - u
<1> DEFINE d == t - u
<1>0. TimeMod \in Nat \ {0}
  BY ScheduleAssumption
<1>1. d \in Int /\ TimeMod \in Nat \ {0} /\ -TimeMod <= d /\ d < TimeMod
      /\ 2 * d < TimeMod /\ -TimeMod < 2 * d
  BY ONLY <1>0, t \in Nat, u \in Nat, 2 * t < TimeMod, 2 * u < TimeMod
<1>2. d >= 0 => d % TimeMod = d
  <2> HIDE DEF d
  <2> QED BY ONLY <1>1, SmallModulo
<1>3. d < 0 => d % TimeMod = d + TimeMod
  <2> HIDE DEF d
  <2> QED BY ONLY <1>1, SmallModulo
<1>4. CmpTimes(t, u) =
        IF d % TimeMod = 0 THEN 0 ELSE IF 2 * (d % TimeMod) < TimeMod THEN 1 ELSE -1
  BY DEF CmpTimes
<1> DEFINE e == d % TimeMod
<1>5. d >= 0 => e = d
  BY <1>2
<1>6. d < 0 => e = d + TimeMod
  BY <1>3
<1>7. CmpTimes(t, u) = IF e = 0 THEN 0 ELSE IF 2 * e < TimeMod THEN 1 ELSE -1
  BY <1>4
<1> HIDE DEF e
<1>8. CASE d >= 0
  BY <1>1, <1>5, <1>7, <1>8 DEF e
<1>9. CASE d < 0
  BY <1>1, <1>6, <1>7, <1>9
<1>10. d >= 0 \/ d < 0
  BY <1>1
<1> QED BY <1>8, <1>9, <1>10

LEMMA InsertPosOrder ==
  ASSUME NEW q \in Seq(Record), Near(q), Ordered(q), NEW r \in Record, 2 * r.time < TimeMod,
         NEW i \in DOMAIN q
  PROVE  /\ i < InsertPos(q, r) => q[i].time <= r.time
         /\ i >= InsertPos(q, r) => r.time < q[i].time
<1> DEFINE later == {j \in DOMAIN q : CmpTimes(r.time, q[j].time) < 0}
<1>1. later \in SUBSET Nat /\ later \subseteq 1 .. Len(q) /\ DOMAIN q = 1 .. Len(q) /\ Len(q) \in Nat
  OBVIOUS
<1>2. \A j \in DOMAIN q : q[j].time \in Nat /\ 2 * q[j].time < TimeMod
  <2>1. \A j \in DOMAIN q : q[j] \in Record
    OBVIOUS
  <2>2. \A x \in Record : x.time \in Nat
    BY DEF Record, Times
  <2> QED BY <2>1, <2>2 DEF Near
<1>3. r.time \in Nat
  BY DEF Record, Times
<1>4. \A j \in DOMAIN q : j \in later <=> r.time < q[j].time
  BY <1>2, <1>3, NearTimes
<1>5. CASE later = {}
  <2>1. InsertPos(q, r) = Len(q) + 1
    BY <1>5 DEF InsertPos
  <2> HIDE DEF later
  <2> QED BY <1>1, <1>2, <1>3, <1>4, <1>5, <2>1
<1>6. CASE later # {}
  <2> DEFINE p == CHOOSE k \in later : \A j \in later : k <= j
  <2>1. InsertPos(q, r) = p
    BY <1>6 DEF InsertPos
  <2> HIDE DEF later
  <2>2. p \in later /\ \A j \in later : p <= j
    BY <1>1, <1>6, NatSetHasMin
  <2> HIDE DEF p
  <2>3. i < p => q[i].time <= r.time
    <3>1. i < p => i \notin later
      BY <1>1, <2>2
    <3> QED BY <1>2, <1>3, <1>4, <3>1
  <2>4. i >= p => r.time < q[i].time
    <3>1. p \in DOMAIN q /\ r.time < q[p].time
      BY <1>1, <1>4, <2>2
    <3>2. i > p => q[p].time <= q[i].time
      BY <3>1 DEF Ordered
    <3> QED BY <1>1, <1>2, <1>3, <3>1, <3>2
  <2> QED BY <2>1, <2>3, <2>4
<1> QED BY <1>5, <1>6

(* The search loop of fqueue_add_inside keeps the queue sorted. *)
LEMMA AddInsideOrder ==
  ASSUME NEW q \in Seq(Record), Near(q), Ordered(q), NEW r \in Record, 2 * r.time < TimeMod
  PROVE  Near(AddInside(q, r)) /\ Ordered(AddInside(q, r))
<1> DEFINE a == AddInside(q, r)
           p == InsertPos(q, r)
<1>0. PICK old : Grows(a, q, r, p, old)
  BY AddInsideGrows
<1>1. \A i \in DOMAIN q : /\ i < p => q[i].time <= r.time
                          /\ i >= p => r.time < q[i].time
  BY InsertPosOrder
<1>2. p \in 1 .. Len(q) + 1 /\ Len(q) \in Nat /\ DOMAIN q \subseteq Nat
  BY InsertPosType
<1>3. PICK n \in 1 .. Len(q) + 1 : DOMAIN a = 1 .. Len(q) + 1
  BY AddInsideAt
<1>4. r.time \in Nat /\ \A j \in DOMAIN q : q[j].time \in Nat
  <2>1. \A j \in DOMAIN q : q[j] \in Record
    OBVIOUS
  <2>2. \A x \in Record : x.time \in Nat
    BY DEF Record, Times
  <2> QED BY <2>1, <2>2
<1> HIDE DEF a, p
<1>5. Near(a)
  BY <1>0 DEF Near, Grows
<1>6. Ordered(a)
  <2> SUFFICES ASSUME NEW i \in DOMAIN a, NEW j \in DOMAIN a, i < j
               PROVE  a[i].time <= a[j].time
    BY DEF Ordered
  <2>1. i \in Nat /\ j \in Nat /\ p \in Nat
    BY <1>2, <1>3
  <2>2. CASE i # p /\ j # p
    <3>1. /\ old[i] < old[j] /\ old[i] \in DOMAIN q /\ old[j] \in DOMAIN q
          /\ a[i] = q[old[i]] /\ a[j] = q[old[j]]
      BY <1>0, <2>2 DEF Grows
    <3> QED BY <3>1 DEF Ordered
  <2>3. CASE i = p
    <3>1. j > p /\ j # p
      BY <2>1, <2>3
    <3>2. a[i] = r /\ old[j] \in DOMAIN q /\ a[j] = q[old[j]] /\ old[j] >= p
      BY <1>0, <2>3, <3>1 DEF Grows
    <3>3. r.time < q[old[j]].time
      BY <1>1, <3>2
    <3> QED BY <1>4, <3>2, <3>3
  <2>4. CASE j = p
    <3>1. i < p /\ i # p
      BY <2>1, <2>4
    <3>2. a[j] = r /\ old[i] \in DOMAIN q /\ a[i] = q[old[i]] /\ old[i] < p
      BY <1>0, <2>4, <3>1 DEF Grows
    <3> QED BY <1>1, <3>2
  <2> QED BY <2>2, <2>3, <2>4
<1> QED BY <1>5, <1>6 DEF a
-----------------------------------------------------------------------------
(* Which records the call stack runs *)

LEMMA RunsType ==
  ASSUME NEW s \in Seq(Frame), NEW u
  PROVE  /\ RunsOf(s, u) \in Nat
         /\ u \notin HeldIn(s) => RunsOf(s, u) = 0
<1> DEFINE F == {f \in JobsIn(s) : s[f].rec = u}
<1>1. F \in SUBSET JobsIn(s)
  OBVIOUS
<1>2. IsFiniteSet(JobsIn(s))
  BY JobsFinite
<1>3. Cardinality(F) \in Nat
  <2> HIDE DEF F
  <2> QED BY <1>1, <1>2, FS_Subset, FS_CardinalityType
<1>4. u \notin HeldIn(s) => F = {}
  BY DEF HeldIn
<1>5. u \notin HeldIn(s) => Cardinality(F) = 0
  BY <1>4, FS_EmptySet
<1> QED BY <1>3, <1>5 DEF RunsOf

LEMMA PushRuns ==
  ASSUME NEW s \in Seq(Frame), NEW f \in Frame, NEW u
  PROVE  RunsOf(<<f>> \o s, u) =
           RunsOf(s, u) + (IF f.at = "job" /\ f.rec = u THEN 1 ELSE 0)
<1> DEFINE t == <<f>> \o s
           F == {i \in JobsIn(s) : s[i].rec = u}
           G == {i \in JobsIn(t) : t[i].rec = u}
           up == {i + 1 : i \in F}
           shift == [i \in F |-> i + 1]
<1>1. /\ Len(t) = Len(s) + 1 /\ Len(s) \in Nat
      /\ DOMAIN t = 1 .. Len(s) + 1 /\ DOMAIN s = 1 .. Len(s)
      /\ t[1] = f /\ \A i \in 1 .. Len(s) : t[i + 1] = s[i]
  OBVIOUS
<1> HIDE DEF t
<1>2. F \in SUBSET (1 .. Len(s))
  BY JobsFinite
<1>3. IsFiniteSet(F) /\ Cardinality(F) \in Nat
  <2>1. F \in SUBSET JobsIn(s) /\ IsFiniteSet(JobsIn(s))
    BY JobsFinite
  <2> HIDE DEF F
  <2> QED BY <2>1, FS_Subset, FS_CardinalityType
<1>4. G = up \cup (IF f.at = "job" /\ f.rec = u THEN {1} ELSE {})
  <2>1. ASSUME NEW i \in G, i # 1 PROVE i - 1 \in F /\ (i - 1) + 1 = i
    BY <1>1, <2>1 DEF JobsIn
  <2>2. ASSUME NEW i \in F PROVE i + 1 \in G
    BY <1>1, <2>2 DEF JobsIn
  <2>3. 1 \in G <=> f.at = "job" /\ f.rec = u
    BY <1>1 DEF JobsIn
  <2> HIDE DEF F, G
  <2> QED BY <2>1, <2>2, <2>3
<1>5. 1 \notin up
  <2> HIDE DEF F
  <2> QED BY <1>2
<1>6. IsFiniteSet(up) /\ Cardinality(up) = Cardinality(F)
  <2>1. shift \in Surjection(F, up)
    BY DEF Surjection
  <2>2. shift \in Injection(F, up)
    <3> HIDE DEF F
    <3> QED BY <1>2 DEF Injection, IsInjective
  <2> HIDE DEF shift, up, F
  <2> QED BY <2>1, <2>2, <1>3, FS_Surjection
<1>0. RunsOf(t, u) = Cardinality(G) /\ RunsOf(s, u) = Cardinality(F)
  BY DEF RunsOf
<1> HIDE DEF up, F, G
<1>7. CASE f.at = "job" /\ f.rec = u
  <2>1. Cardinality(G) = Cardinality(up) + 1
    BY <1>4, <1>5, <1>6, <1>7, FS_AddElement
  <2> QED BY <1>0, <1>6, <1>7, <2>1 DEF t
<1>8. CASE ~(f.at = "job" /\ f.rec = u)
  <2>1. G = up
    BY <1>4, <1>8
  <2> QED BY <1>0, <1>3, <1>6, <1>8, <2>1 DEF t
<1> QED BY <1>7, <1>8

(* Two stacks that run the same records the same number of times *)
SameRuns(s, t) == HeldIn(s) = HeldIn(t) /\ \A u : RunsOf(s, u) = RunsOf(t, u)

LEMMA GotoRuns ==
  ASSUME NEW s \in Seq(Frame), s # <<>>, s[1].at # "job", NEW f \in Frame, f.at # "job"
  PROVE  SameRuns([s EXCEPT ![1] = f], s)
<1> DEFINE t == [s EXCEPT ![1] = f]
<1>1. DOMAIN t = DOMAIN s /\ t[1] = f /\ \A i \in DOMAIN s : i # 1 => t[i] = s[i]
  OBVIOUS
<1> HIDE DEF t
<1>2. JobsIn(t) = JobsIn(s) /\ \A i \in JobsIn(s) : t[i] = s[i]
  BY <1>1 DEF JobsIn
<1>3. HeldIn(t) = HeldIn(s)
  BY <1>2 DEF HeldIn
<1>4. ASSUME NEW u PROVE RunsOf(t, u) = RunsOf(s, u)
  <2>1. {i \in JobsIn(t) : t[i].rec = u} = {i \in JobsIn(s) : s[i].rec = u}
    BY <1>2
  <2> QED BY <2>1 DEF RunsOf
<1> QED BY <1>3, <1>4 DEF SameRuns, t

LEMMA CallRuns ==
  ASSUME NEW s \in Seq(Frame), NEW f \in Frame, f.at # "job"
  PROVE  SameRuns(<<f>> \o s, s)
<1>1. HeldIn(<<f>> \o s) = HeldIn(s)
  BY CallKeeps
<1>2. ASSUME NEW u PROVE RunsOf(<<f>> \o s, u) = RunsOf(s, u)
  BY PushRuns, RunsType
<1> QED BY <1>1, <1>2 DEF SameRuns

LEMMA ReturnRuns ==
  ASSUME NEW s \in Seq(Frame), s # <<>>, s[1].at # "job"
  PROVE  SameRuns(Tail(s), s)
<1>1. s[1] \in Frame /\ Tail(s) \in Seq(Frame) /\ s = <<s[1]>> \o Tail(s)
  BY TopAndRest
<1>2. SameRuns(s, Tail(s))
  BY <1>1, CallRuns
<1> QED BY <1>2 DEF SameRuns
-----------------------------------------------------------------------------
(* The loop of fqueue_remove_or_operate_all *)

Started(q, i) == [q EXCEPT ![i].starts = @ + 1]

(* A record of its own that is neither marked nor hidden is started. *)
LEMMA StartKeeps ==
  ASSUME NEW q \in Seq(Record), Distinct(q), NEW i \in DOMAIN q, ~q[i].del,
         NEW rest \in Seq(Frame), NEW f \in Frame, f.at = "job", f.rec = q[i].uid,
         NEW p, p = Started(q, i), NEW s, s = <<f>> \o rest, NEW c
  PROVE  /\ StartsCounted(q, rest) => StartsCounted(p, s)
         /\ Sticks(q, c) => Sticks(p, c)
         /\ Near(q) => Near(p)
         /\ Ordered(q) => Ordered(p)
         /\ Single(q, HeldIn(rest)) => Single(p, HeldIn(s))
<1>1. DOMAIN p = DOMAIN q /\ p[i] = [q[i] EXCEPT !.starts = @ + 1]
      /\ \A j \in DOMAIN q : j # i => p[j] = q[j]
  BY DEF Started
<1>2. q[i] \in Record
  OBVIOUS
<1>3. /\ p[i].uid = q[i].uid /\ p[i].id = q[i].id /\ p[i].line = q[i].line
      /\ p[i].time = q[i].time /\ p[i].del = q[i].del /\ p[i].cmd = q[i].cmd
      /\ p[i].starts = q[i].starts + 1
  <2> DEFINE r == q[i]
  <2>1. r \in Record /\ p[i] = [r EXCEPT !.starts = @ + 1]
    BY <1>1, <1>2
  <2> HIDE DEF r
  <2>2. /\ p[i].uid = r.uid /\ p[i].id = r.id /\ p[i].line = r.line
        /\ p[i].time = r.time /\ p[i].del = r.del /\ p[i].cmd = r.cmd
        /\ p[i].starts = r.starts + 1
    BY ONLY <2>1 DEF Record
  <2> QED BY <2>2 DEF r
<1>4. \A j \in DOMAIN q :
        /\ p[j].uid = q[j].uid /\ p[j].id = q[j].id /\ p[j].line = q[j].line
        /\ p[j].time = q[j].time /\ p[j].del = q[j].del /\ p[j].cmd = q[j].cmd
  BY <1>1, <1>3
<1>5. DOMAIN p = DOMAIN q
  BY <1>1
<1>6. /\ Sticks(q, c) => Sticks(p, c)
      /\ Near(q) => Near(p)
      /\ Ordered(q) => Ordered(p)
  BY ONLY <1>4, <1>5 DEF Sticks, Near, Ordered
<1>7. StartsCounted(q, rest) => StartsCounted(p, s)
  <2> SUFFICES ASSUME StartsCounted(q, rest), NEW j \in DOMAIN p, ~p[j].del
               PROVE  p[j].starts = RunsOf(s, p[j].uid)
    BY DEF StartsCounted
  <2>1. q[j].starts = RunsOf(rest, q[j].uid) /\ p[j].uid = q[j].uid
    BY <1>4, <1>5 DEF StartsCounted
  <2>2. RunsOf(s, q[j].uid) =
          RunsOf(rest, q[j].uid) + (IF f.at = "job" /\ f.rec = q[j].uid THEN 1 ELSE 0)
    BY PushRuns
  <2>3. RunsOf(rest, q[j].uid) \in Nat
    BY RunsType
  <2>4. CASE j = i
    BY <1>3, <2>1, <2>2, <2>4
  <2>5. CASE j # i
    <3>1. q[j].uid # q[i].uid
      BY <1>5, <2>5 DEF Distinct
    <3>2. p[j] = q[j]
      BY <1>1, <2>5
    <3> QED BY <2>1, <2>2, <2>3, <3>1, <3>2
  <2> QED BY <2>4, <2>5
<1>8. Single(q, HeldIn(rest)) => Single(p, HeldIn(s))
  <2> SUFFICES ASSUME Single(q, HeldIn(rest)) PROVE Single(p, HeldIn(s))
    OBVIOUS
  <2>1. OnePerLine(p) /\ WithCommand(p)
    BY ONLY Single(q, HeldIn(rest)), <1>4, <1>5 DEF Single, OnePerLine, WithCommand
  <2>2. HeldIn(s) = HeldIn(rest) \cup {q[i].uid}
    BY PushFrame
  <2>3. RunsAlone(p, HeldIn(s))
    <3> SUFFICES ASSUME NEW k \in DOMAIN p, NEW j \in DOMAIN p,
                        p[k].uid \in HeldIn(s), ~p[j].del, p[j].line = p[k].line
                 PROVE  k = j
      BY DEF RunsAlone
    <3>1. ~q[j].del /\ q[j].line = q[k].line /\ (q[k].uid \in HeldIn(rest) \/ q[k].uid = q[i].uid)
      BY <1>4, <1>5, <2>2
    <3>2. CASE q[k].uid \in HeldIn(rest)
      BY <1>5, <3>1, <3>2 DEF Single, RunsAlone
    <3>3. CASE q[k].uid = q[i].uid
      <4>1. k = i
        BY <1>5, <3>3 DEF Distinct
      <4> QED BY <1>5, <3>1, <4>1 DEF Single, OnePerLine
    <3> QED BY <3>1, <3>2, <3>3
  <2> QED BY <2>1, <2>3 DEF Single
<1> QED BY <1>6, <1>7, <1>8

(* The first record found is one that may be executed and is due. *)
LEMMA ScanFinds ==
  ASSUME NEW q \in Seq(Record), NEW from \in Nat \ {0}, NEW ct, Scan(q, from, ct) # 0
  PROVE  LET i == Scan(q, from, ct) IN i \in DOMAIN q /\ i >= from /\ Due(q[i], ct)
<1> DEFINE due == {i \in from .. Len(q) : Due(q[i], ct)}
<1>1. due \in SUBSET Nat /\ due \subseteq DOMAIN q
  OBVIOUS
<1>2. due # {}
  BY DEF Scan
<1>3. (CHOOSE i \in due : \A j \in due : i <= j) \in due
  <2> HIDE DEF due
  <2>1. \E i \in due : \A j \in due : i <= j
    BY <1>1, <1>2, NatSetHasMin
  <2> QED BY <2>1
<1>4. Scan(q, from, ct) = CHOOSE i \in due : \A j \in due : i <= j
  BY <1>2 DEF Scan
<1>5. Scan(q, from, ct) \in due
  <2> HIDE DEF due
  <2> QED BY <1>3, <1>4
<1> QED BY <1>1, <1>5

LEMMA OperateFromJobs ==
  ASSUME NEW q \in Seq(Record), Distinct(q), NEW from \in Nat \ {0},
         NEW ct \in Times, NEW lock, NEW dirty, NEW rest \in Seq(Frame), NEW c,
         OperateFrom(q, from, ct, lock, dirty, rest)
  PROVE  /\ StartsCounted(q, rest) => StartsCounted(sq', stack')
         /\ Sticks(q, c) => Sticks(sq', c)
         /\ Near(q) => Near(sq')
         /\ Ordered(q) => Ordered(sq')
         /\ Single(q, HeldIn(rest)) => Single(sq', HeldIn(stack'))
<1> DEFINE i == Scan(q, from, ct)
<1>1. CASE i # 0
  <2>1. i \in DOMAIN q /\ Due(q[i], ct)
    BY <1>1, ScanFinds
  <2>2. ~q[i].del /\ q[i] \in Record
    BY <2>1 DEF Due, Eligible
  <2>3. sq' = Started(q, i) /\ stack' = <<Job(q[i], ct)>> \o rest
    BY <1>1 DEF OperateFrom, Started
  <2> DEFINE f == Job(q[i], ct)
  <2>4. f \in Frame /\ f.at = "job" /\ f.rec = q[i].uid
    BY <2>2, FrameTypes
  <2>5. stack' = <<f>> \o rest
    BY <2>3
  <2> HIDE DEF f, i
  <2> QED BY <2>1, <2>2, <2>3, <2>4, <2>5, StartKeeps
<1>2. CASE i = 0
  <2>1. sq' = Unlocked(q, lock, dirty) /\ stack' = rest
    BY <1>2 DEF OperateFrom
  <2>2. sq' = q \/ sq' = Cleanup(q)
    BY <2>1 DEF Unlocked
  <2>3. CASE sq' = Cleanup(q)
    <3>1. PICK g : Thins(g, sq', q)
      BY <2>3, CleanupThins
    <3>2. sq' \in Seq(Record)
      BY <2>3, CleanupType
    <3> HIDE DEF i
    <3> QED BY <2>1, <3>1, <3>2, ThinKeepsOrder, ThinKeepsJobs
  <2> QED BY <2>1, <2>2, <2>3
<1> QED BY <1>1, <1>2
-----------------------------------------------------------------------------
(* The end of a job *)

LEMMA PosOfUnique ==
  ASSUME NEW q \in Seq(Record), Distinct(q), NEW k \in DOMAIN q
  PROVE  PosOf(q, q[k].uid) = k
BY DEF PosOf, Distinct

(* Changing a record, but not its time, and adding another one commute. *)
LEMMA AddInsideCommutes ==
  ASSUME NEW q \in Seq(Record), NEW r \in Record, NEW i \in DOMAIN q,
         NEW e \in Record, e.time = q[i].time,
         NEW k \in 1 .. Len(q) + 1, k = IF i < InsertPos(q, r) THEN i ELSE i + 1
  PROVE  /\ AddInside(q, r)[k] = q[i]
         /\ AddInside([q EXCEPT ![i] = e], r) = [AddInside(q, r) EXCEPT ![k] = e]
<1> DEFINE b == [q EXCEPT ![i] = e]
           p == InsertPos(q, r)
<1>1. /\ b \in Seq(Record) /\ Len(b) = Len(q) /\ DOMAIN b = DOMAIN q /\ b[i] = e
      /\ \A j \in DOMAIN q : j # i => b[j] = q[j]
      /\ DOMAIN q = 1 .. Len(q) /\ Len(q) \in Nat
  OBVIOUS
<1> HIDE DEF b
<1>2. \A j \in DOMAIN q : b[j].time = q[j].time
  BY <1>1
<1>3. InsertPos(b, r) = p
  <2> DEFINE later(x) == {j \in DOMAIN x : CmpTimes(r.time, x[j].time) < 0}
  <2>1. later(b) = later(q)
    BY <1>1, <1>2
  <2>2. \A x : InsertPos(x, r) =
          IF later(x) = {} THEN Len(x) + 1 ELSE CHOOSE m \in later(x) : \A j \in later(x) : m <= j
    BY DEF InsertPos
  <2> HIDE DEF later
  <2> QED BY <1>1, <2>1, <2>2
<1>4. p \in 1 .. Len(q) + 1
  BY InsertPosType
<1> HIDE DEF p
<1>5. AddInside(q, r) = AddAt(q, p, r) /\ AddInside(b, r) = AddAt(b, p, r)
  BY <1>3 DEF AddInside, p
<1>6. k = IF i < p THEN i ELSE i + 1
  BY DEF p
<1> DEFINE a == AddAt(q, p, r)
<1>7. a = [j \in 1 .. Len(q) + 1 |-> IF j < p THEN q[j] ELSE IF j = p THEN r ELSE q[j - 1]]
  BY DEF AddAt
<1>8. AddAt(b, p, r) = [j \in 1 .. Len(q) + 1 |-> IF j < p THEN b[j] ELSE IF j = p THEN r ELSE b[j - 1]]
  BY <1>1 DEF AddAt
<1>9. a[k] = q[i]
  <2> HIDE DEF a
  <2> QED BY <1>1, <1>4, <1>6, <1>7
<1>10. ASSUME NEW j \in 1 .. Len(q) + 1
       PROVE  (IF j < p THEN b[j] ELSE IF j = p THEN r ELSE b[j - 1])
                = IF j = k THEN e ELSE a[j]
  <2>1. a[j] = IF j < p THEN q[j] ELSE IF j = p THEN r ELSE q[j - 1]
    BY <1>7
  <2> HIDE DEF a
  <2>2. CASE j < p
    <3>1. j \in DOMAIN q
      BY <1>1, <1>4, <2>2
    <3>2. j = k <=> j = i
      BY <1>1, <1>4, <1>6, <2>2
    <3> QED BY <1>1, <2>1, <2>2, <3>1, <3>2
  <2>3. CASE j = p
    <3>1. j # k
      BY <1>1, <1>4, <1>6, <2>3
    <3> QED BY <1>4, <2>1, <2>3, <3>1
  <2>4. CASE j > p
    <3>1. j - 1 \in DOMAIN q
      BY <1>1, <1>4, <2>4
    <3>2. j = k <=> j - 1 = i
      BY <1>1, <1>4, <1>6, <2>4
    <3>3. ~(j < p) /\ j # p
      BY <1>4, <2>4
    <3> QED BY <1>1, <2>1, <3>1, <3>2, <3>3
  <2> QED BY <1>4, <2>2, <2>3, <2>4
<1>11. [a EXCEPT ![k] = e] = [j \in 1 .. Len(q) + 1 |-> IF j = k THEN e ELSE a[j]]
  <2>1. DOMAIN a = 1 .. Len(q) + 1
    BY <1>7
  <2> HIDE DEF a
  <2> QED BY <1>7, <2>1
<1> HIDE DEF a
<1>12. AddAt(b, p, r) = [a EXCEPT ![k] = e]
  BY <1>8, <1>10, <1>11
<1> QED BY <1>5, <1>9, <1>12 DEF a, b

(* The record of the job that ends *)
Over(r, p) == [r EXCEPT !.cmd = IF p THEN FALSE ELSE @, !.del = TRUE]

(* The record that takes over a periodic job *)
Successor(r, uid) ==
  [r EXCEPT !.uid = uid, !.time = Plus(evtime, r.period),
            !.new = TRUE, !.del = FALSE, !.starts = 0]

(* What the end of the job u does to the queue before the loop goes on:     *)
(* its record is marked, and a periodic job gets another one.               *)
EndsAs(q, u, uid) ==
  Finished(IF q[PosOf(q, u)].period > 0 THEN Rearmed(q, PosOf(q, u), uid) ELSE q, u)

EndsWell(q, u, uid) ==
  LET i == PosOf(q, u)
      e == [q EXCEPT ![i] = Over(q[i], q[i].period > 0)]
  IN  /\ i \in DOMAIN q /\ q[i].uid = u
      /\ e \in Seq(Record) /\ Distinct(e) /\ Used(e) = Used(q)
      /\ \E g : Thins(g, e, q)
      /\ Successor(q[i], uid).uid = uid
      /\ q[i].period > 0 =>
           /\ Successor(q[i], uid) \in Record
           /\ EndsAs(q, u, uid) = AddInside(e, Successor(q[i], uid))
      /\ ~(q[i].period > 0) => EndsAs(q, u, uid) = e

LEMMA JobEnds ==
  ASSUME NEW q \in Seq(Record), Distinct(q), NEW u \in Used(q), NEW uid,
         evtime \in 0 .. ClockMod - 1,
         q[PosOf(q, u)].period > 0 => uid \in Uids \ Used(q)
  PROVE  EndsWell(q, u, uid)
<1> DEFINE i == PosOf(q, u)
           per == q[i].period > 0
           e == [q EXCEPT ![i] = Over(q[i], per)]
           r == Successor(q[i], uid)
<1>1. i \in DOMAIN q /\ q[i].uid = u /\ q[i] \in Record
  BY PosOfType
<1>2. /\ Over(q[i], per) \in Record /\ Over(q[i], per).uid = u
      /\ Over(q[i], per).time = q[i].time /\ SameJob(Over(q[i], per), q[i])
  <2> DEFINE x == q[i]
             v == per
  <2>1. x \in Record /\ x.uid = u /\ v \in BOOLEAN
    BY <1>1
  <2> HIDE DEF x, v
  <2>2. /\ Over(x, v) \in Record /\ Over(x, v).uid = u
        /\ Over(x, v).time = x.time /\ SameJob(Over(x, v), x)
    BY <2>1 DEF Over, Record, SameJob
  <2> QED BY <2>2 DEF x, v
<1>3. /\ e \in Seq(Record) /\ Distinct(e) /\ Used(e) = Used(q) /\ DOMAIN e = DOMAIN q
  <2> DEFINE x == Over(q[i], per)
  <2>1. x \in Record /\ x.uid = q[i].uid /\ e = [q EXCEPT ![i] = x]
    BY <1>1, <1>2
  <2> HIDE DEF x, e, i
  <2> QED BY <1>1, <2>1, UpdateKeeps
<1>4. \E g : Thins(g, e, q)
  <2>1. ASSUME NEW j \in DOMAIN q PROVE SameJob(e[j], q[j])
    <3>1. CASE j = i
      <4>1. e[j] = Over(q[i], per)
        BY <1>1, <3>1
      <4> HIDE DEF e, i, per
      <4> QED BY <1>2, <3>1, <4>1
    <3>2. CASE j # i
      <4>1. e[j] = q[j]
        BY <3>2
      <4> HIDE DEF e
      <4> QED BY <4>1 DEF SameJob
    <3> QED BY <3>1, <3>2
  <2> HIDE DEF e
  <2> QED BY <1>3, <2>1, PlaceThins
<1>5. r.uid = uid
  <2> DEFINE x == q[i]
  <2>1. x \in Record
    BY <1>1
  <2> HIDE DEF x
  <2>2. Successor(x, uid).uid = uid
    BY <2>1 DEF Successor, Record
  <2> QED BY <2>2 DEF x
<1>6. ASSUME per PROVE r \in Record /\ EndsAs(q, u, uid) = AddInside(e, r)
  <2>1. uid \in Uids /\ uid \notin Used(q)
    BY <1>6
  <2>2. r \in Record
    <3> DEFINE x == q[i]
    <3>1. x \in Record
      BY <1>1
    <3> HIDE DEF x
    <3>2. x.period \in Nat
      <4>1. x.period \in {0} \cup Periods
        BY <3>1 DEF Record
      <4>2. \A p \in {0} \cup Periods : p \in Nat
        BY ScheduleAssumption
      <4> QED BY <4>1, <4>2
    <3>3. evtime \in Times /\ Plus(evtime, x.period) \in Times
      BY <3>2, TimeTypes
    <3>4. Successor(x, uid) \in Record
      BY <2>1, <3>1, <3>3 DEF Successor, Record
    <3> QED BY <3>4 DEF x
  <2> DEFINE w == [q[i] EXCEPT !.cmd = FALSE]
             b == [q EXCEPT ![i] = w]
             k == IF i < InsertPos(b, r) THEN i ELSE i + 1
             y == [w EXCEPT !.del = TRUE]
  <2>3. w \in Record /\ w.uid = q[i].uid /\ w.time = q[i].time /\ y \in Record /\ y.time = w.time
        /\ y = Over(q[i], per)
    <3> DEFINE x == q[i]
    <3>1. x \in Record
      BY <1>1
    <3>2. w = [x EXCEPT !.cmd = FALSE] /\ per
      BY <1>6
    <3> HIDE DEF x, w, per
    <3>3. w \in Record /\ w.uid = x.uid /\ w.time = x.time
      BY <3>1, <3>2 DEF Record
    <3>4. y \in Record /\ y.time = w.time
      BY <3>3 DEF Record
    <3>5. y = Over(x, per)
      BY <3>1, <3>2 DEF Over, Record
    <3> QED BY <3>3, <3>4, <3>5 DEF x
  <2>4. /\ b \in Seq(Record) /\ Distinct(b) /\ Used(b) = Used(q)
        /\ DOMAIN b = DOMAIN q /\ Len(b) = Len(q) /\ b[i] = w
    <3> HIDE DEF w, i
    <3>1. b[i] = w
      BY <1>1
    <3> HIDE DEF b
    <3>2. b = [q EXCEPT ![i] = w]
      BY DEF b
    <3>3. i \in DOMAIN q /\ w \in Record /\ w.uid = q[i].uid
      BY <1>1, <2>3
    <3>4. /\ [q EXCEPT ![i] = w] \in Seq(Record)
          /\ Len([q EXCEPT ![i] = w]) = Len(q)
          /\ DOMAIN [q EXCEPT ![i] = w] = DOMAIN q
          /\ Distinct([q EXCEPT ![i] = w])
          /\ Used([q EXCEPT ![i] = w]) = Used(q)
      BY <3>3, UpdateKeeps
    <3> QED BY <3>1, <3>2, <3>4
  <2>5. EndsAs(q, u, uid) = Finished(AddInside(b, r), u)
    BY <1>6 DEF EndsAs, Rearmed, Successor
  <2> DEFINE a == AddInside(b, r)
  <2> HIDE DEF r, w, i, per
  <2>6. a \in Seq(Record) /\ Distinct(a)
    <3> HIDE DEF b
    <3>1. r.uid \notin Used(b)
      BY <1>5, <2>1, <2>4
    <3> QED BY <2>2, <2>4, <3>1, AddInsideKeeps
  <2>7. k \in 1 .. Len(b) + 1
    <3> HIDE DEF b
    <3>1. Len(b) \in Nat /\ i \in 1 .. Len(b)
      BY <1>1, <2>4
    <3> QED BY <3>1
  <2> HIDE DEF b, k, y
  <2>8. /\ a[k] = w
        /\ AddInside([b EXCEPT ![i] = y], r) = [a EXCEPT ![k] = y]
    <3>1. k = IF i < InsertPos(b, r) THEN i ELSE i + 1
      BY DEF k
    <3>2. i \in DOMAIN b /\ y.time = b[i].time
      BY <1>1, <2>3, <2>4
    <3>3. /\ AddInside(b, r)[k] = b[i]
          /\ AddInside([b EXCEPT ![i] = y], r) = [AddInside(b, r) EXCEPT ![k] = y]
      <4>1. b \in Seq(Record) /\ r \in Record /\ y \in Record /\ k \in 1 .. Len(b) + 1
        BY <2>2, <2>3, <2>4, <2>7
      <4> QED BY ONLY <3>1, <3>2, <4>1, AddInsideCommutes, SMTT(30)
    <3> QED BY <2>4, <3>3 DEF a
  <2>9. k \in DOMAIN a
    <3>1. DOMAIN a = 1 .. Len(b) + 1
      BY <2>2, <2>4, AddInsideAt
    <3> QED BY <2>7, <3>1
  <2> HIDE DEF a
  <2>10. PosOf(a, u) = k
    <3>1. a[k].uid = u
      BY <1>1, <2>3, <2>8
    <3> QED BY <2>6, <2>9, <3>1, PosOfUnique
  <2>11. Finished(a, u) = [a EXCEPT ![k] = y]
    <3>1. Finished(a, u) = [a EXCEPT ![k] = [a[k] EXCEPT !.del = TRUE]]
      BY <2>10 DEF Finished
    <3> QED BY <2>8, <3>1 DEF y
  <2>12. [b EXCEPT ![i] = y] = e
    <3>1. b = [q EXCEPT ![i] = w] /\ e = [q EXCEPT ![i] = y]
      BY <2>3 DEF b
    <3> HIDE DEF e
    <3> QED BY <1>1, <3>1
  <2> QED BY <2>2, <2>5, <2>8, <2>11, <2>12 DEF a
<1>7. ASSUME ~per PROVE EndsAs(q, u, uid) = e
  <2>1. EndsAs(q, u, uid) = [q EXCEPT ![i] = [q[i] EXCEPT !.del = TRUE]]
    BY <1>7 DEF EndsAs, Finished
  <2>2. Over(q[i], per) = [q[i] EXCEPT !.del = TRUE]
    <3> DEFINE x == q[i]
    <3>1. x \in Record /\ ~per
      BY <1>1, <1>7
    <3> HIDE DEF x, per
    <3>2. Over(x, per) = [x EXCEPT !.del = TRUE]
      BY <3>1 DEF Over, Record
    <3> QED BY <3>2 DEF x
  <2> QED BY <2>1, <2>2
<1> QED BY <1>1, <1>3, <1>4, <1>5, <1>6, <1>7 DEF EndsWell
-----------------------------------------------------------------------------
(* The steps, by what they do to the queue *)

Quiet == sq' = sq /\ cancelled' = cancelled /\ SameRuns(stack', stack)

(* squeue_execute is entered from rest. *)
Executes(rest) ==
  /\ rest \in Seq(Frame) /\ SameRuns(rest, stack) /\ Top.at # "job"
  /\ evtime' = Stamped(clock) /\ cancelled' = cancelled
  /\ OperateFrom(sq, 1, clock, lock_level + 1, is_dirty, rest)

LEMMA GotoQuiet ==
  ASSUME IInv, Top.at # "job", NEW pc \in LoopPoints, NEW ms \in Int
  PROVE  /\ Goto(pc, ms) \in Seq(Frame)
         /\ SameRuns(Goto(pc, ms), stack)
         /\ <<Cmd>> \o Goto(pc, ms) \in Seq(Frame)
         /\ SameRuns(<<Cmd>> \o Goto(pc, ms), stack)
<1> DEFINE t == Goto(pc, ms)
<1>1. stack \in Seq(Frame) /\ stack # <<>> /\ stack[1].at # "job"
  BY DEF IInv, Consistent, MainLoop, Top
<1>2. Loop(pc, ms) \in Frame /\ Loop(pc, ms).at # "job"
  BY FrameTypes
<1>3. t \in Seq(Frame) /\ SameRuns(t, stack)
  BY <1>1, <1>2, GotoKeeps, GotoRuns DEF Goto
<1> HIDE DEF t
<1>4. <<Cmd>> \o t \in Seq(Frame) /\ SameRuns(<<Cmd>> \o t, t)
  BY <1>3, FrameTypes, CallKeeps, CallRuns
<1>5. SameRuns(<<Cmd>> \o t, stack)
  BY <1>3, <1>4 DEF SameRuns
<1> QED BY <1>3, <1>4, <1>5 DEF t

LEMMA ExecuteStep ==
  ASSUME NEW rest \in Seq(Frame), SameRuns(rest, stack), SqueueExecute(rest),
         Top.at # "job", cancelled' = cancelled
  PROVE  Quiet \/ Executes(rest)
<1>1. CASE sq = <<>>
  BY <1>1 DEF SqueueExecute, queueVars, Quiet
<1>2. CASE sq # <<>>
  BY <1>2 DEF SqueueExecute, Executes
<1> QED BY <1>1, <1>2

LEMMA Steps ==
  ASSUME IInv, [Next]_vars
  PROVE  \/ Quiet
         \/ \E rest \in Seq(Frame) : Executes(rest)
         \/ \E ms \in Delays \cup Periods, period \in {0} \cup Periods, id \in Ids \cup {0} :
              CmdSchedule(ms, period, id)
         \/ \E id \in Ids \cup {0} : CmdDeschedule(id)
         \/ JobReturn
<1>1. /\ stack \in Seq(Frame) /\ stack # <<>>
      /\ evtime \in Times /\ sq \in Seq(Record)
  BY TimeTypes DEF IInv, Consistent, MainLoop, ScalarsOK
<1>2. GetNextMs(sq, evtime) \in Int
  BY <1>1, GetNextMsType
<1>3. {"begin", "again", "select", "woken"} = LoopPoints /\ -1 \in Int
  BY DEF LoopPoints
<1>4. SameRuns(stack, stack)
  BY DEF SameRuns
<1>5. CASE Tick
  <2>1. CASE Top.at = "select" /\ Top.ms > 0
    <3>1. Top.ms - 1 \in Int
      <4>1. Top \in Frame
        BY <1>1, TopAndRest DEF Top
      <4> QED BY <4>1 DEF Frame
    <3>2. SameRuns(Goto("select", Top.ms - 1), stack)
      BY <1>3, <2>1, <3>1, GotoQuiet
    <3> QED BY <1>5, <2>1, <3>2 DEF Tick, queueVars, Quiet
  <2>2. CASE ~(Top.at = "select" /\ Top.ms > 0)
    BY <1>4, <1>5, <2>2 DEF Tick, queueVars, Quiet
  <2> QED BY <2>1, <2>2
<1>6. CASE LoopEvent
  <2>1. PICK pc \in {"begin", "woken"} : stack' = <<Cmd>> \o Goto(pc, -1)
    BY <1>6 DEF LoopEvent
  <2>2. Top.at # "job"
    BY <1>6 DEF LoopEvent
  <2>3. SameRuns(stack', stack)
    BY <1>3, <2>1, <2>2, GotoQuiet
  <2> QED BY <1>6, <2>3 DEF LoopEvent, queueVars, Quiet
<1>7. CASE LoopIdle
  <2>1. Top.at # "job"
    BY <1>7 DEF LoopIdle
  <2>2. CASE GetNextMs(sq, evtime) = 0
    <3>1. Goto("again", -1) \in Seq(Frame) /\ SameRuns(Goto("again", -1), stack)
      BY <1>3, <2>1, GotoQuiet
    <3>2. SqueueExecute(Goto("again", -1)) /\ cancelled' = cancelled
      BY <1>7, <2>2 DEF LoopIdle
    <3> QED BY <2>1, <3>1, <3>2, ExecuteStep
  <2>3. CASE GetNextMs(sq, evtime) # 0
    <3>1. SameRuns(Goto("select", GetNextMs(sq, evtime)), stack)
      BY <1>2, <1>3, <2>1, GotoQuiet
    <3> QED BY <1>7, <2>3, <3>1 DEF LoopIdle, queueVars, Quiet
  <2> QED BY <2>2, <2>3
<1>8. CASE LoopAgain
  <2>1. PICK ms \in Int : stack' = Goto("select", ms)
    BY <1>2, <1>8 DEF LoopAgain
  <2>2. Top.at # "job"
    BY <1>8 DEF LoopAgain
  <2>3. SameRuns(stack', stack)
    BY <1>3, <2>1, <2>2, GotoQuiet
  <2> QED BY <1>8, <2>3 DEF LoopAgain, queueVars, Quiet
<1>9. CASE LoopTimeout
  <2>1. Top.at # "job" /\ SqueueExecute(Goto("begin", -1)) /\ cancelled' = cancelled
    BY <1>9 DEF LoopTimeout
  <2>2. Goto("begin", -1) \in Seq(Frame) /\ SameRuns(Goto("begin", -1), stack)
    BY <1>3, <2>1, GotoQuiet
  <2> QED BY <2>1, <2>2, ExecuteStep
<1>10. CASE LoopInput
  <2>1. Top.at # "job"
    BY <1>10 DEF LoopInput
  <2>2. SameRuns(stack', stack)
    BY <1>3, <1>10, <2>1, GotoQuiet DEF LoopInput
  <2> QED BY <1>10, <2>2 DEF LoopInput, queueVars, Quiet
<1>11. CASE WaitDone \/ CmdReturn
  <2>1. stack[1].at # "job" /\ stack' = Tail(stack)
    BY <1>11 DEF WaitDone, CmdReturn, Top
  <2>2. SameRuns(stack', stack)
    BY <1>1, <2>1, ReturnRuns
  <2> QED BY <1>11, <2>2 DEF WaitDone, CmdReturn, queueVars, Quiet
<1>12. CASE CmdWait
  <2>1. Loop("begin", -1) \in Frame /\ Loop("begin", -1).at # "job"
    BY <1>3, FrameTypes
  <2>2. SameRuns(<<Loop("begin", -1)>> \o stack, stack)
    BY <1>1, <2>1, CallRuns
  <2> QED BY <1>12, <2>2 DEF CmdWait, queueVars, Quiet
<1>13. CASE UNCHANGED vars
  BY <1>4, <1>13 DEF vars, Quiet
<1> QED BY <1>5, <1>6, <1>7, <1>8, <1>9, <1>10, <1>11, <1>12, <1>13 DEF Next, Loops, Commands

(* The call of squeue_execute on top goes on after its job has ended. *)
Continues(uid) ==
  LET done == EndsAs(sq, Top.rec, uid)
  IN OperateFrom(done, PosOf(done, Top.rec) + 1, Top.ctime, lock_level, TRUE, Tail(stack))

LEMMA JobReturnStep ==
  ASSUME IInv, JobReturn
  PROVE  /\ stack \in Seq(Frame) /\ Tail(stack) \in Seq(Frame) /\ stack = <<Top>> \o Tail(stack)
         /\ Top \in Frame /\ Top.at = "job" /\ Top.ctime \in Times
         /\ Top.rec \in Used(sq) /\ HeldIn(Tail(stack)) \subseteq Used(sq)
         /\ cancelled' = cancelled
         /\ \E uid : /\ Continues(uid)
                     /\ sq[PosOf(sq, Top.rec)].period > 0 => uid \in FreshUids
<1>1. /\ stack \in Seq(Frame) /\ stack # <<>> /\ HeldIn(stack) \subseteq Used(sq)
  BY DEF IInv, Consistent, MainLoop
<1>2. stack[1] \in Frame /\ Tail(stack) \in Seq(Frame) /\ stack = <<Top>> \o Tail(stack)
  BY <1>1, TopAndRest DEF Top
<1>3. Top \in Frame /\ Top.at = "job" /\ Top.ctime \in Times /\ cancelled' = cancelled
  BY <1>2 DEF Top, JobReturn, Frame
<1>4. HeldIn(stack) = HeldIn(Tail(stack)) \cup {Top.rec}
  BY <1>2, <1>3, PushFrame
<1>5. PICK uid \in IF sq[PosOf(sq, Top.rec)].period > 0 THEN FreshUids ELSE {Top.rec} : Continues(uid)
  BY DEF JobReturn, Continues, EndsAs
<1>6. sq[PosOf(sq, Top.rec)].period > 0 => uid \in FreshUids
  BY <1>5
<1> HIDE DEF Continues
<1> QED BY <1>1, <1>2, <1>3, <1>4, <1>5, <1>6

(* The queue that the loop goes on with: e is the queue with the record of  *)
(* the job marked.                                                          *)
DoneFrom(e, uid) ==
  LET i == PosOf(sq, Top.rec)
      done == EndsAs(sq, Top.rec, uid)
      r == Successor(sq[i], uid)
  IN  /\ i \in DOMAIN sq /\ sq[i].uid = Top.rec /\ sq[i] \in Record
      /\ e \in Seq(Record) /\ Distinct(e) /\ Used(e) = Used(sq) /\ DOMAIN e = DOMAIN sq
      /\ \E g : Thins(g, e, sq)
      /\ \A j \in DOMAIN e : ~e[j].del => j # i
      /\ \A j \in DOMAIN e : j # i => e[j] = sq[j]
      /\ \A j \in DOMAIN e : e[j].line = sq[j].line
      /\ done \in Seq(Record) /\ Distinct(done)
      /\ PosOf(done, Top.rec) + 1 \in Nat \ {0}
      /\ \/ done = e /\ ~(sq[i].period > 0)
         \/ /\ sq[i].period > 0 /\ uid \in FreshUids /\ uid \notin Used(sq)
            /\ r \in Record /\ r.uid = uid /\ r.id = sq[i].id /\ r.line = sq[i].line
            /\ r.starts = 0 /\ ~r.del /\ r.new /\ r.cmd = sq[i].cmd
            /\ r.time = Plus(evtime, sq[i].period) /\ r.period = sq[i].period
            /\ done = AddInside(e, r)

LEMMA DoneQueue ==
  ASSUME IInv, JobReturn, NEW uid, sq[PosOf(sq, Top.rec)].period > 0 => uid \in FreshUids
  PROVE  \E e : DoneFrom(e, uid)
<1> DEFINE i == PosOf(sq, Top.rec)
<1> DEFINE e == [sq EXCEPT ![i] = Over(sq[i], sq[i].period > 0)]
           done == EndsAs(sq, Top.rec, uid)
           r == Successor(sq[i], uid)
<1>1. sq \in Seq(Record) /\ Distinct(sq) /\ Top.rec \in Used(sq) /\ evtime \in 0 .. ClockMod - 1
  BY JobReturnStep DEF IInv, Consistent, ScalarsOK
<1>2. sq[i].period > 0 => uid \in Uids \ Used(sq)
  BY DEF FreshUids, Used
<1>3. /\ i \in DOMAIN sq /\ sq[i].uid = Top.rec
      /\ e \in Seq(Record) /\ Distinct(e) /\ Used(e) = Used(sq)
      /\ \E g : Thins(g, e, sq)
      /\ r.uid = uid
      /\ sq[i].period > 0 => r \in Record /\ done = AddInside(e, r)
      /\ ~(sq[i].period > 0) => done = e
  <2>1. EndsWell(sq, Top.rec, uid)
    BY <1>1, <1>2, JobEnds
  <2> QED BY <2>1 DEF EndsWell
<1>4. sq[i] \in Record
  BY <1>1, <1>3
<1>5. DOMAIN e = DOMAIN sq /\ e[i] = Over(sq[i], sq[i].period > 0)
      /\ \A j \in DOMAIN e : j # i => e[j] = sq[j]
  BY <1>1, <1>3
<1>6. /\ r.id = sq[i].id /\ r.line = sq[i].line /\ r.starts = 0 /\ ~r.del /\ r.new
      /\ r.cmd = sq[i].cmd /\ r.time = Plus(evtime, sq[i].period) /\ r.period = sq[i].period
  <2> DEFINE x == sq[i]
  <2>1. x \in Record
    BY <1>4
  <2> HIDE DEF x
  <2>2. LET z == Successor(x, uid) IN
        /\ z.id = x.id /\ z.line = x.line /\ z.starts = 0 /\ ~z.del /\ z.new
        /\ z.cmd = x.cmd /\ z.time = Plus(evtime, x.period) /\ z.period = x.period
    BY <2>1 DEF Successor, Record
  <2> QED BY <2>2 DEF x
<1>7. Over(sq[i], sq[i].period > 0).del /\ Over(sq[i], sq[i].period > 0).line = sq[i].line
  <2> DEFINE x == sq[i]
             v == x.period > 0
  <2>1. x \in Record
    BY <1>4
  <2> HIDE DEF x, v
  <2>2. Over(x, v).del /\ Over(x, v).line = x.line
    BY <2>1 DEF Over, Record
  <2> QED BY <2>2 DEF x, v
<1> HIDE DEF e, done, r
<1>8. done \in Seq(Record) /\ Distinct(done) /\ Top.rec \in Used(done)
  BY <1>1, <1>2, <1>3, AddInsideKeeps
<1>9. PosOf(done, Top.rec) + 1 \in Nat \ {0}
  <2>1. PosOf(done, Top.rec) \in DOMAIN done
    BY <1>8, PosOfType
  <2>2. PosOf(done, Top.rec) \in Nat
    BY <1>8, <2>1
  <2> QED BY <2>2
<1>10. /\ \A j \in DOMAIN e : ~e[j].del => j # i
       /\ \A j \in DOMAIN e : e[j].line = sq[j].line
  BY <1>5, <1>7
<1>11. \/ done = e /\ ~(sq[i].period > 0)
       \/ sq[i].period > 0 /\ uid \in FreshUids /\ uid \notin Used(sq) /\ r \in Record /\ done = AddInside(e, r)
  BY <1>2, <1>3
<1> HIDE DEF i
<1>12. DoneFrom(e, uid)
  BY <1>3, <1>4, <1>5, <1>6, <1>8, <1>9, <1>10, <1>11 DEF DoneFrom, done, r, i
<1> QED BY <1>12
-----------------------------------------------------------------------------
(* The command Schedule, as a queue with a new record *)

NewRecord(r, ms) ==
  /\ r \in Record /\ r.uid \notin Used(sq) /\ r.starts = 0 /\ ~r.del /\ r.cmd
  /\ r.line = r.uid /\ \A i \in DOMAIN sq : sq[i].line # r.line
  /\ r.time = Plus(evtime, ms) /\ r.new = (lock_level > 0)
  /\ sq' = AddInside(sq, r)
  /\ cancelled' = [i \in DOMAIN cancelled \ {r.id} |-> cancelled[i]]
  /\ UNCHANGED <<lock_level, clock, evtime, stack>>

LEMMA ScheduleStep ==
  ASSUME IInv, NEW ms \in Delays \cup Periods, NEW period \in {0} \cup Periods,
         NEW id \in Ids \cup {0}, CmdSchedule(ms, period, id)
  PROVE  \E r : NewRecord(r, ms)
<1> DEFINE theId == IF id = 0 THEN next_schedule_id ELSE id
<1>1. PICK uid \in FreshUids :
        /\ sq' = AddInside(sq,
                   [uid |-> uid, id |-> theId, time |-> Plus(evtime, ms),
                    period |-> period, cmd |-> TRUE, del |-> FALSE,
                    new |-> lock_level > 0, starts |-> 0, line |-> uid])
        /\ cancelled' = [i \in DOMAIN cancelled \ {theId} |-> cancelled[i]]
  BY DEF CmdSchedule
<1> DEFINE r == [uid |-> uid, id |-> theId, time |-> Plus(evtime, ms),
                 period |-> period, cmd |-> TRUE, del |-> FALSE,
                 new |-> lock_level > 0, starts |-> 0, line |-> uid]
<1>2. lock_level \in Nat /\ ScalarsOK
  BY DEF IInv, Consistent
<1>3. uid \in Uids /\ uid \notin Used(sq) /\ \A i \in DOMAIN sq : sq[i].line # uid
  BY DEF FreshUids, Used
<1>4. theId \in AllIds
  BY <1>2 DEF ScalarsOK, AllIds
<1>5. Plus(evtime, ms) \in Times
  <2>1. ms \in Nat
    BY ScheduleAssumption
  <2> QED BY <1>2, <2>1, TimeTypes DEF ScalarsOK
<1>6. /\ r \in Record /\ r.uid = uid /\ r.starts = 0 /\ ~r.del /\ r.cmd /\ r.line = uid
      /\ r.id = theId /\ r.time = Plus(evtime, ms) /\ r.new = (lock_level > 0)
  BY <1>2, <1>3, <1>4, <1>5 DEF Record
<1>7. sq' = AddInside(sq, r)
  BY <1>1
<1>8. UNCHANGED <<lock_level, clock, evtime, stack>>
  BY DEF CmdSchedule
<1> HIDE DEF r
<1>9. NewRecord(r, ms)
  BY <1>1, <1>3, <1>6, <1>7, <1>8 DEF NewRecord
<1> QED BY <1>9

(* The command Deschedule leaves a thinned queue, in which no record of the *)
(* group is left if the queue was idle.                                     *)
LEMMA DescheduleStep ==
  ASSUME IInv, NEW id \in Ids \cup {0}, CmdDeschedule(id)
  PROVE  LET theId == IF id = 0 THEN last_schedule_id ELSE id
         IN  /\ sq' \in Seq(Record) /\ \E g : Thins(g, sq', sq)
             /\ lock_level > 0 => sq' = Marked(sq, theId) \/ (sq = <<>> /\ sq' = sq)
             /\ lock_level = 0 =>
                  /\ \A i \in DOMAIN sq' : sq'[i].id # theId
                  /\ sq' = Cleanup(Marked(sq, theId)) \/ sq' = sq
             /\ cancelled' = [i \in DOMAIN cancelled \cup {theId} |->
                                IF i # theId THEN cancelled[i]
                                ELSE IF lock_level = 0 THEN "idle" ELSE "busy"]
             /\ UNCHANGED <<lock_level, clock, evtime, stack>>
<1> DEFINE theId == IF id = 0 THEN last_schedule_id ELSE id
           marked == Marked(sq, theId)
           dirty == is_dirty \/ marked # sq
<1>1. /\ sq \in Seq(Record) /\ Distinct(sq) /\ lock_level \in Nat
      /\ lock_level = 0 => AllEligible(sq)
  BY DEF IInv, Consistent
<1>2. UNCHANGED <<lock_level, clock, evtime, stack>>
  BY DEF CmdDeschedule, queueVars
<1>3. cancelled' = [i \in DOMAIN cancelled \cup {theId} |->
                      IF i # theId THEN cancelled[i]
                      ELSE IF lock_level = 0 THEN "idle" ELSE "busy"]
  BY DEF CmdDeschedule
<1> HIDE DEF theId
<1>4. \A q \in Seq(Record) : \E g : Thins(g, q, q)
  <2> SUFFICES ASSUME NEW q \in Seq(Record) PROVE \E g : Thins(g, q, q)
    OBVIOUS
  <2>1. \A i \in DOMAIN q : SameJob(q[i], q[i])
    BY DEF SameJob
  <2> QED BY <2>1, PlaceThins
<1>5. CASE sq = <<>>
  <2>1. sq' = sq
    BY <1>5 DEF CmdDeschedule, queueVars
  <2>2. DOMAIN sq' = {}
    BY <1>5, <2>1
  <2> QED BY <1>1, <1>2, <1>3, <1>4, <1>5, <2>1, <2>2 DEF theId
<1>6. CASE sq # <<>>
  <2>1. sq' = Unlocked(marked, lock_level + 1, dirty)
    BY <1>6 DEF CmdDeschedule, theId
  <2>2. /\ marked \in Seq(Record) /\ Distinct(marked) /\ DOMAIN marked = DOMAIN sq
        /\ \E g : Thins(g, marked, sq)
    BY <1>1, MarkedThins, MarkedKeeps
  <2>3. CASE lock_level > 0
    <3>1. sq' = marked
      BY <1>1, <2>1, <2>3 DEF Unlocked
    <3>2. lock_level # 0
      BY <1>1, <2>3
    <3>3. marked = Marked(sq, theId) /\ sq' \in Seq(Record) /\ \E g : Thins(g, sq', sq)
      BY <2>2, <3>1
    <3> HIDE DEF marked
    <3> QED BY <1>2, <1>3, <3>1, <3>2, <3>3 DEF theId
  <2>4. CASE lock_level = 0
    <3>1. sq' = IF dirty THEN Cleanup(marked) ELSE marked
      BY <2>1, <2>4 DEF Unlocked
    <3>2. ASSUME NEW i \in DOMAIN sq, sq[i].id = theId PROVE marked[i].del
      <4>1. Eligible(sq[i]) /\ sq[i] \in Record
        BY <1>1, <2>4 DEF AllEligible
      <4>2. marked[i] = [sq[i] EXCEPT !.del = TRUE]
        BY <3>2, <4>1 DEF Marked
      <4> DEFINE x == sq[i]
      <4>3. x \in Record /\ marked[i] = [x EXCEPT !.del = TRUE]
        BY <4>1, <4>2
      <4> HIDE DEF x, marked
      <4> QED BY <4>3 DEF Record
    <3>3. ASSUME NEW i \in DOMAIN sq PROVE marked[i].id = sq[i].id
      <4>1. sq[i] \in Record /\ (marked[i] = sq[i] \/ marked[i] = [sq[i] EXCEPT !.del = TRUE])
        BY <1>1 DEF Marked
      <4> DEFINE x == sq[i]
      <4>2. x \in Record /\ (marked[i] = x \/ marked[i] = [x EXCEPT !.del = TRUE])
        BY <4>1
      <4> HIDE DEF x, marked
      <4>3. marked[i].id = x.id
        BY <4>2 DEF Record
      <4> QED BY <4>3 DEF x
    <3> HIDE DEF marked
    <3>4. CASE dirty
      <4>1. sq' = Cleanup(marked)
        BY <3>1, <3>4
      <4>2. sq' \in Seq(Record)
        BY <2>2, <4>1, CleanupType
      <4>3. PICK g : Thins(g, sq', marked)
        BY <2>2, <4>1, CleanupThins
      <4>4. PICK h : Thins(h, marked, sq)
        BY <2>2
      <4>5. Thins([k \in DOMAIN sq' |-> h[g[k]]], sq', sq)
        <5>1. ASSUME NEW k \in DOMAIN sq'
              PROVE  /\ g[k] \in DOMAIN marked /\ h[g[k]] \in DOMAIN sq
                     /\ SameJob(sq'[k], sq[h[g[k]]])
          <6>1. g[k] \in DOMAIN marked /\ SameJob(sq'[k], marked[g[k]])
            BY <4>3 DEF Thins
          <6>2. h[g[k]] \in DOMAIN sq /\ SameJob(marked[g[k]], sq[h[g[k]]])
            BY <4>4, <6>1 DEF Thins
          <6> QED BY <6>1, <6>2 DEF SameJob
        <5>2. ASSUME NEW k \in DOMAIN sq', NEW l \in DOMAIN sq', k < l
              PROVE  h[g[k]] < h[g[l]]
          BY <4>3, <4>4, <5>2 DEF Thins
        <5> QED BY <5>1, <5>2 DEF Thins
      <4>6. ASSUME NEW k \in DOMAIN sq' PROVE sq'[k].id # theId
        <5>1. PICK i \in DOMAIN marked : ~marked[i].del /\ sq'[k] = [marked[i] EXCEPT !.new = FALSE]
          BY <2>2, <4>1, CleanupThins
        <5> DEFINE x == marked[i]
        <5>2. x \in Record /\ sq'[k] = [x EXCEPT !.new = FALSE]
          BY <2>2, <5>1
        <5> HIDE DEF x
        <5>3. sq'[k].id = x.id
          BY <5>2 DEF Record
        <5> QED BY <2>2, <3>2, <3>3, <5>1, <5>3 DEF x
      <4>7. \E f : Thins(f, sq', sq)
        BY <4>5
      <4> QED BY <1>2, <1>3, <2>4, <4>1, <4>2, <4>6, <4>7 DEF theId, marked
    <3>5. CASE ~dirty
      <4>1. sq' = sq /\ marked = sq
        BY <3>1, <3>5
      <4>2. ASSUME NEW i \in DOMAIN sq PROVE sq[i].id # theId
        BY <1>1, <2>4, <3>2, <4>1 DEF AllEligible, Eligible
      <4> QED BY <1>1, <1>2, <1>3, <1>4, <2>4, <4>1, <4>2 DEF theId
    <3> QED BY <3>4, <3>5
  <2> QED BY <1>1, <2>3, <2>4
<1> QED BY <1>5, <1>6
-----------------------------------------------------------------------------
(* With any nesting of Wait: how often records are started, and the effect  *)
(* of Deschedule                                                            *)

JInv == IInv /\ StartsCounted(sq, stack) /\ Sticks(sq, cancelled)

LEMMA JInvInit == Init => JInv
<1> SUFFICES ASSUME Init PROVE JInv
  OBVIOUS
<1>1. IInv /\ sq = <<>>
  BY InitHolds DEF Init
<1>2. DOMAIN sq = {}
  BY <1>1
<1> QED BY <1>1, <1>2 DEF JInv, StartsCounted, Sticks

(* The queue with the record of the ended job marked, and its successor,    *)
(* as the stack below the ended job counts them                             *)
LEMMA DoneCounted ==
  ASSUME JInv, JobReturn, NEW uid, NEW e, DoneFrom(e, uid)
  PROVE  /\ StartsCounted(EndsAs(sq, Top.rec, uid), Tail(stack))
         /\ Sticks(EndsAs(sq, Top.rec, uid), cancelled)
<1> DEFINE i == PosOf(sq, Top.rec)
           done == EndsAs(sq, Top.rec, uid)
           r == Successor(sq[i], uid)
           rest == Tail(stack)
<1>1. /\ sq \in Seq(Record) /\ Distinct(sq) /\ IInv
      /\ StartsCounted(sq, stack) /\ Sticks(sq, cancelled)
  BY DEF JInv, IInv, Consistent
<1>2. /\ stack \in Seq(Frame) /\ rest \in Seq(Frame) /\ stack = <<Top>> \o rest
      /\ Top \in Frame /\ Top.at = "job" /\ HeldIn(rest) \subseteq Used(sq)
  BY <1>1, JobReturnStep
<1>3. /\ i \in DOMAIN sq /\ sq[i].uid = Top.rec
      /\ e \in Seq(Record) /\ Used(e) = Used(sq) /\ DOMAIN e = DOMAIN sq
      /\ \A j \in DOMAIN e : ~e[j].del => j # i
      /\ \A j \in DOMAIN e : j # i => e[j] = sq[j]
      /\ \/ done = e
         \/ /\ uid \notin Used(sq) /\ r \in Record /\ r.uid = uid /\ r.id = sq[i].id
            /\ r.starts = 0 /\ done = AddInside(e, r)
  BY DEF DoneFrom
<1> HIDE DEF i, done, r, rest
<1>4. StartsCounted(e, rest)
  <2> SUFFICES ASSUME NEW j \in DOMAIN e, ~e[j].del PROVE e[j].starts = RunsOf(rest, e[j].uid)
    BY DEF StartsCounted
  <2>1. j # i /\ e[j] = sq[j] /\ j \in DOMAIN sq
    BY <1>3
  <2>2. sq[j].starts = RunsOf(stack, sq[j].uid)
    BY <1>1, <2>1 DEF StartsCounted
  <2>3. sq[j].uid # Top.rec
    BY <1>1, <1>3, <2>1 DEF Distinct
  <2>4. RunsOf(stack, sq[j].uid) = RunsOf(rest, sq[j].uid)
    <3>1. PICK s \in Seq(Frame), f \in Frame : s = rest /\ f = Top /\ stack = <<f>> \o s
      BY <1>2
    <3>2. RunsOf(<<f>> \o s, sq[j].uid) =
            RunsOf(s, sq[j].uid) + (IF f.at = "job" /\ f.rec = sq[j].uid THEN 1 ELSE 0)
      BY PushRuns
    <3>3. RunsOf(s, sq[j].uid) \in Nat
      BY RunsType
    <3> QED BY <2>3, <3>1, <3>2, <3>3
  <2> QED BY <2>1, <2>2, <2>4
<1>5. Sticks(e, cancelled)
  <2>1. PICK g : Thins(g, e, sq)
    BY DEF DoneFrom
  <2> QED BY <1>1, <1>3, <2>1, ThinKeepsJobs
<1>6. CASE done = e
  BY <1>4, <1>5, <1>6 DEF done, rest
<1>7. CASE /\ uid \notin Used(sq) /\ r \in Record /\ r.uid = uid /\ r.id = sq[i].id
           /\ r.starts = 0 /\ done = AddInside(e, r)
  <2>1. r.uid \notin Used(e)
    BY <1>3, <1>7
  <2>2. r.starts = RunsOf(rest, r.uid)
    BY <1>2, <1>7, RunsType
  <2>3. r.id \in DOMAIN cancelled => cancelled[r.id] # "idle"
    BY <1>1, <1>3, <1>7 DEF Sticks
  <2>4. StartsCounted(AddInside(e, r), rest) /\ Sticks(AddInside(e, r), cancelled)
    BY <1>3, <1>4, <1>5, <1>7, <2>1, <2>2, <2>3, AddInsideJobs
  <2> QED BY <1>7, <2>4 DEF done, rest
<1> QED BY <1>3, <1>6, <1>7

LEMMA JInvStep == JInv /\ [Next]_vars => JInv'
<1> SUFFICES ASSUME JInv, [Next]_vars PROVE JInv'
  OBVIOUS
<1>1. /\ IInv /\ IInv' /\ StartsCounted(sq, stack) /\ Sticks(sq, cancelled)
      /\ sq \in Seq(Record) /\ Distinct(sq) /\ stack \in Seq(Frame)
      /\ lock_level \in Nat /\ HeldIn(stack) \subseteq Used(sq) /\ clock \in Times
      /\ is_dirty \in BOOLEAN
  BY NextKeeps, TimeTypes DEF JInv, IInv, Consistent, ScalarsOK
<1> SUFFICES StartsCounted(sq', stack') /\ Sticks(sq', cancelled')
  BY <1>1 DEF JInv
<1>2. CASE Quiet
  <2>1. \A u : RunsOf(stack', u) = RunsOf(stack, u)
    BY <1>2 DEF Quiet, SameRuns
  <2> QED BY <1>1, <1>2, <2>1 DEF Quiet, StartsCounted, Sticks
<1>3. ASSUME NEW rest \in Seq(Frame), Executes(rest)
      PROVE  StartsCounted(sq', stack') /\ Sticks(sq', cancelled')
  <2>1. /\ \A u : RunsOf(rest, u) = RunsOf(stack, u)
        /\ OperateFrom(sq, 1, clock, lock_level + 1, is_dirty, rest) /\ cancelled' = cancelled
    BY <1>3 DEF Executes, SameRuns
  <2>2. StartsCounted(sq, rest)
    BY <1>1, <2>1 DEF StartsCounted
  <2>3. StartsCounted(sq', stack') /\ Sticks(sq', cancelled)
    BY <1>1, <2>1, <2>2, OperateFromJobs
  <2> QED BY <2>1, <2>3
<1>4. ASSUME NEW ms \in Delays \cup Periods, NEW period \in {0} \cup Periods,
             NEW id \in Ids \cup {0}, CmdSchedule(ms, period, id)
      PROVE  StartsCounted(sq', stack') /\ Sticks(sq', cancelled')
  <2>1. PICK r : NewRecord(r, ms)
    BY <1>1, <1>4, ScheduleStep
  <2>2. /\ r \in Record /\ r.uid \notin Used(sq) /\ r.starts = 0
        /\ sq' = AddInside(sq, r) /\ stack' = stack
        /\ cancelled' = [i \in DOMAIN cancelled \ {r.id} |-> cancelled[i]]
    BY <2>1 DEF NewRecord
  <2>3. r.starts = RunsOf(stack, r.uid)
    BY <1>1, <2>2, RunsType
  <2>4. Sticks(sq, cancelled') /\ r.id \notin DOMAIN cancelled'
    BY <1>1, <2>2 DEF Sticks
  <2>5. StartsCounted(AddInside(sq, r), stack)
    BY <1>1, <2>2, <2>3, AddInsideJobs
  <2>6. PICK c : c = cancelled'
    OBVIOUS
  <2>7. Sticks(AddInside(sq, r), c)
    BY <1>1, <2>2, <2>4, <2>6, AddInsideJobs
  <2> QED BY <2>2, <2>5, <2>6, <2>7
<1>5. ASSUME NEW id \in Ids \cup {0}, CmdDeschedule(id)
      PROVE  StartsCounted(sq', stack') /\ Sticks(sq', cancelled')
  <2> DEFINE theId == IF id = 0 THEN last_schedule_id ELSE id
  <2>1. /\ sq' \in Seq(Record) /\ \E g : Thins(g, sq', sq)
        /\ lock_level = 0 => \A i \in DOMAIN sq' : sq'[i].id # theId
        /\ cancelled' = [i \in DOMAIN cancelled \cup {theId} |->
                           IF i # theId THEN cancelled[i]
                           ELSE IF lock_level = 0 THEN "idle" ELSE "busy"]
        /\ stack' = stack
    BY <1>1, <1>5, DescheduleStep
  <2> HIDE DEF theId
  <2>2. PICK g : Thins(g, sq', sq)
    BY <2>1
  <2>3. StartsCounted(sq', stack) /\ Sticks(sq', cancelled)
    BY <1>1, <2>1, <2>2, ThinKeepsJobs
  <2>4. Sticks(sq', cancelled')
    <3> SUFFICES ASSUME NEW i \in DOMAIN sq', sq'[i].id \in DOMAIN cancelled'
                 PROVE  cancelled'[sq'[i].id] # "idle"
      BY DEF Sticks
    <3>1. CASE sq'[i].id # theId
      BY <2>1, <2>3, <3>1 DEF Sticks
    <3>2. CASE sq'[i].id = theId
      <4>1. lock_level # 0
        BY <2>1, <3>2
      <4> QED BY <2>1, <3>2, <4>1
    <3> QED BY <3>1, <3>2
  <2> QED BY <2>1, <2>3, <2>4
<1>6. CASE JobReturn
  <2>1. /\ Top.ctime \in Times /\ Tail(stack) \in Seq(Frame) /\ cancelled' = cancelled
    BY <1>1, <1>6, JobReturnStep
  <2>2. PICK uid : /\ Continues(uid)
                   /\ sq[PosOf(sq, Top.rec)].period > 0 => uid \in FreshUids
    BY <1>1, <1>6, JobReturnStep
  <2>3. PICK e : DoneFrom(e, uid)
    BY <1>1, <1>6, <2>2, DoneQueue
  <2> DEFINE done == EndsAs(sq, Top.rec, uid)
  <2>4. StartsCounted(done, Tail(stack)) /\ Sticks(done, cancelled)
    BY <1>6, <2>3, DoneCounted
  <2>5. /\ done \in Seq(Record) /\ Distinct(done) /\ PosOf(done, Top.rec) + 1 \in Nat \ {0}
    BY <2>3 DEF DoneFrom
  <2>6. OperateFrom(done, PosOf(done, Top.rec) + 1, Top.ctime, lock_level, TRUE, Tail(stack))
    BY <2>2 DEF Continues
  <2> HIDE DEF done
  <2>7. StartsCounted(sq', stack') /\ Sticks(sq', cancelled)
    BY <2>1, <2>4, <2>5, <2>6, OperateFromJobs
  <2> QED BY <2>1, <2>7
<1> QED BY <1>1, <1>2, <1>3, <1>4, <1>5, <1>6, Steps

LEMMA JInvariance == Spec => []JInv
<1> QED BY JInvInit, JInvStep, PTL DEF Spec

(* A job that has finished is never started again, even by nested calls of  *)
(* squeue_execute (Wait): fqueue_operate marks its record, and only         *)
(* records without a mark are executed.                                     *)
THEOREM FinishedForGood == Spec => []FinishedStaysFinished
<1>1. JInv => FinishedStaysFinished
  BY DEF JInv, StartsCounted, RunsOf, FinishedStaysFinished, JobFrames
<1> QED BY <1>1, JInvariance, PTL

(* When Deschedule is executed while no job runs, no record of the group    *)
(* stays or comes back until the next Schedule with its id, with any        *)
(* nesting of Wait.                                                         *)
THEOREM DescheduleIsFinal == Spec => []IdleDescheduleSticks
<1>1. JInv => IdleDescheduleSticks
  BY DEF JInv, Sticks, IdleDescheduleSticks
<1> QED BY <1>1, JInvariance, PTL
-----------------------------------------------------------------------------
(* Sequences of one and two *)

LEMMA TailOfTwo ==
  ASSUME NEW S, NEW s \in Seq(S), Len(s) = 2
  PROVE  Tail(s) \in Seq(S) /\ Len(Tail(s)) = 1 /\ Tail(s)[1] = s[2]
<1>1. s # <<>> /\ 1 + 1 = 2 /\ 2 - 1 = 1 /\ 1 \in 1 .. 1
  OBVIOUS
<1>2. /\ Tail(s) \in Seq(S) /\ Len(Tail(s)) = Len(s) - 1
      /\ \A i \in 1 .. Len(Tail(s)) : Tail(s)[i] = s[i + 1]
  BY <1>1, HeadTailProperties
<1>3. Len(Tail(s)) = 1
  BY <1>1, <1>2
<1> QED BY <1>1, <1>2, <1>3

LEMMA PushOnOne ==
  ASSUME NEW S, NEW s \in Seq(S), NEW f, Len(s) = 1
  PROVE  LET t == <<f>> \o s IN Len(t) = 2 /\ t[1] = f /\ t[2] = s[1]
<1>1. <<f>> \in Seq({f} \cup S) /\ s \in Seq({f} \cup S) /\ Len(<<f>>) = 1 /\ <<f>>[1] = f
  <2>1. \A i \in 1 .. Len(s) : s[i] \in {f} \cup S
    OBVIOUS
  <2>2. s = [i \in 1 .. Len(s) |-> s[i]] /\ Len(s) \in Nat
    OBVIOUS
  <2>3. s \in Seq({f} \cup S)
    BY <2>1, <2>2, IsASeq
  <2> QED BY <2>3
<1> QED BY <1>1

-----------------------------------------------------------------------------
(* Without Wait the stack is the main loop and at most one command or job,  *)
(* which is never called from within select.                                *)

Flat(s) ==
  Len(s) = 1 \/ (Len(s) = 2 /\ s[1].at \in {"cmd", "job"} /\ s[2].at # "select")

LEMMA FlatFacts ==
  ASSUME IInv, Flat(stack)
  PROVE  /\ Top.at # "job" => /\ HeldIn(stack) = {} /\ JobsIn(stack) = {}
                              /\ lock_level = 0 /\ AllEligible(sq)
         /\ Top.at \in {"cmd", "job"} =>
              /\ Tail(stack) \in Seq(Frame) /\ Len(Tail(stack)) = 1 /\ Flat(Tail(stack))
              /\ HeldIn(Tail(stack)) = {} /\ Tail(stack)[1].at # "select"
         /\ Top.at = "job" => /\ HeldIn(stack) = {Top.rec} /\ JobsIn(stack) = {1}
                              /\ lock_level = 1
         /\ Top.at \in LoopPoints => Len(stack) = 1 /\ Top.at # "woken" /\ Waits = 0
<1>1. /\ stack \in Seq(Frame) /\ MainLoop(stack) /\ stack # <<>>
      /\ lock_level = Cardinality(JobsIn(stack))
      /\ lock_level = 0 => AllEligible(sq)
      /\ Len(stack) \in Nat /\ DOMAIN stack = 1 .. Len(stack)
  BY DEF IInv, Consistent, MainLoop
<1>2. \A i \in DOMAIN stack : i # 1 => i = Len(stack) /\ stack[i].at \in LoopPoints \ {"woken"}
  BY <1>1 DEF Flat, MainLoop
<1>3. \A i \in JobsIn(stack) : i = 1
  BY <1>2 DEF JobsIn, LoopPoints
<1>4. 1 \in DOMAIN stack
  BY <1>1 DEF Flat
<1>5. Top.at # "job" => HeldIn(stack) = {} /\ JobsIn(stack) = {} /\ lock_level = 0 /\ AllEligible(sq)
  <2> SUFFICES ASSUME Top.at # "job"
               PROVE  HeldIn(stack) = {} /\ JobsIn(stack) = {} /\ lock_level = 0 /\ AllEligible(sq)
    OBVIOUS
  <2>1. JobsIn(stack) = {}
    BY <1>3 DEF JobsIn, Top
  <2>2. lock_level = 0 /\ HeldIn(stack) = {}
    BY <1>1, <2>1, FS_EmptySet DEF HeldIn
  <2> QED BY <1>1, <2>1, <2>2
<1>6. Top.at = "job" => HeldIn(stack) = {Top.rec} /\ JobsIn(stack) = {1} /\ lock_level = 1
  <2> SUFFICES ASSUME Top.at = "job"
               PROVE  HeldIn(stack) = {Top.rec} /\ JobsIn(stack) = {1} /\ lock_level = 1
    OBVIOUS
  <2>1. JobsIn(stack) = {1}
    BY <1>3, <1>4 DEF JobsIn, Top
  <2>2. Cardinality({1}) = 1
    BY FS_Singleton
  <2>3. HeldIn(stack) = {Top.rec}
    <3>1. HeldIn(stack) = {stack[f].rec : f \in {1}}
      BY <2>1 DEF HeldIn
    <3> QED BY <3>1 DEF Top
  <2> QED BY <1>1, <2>1, <2>2, <2>3
<1>7. ASSUME Top.at \in {"cmd", "job"}
      PROVE  /\ Tail(stack) \in Seq(Frame) /\ Len(Tail(stack)) = 1 /\ Flat(Tail(stack))
             /\ HeldIn(Tail(stack)) = {} /\ Tail(stack)[1].at # "select"
  <2>1. Len(stack) = 2 /\ stack[2].at # "select"
    <3>1. ASSUME Len(stack) = 1 PROVE FALSE
      BY <1>1, <1>7, <3>1 DEF MainLoop, Top, LoopPoints
    <3> QED BY <3>1 DEF Flat
  <2>2. Tail(stack) \in Seq(Frame) /\ Len(Tail(stack)) = 1 /\ Tail(stack)[1] = stack[2]
    BY <1>1, <2>1, TailOfTwo
  <2>3. stack[2].at # "job"
    BY <1>1, <1>2, <2>1 DEF LoopPoints
  <2>4. JobsIn(Tail(stack)) = {}
    <3>0. \A s \in Seq(Frame) : DOMAIN s = 1 .. Len(s)
      OBVIOUS
    <3>1. DOMAIN Tail(stack) = 1 .. 1
      BY <2>2, <3>0
    <3>2. \A i \in 1 .. 1 : i = 1
      OBVIOUS
    <3> QED BY <2>2, <2>3, <3>1, <3>2 DEF JobsIn
  <2> QED BY <2>1, <2>2, <2>4 DEF Flat, HeldIn
<1>8. ASSUME Top.at \in LoopPoints
      PROVE  Len(stack) = 1 /\ Top.at # "woken" /\ Waits = 0
  <2>1. Len(stack) = 1
    BY <1>8 DEF Flat, Top, LoopPoints
  <2>2. Top.at # "woken"
    BY <1>1, <2>1 DEF MainLoop, Top
  <2>3. {i \in DOMAIN stack : stack[i].at \in LoopPoints} = {1}
    BY <1>1, <1>8, <2>1 DEF Top
  <2>4. Cardinality({1}) = 1
    BY FS_Singleton
  <2> QED BY <2>1, <2>2, <2>3, <2>4 DEF Waits
<1> QED BY <1>5, <1>6, <1>7, <1>8

LEMMA FlatGoto ==
  ASSUME IInv, Flat(stack), Top.at \in LoopPoints, NEW pc \in LoopPoints, NEW ms \in Int
  PROVE  /\ Goto(pc, ms) = <<Loop(pc, ms)>> /\ Flat(Goto(pc, ms))
         /\ <<Cmd>> \o Goto(pc, ms) = <<Cmd, Loop(pc, ms)>>
         /\ pc # "select" => Flat(<<Cmd>> \o Goto(pc, ms))
<1>1. stack \in Seq(Frame) /\ Len(stack) = 1
  BY FlatFacts DEF IInv, Consistent
<1> DEFINE f == Loop(pc, ms)
<1>2. Goto(pc, ms) = [stack EXCEPT ![1] = f]
  BY DEF Goto
<1> HIDE DEF f
<1>3. [stack EXCEPT ![1] = f] = <<f>>
  BY <1>1
<1>4. <<Cmd>> \o <<f>> = <<Cmd, f>>
  <2>0. IInv /\ Loop(pc, ms) \in Frame /\ Cmd \in Frame
    BY FrameTypes
  <2>1. \A a \in Frame, b \in Frame : <<a>> \o <<b>> = <<a, b>>
    <3> TAKE a \in Frame, b \in Frame
    <3>1. <<a>> \in Seq(Frame) /\ <<b>> \in Seq(Frame) /\ Len(<<a>>) = 1 /\ Len(<<b>>) = 1
      OBVIOUS
    <3>2. <<a>> \o <<b>> \in Seq(Frame) /\ Len(<<a>> \o <<b>>) = 2
      BY <3>1
    <3>3. (<<a>> \o <<b>>)[1] = a /\ (<<a>> \o <<b>>)[2] = b
      BY <3>1
    <3> DEFINE t == <<a>> \o <<b>>
    <3>4. t \in Seq(Frame) /\ Len(t) = 2 /\ t[1] = a /\ t[2] = b
      BY <3>2, <3>3
    <3> HIDE DEF t
    <3>5. t = <<a, b>>
      BY <3>4
    <3> QED BY <3>5 DEF t
  <2> QED BY <2>0, <2>1 DEF f
<1>5. Flat(<<f>>)
  BY DEF Flat
<1>6. pc # "select" => Flat(<<Cmd, f>>)
  <2>1. Cmd.at = "cmd" /\ f.at = pc
    BY DEF Cmd, f, Loop
  <2> QED BY <2>1 DEF Flat
<1> QED BY <1>2, <1>3, <1>4, <1>5, <1>6 DEF f

(* The calling frames of squeue_execute are one loop. *)
LEMMA FlatExecute ==
  ASSUME NEW q, NEW from, NEW ct, NEW lock, NEW dirty,
         NEW rest \in Seq(Frame), Len(rest) = 1, rest[1].at # "select",
         OperateFrom(q, from, ct, lock, dirty, rest)
  PROVE  Flat(stack')
<1>1. CASE stack' = rest
  BY <1>1 DEF Flat
<1>2. ASSUME NEW i, stack' = <<Job(q[i], ct)>> \o rest PROVE Flat(stack')
  <2>1. Job(q[i], ct).at = "job"
    BY DEF Job
  <2> DEFINE f == Job(q[i], ct)
  <2>2. f.at = "job" /\ stack' = <<f>> \o rest
    BY <1>2, <2>1
  <2> HIDE DEF f
  <2>3. Len(stack') = 2 /\ stack'[1] = f /\ stack'[2] = rest[1]
    BY <2>2, PushOnOne
  <2> QED BY <2>2, <2>3 DEF Flat
<1> QED BY <1>1, <1>2 DEF OperateFrom

LEMMA FlatStep ==
  ASSUME MaxWaits = 0, IInv, Flat(stack), [Next]_vars
  PROVE  Flat(stack')
<1>1. GetNextMs(sq, evtime) \in Int
  BY GetNextMsType, TimeTypes DEF IInv, Consistent, ScalarsOK
<1>2. {"begin", "again", "select", "woken"} = LoopPoints /\ -1 \in Int
  BY DEF LoopPoints
<1>3. ASSUME NEW pc \in LoopPoints, pc # "select", Top.at \in LoopPoints, SqueueExecute(Goto(pc, -1))
      PROVE  Flat(stack')
  <2>1. Goto(pc, -1) \in Seq(Frame) /\ Len(Goto(pc, -1)) = 1 /\ Goto(pc, -1)[1].at = pc
    <3>1. Goto(pc, -1) = <<Loop(pc, -1)>>
      BY <1>2, <1>3, FlatGoto
    <3>2. Loop(pc, -1) \in Frame /\ Loop(pc, -1).at = pc
      BY <1>2, FrameTypes DEF Loop
    <3>3. \A f \in Frame : <<f>> \in Seq(Frame) /\ Len(<<f>>) = 1 /\ <<f>>[1] = f
      OBVIOUS
    <3> QED BY <3>1, <3>2, <3>3
  <2> DEFINE rest == Goto(pc, -1)
  <2> HIDE DEF rest
  <2>2. stack' = rest \/ OperateFrom(sq, 1, clock, lock_level + 1, is_dirty, rest)
    BY <1>3 DEF SqueueExecute, rest
  <2>3. CASE stack' = rest
    BY <2>1, <2>3 DEF Flat, rest
  <2>4. CASE OperateFrom(sq, 1, clock, lock_level + 1, is_dirty, rest)
    BY <1>3, <2>1, <2>4, FlatExecute DEF rest
  <2> QED BY <2>2, <2>3, <2>4
<1>4. CASE Tick
  <2>1. CASE Top.at = "select" /\ Top.ms > 0
    <3>1. Top.ms - 1 \in Int
      <4>1. Top \in Frame
        BY TopAndRest DEF Top, IInv, Consistent, MainLoop
      <4> QED BY <4>1 DEF Frame
    <3> QED BY <1>2, <1>4, <2>1, <3>1, FlatGoto DEF Tick
  <2> QED BY <1>4, <2>1 DEF Tick
<1>5. CASE LoopEvent
  BY <1>2, <1>5, FlatGoto, ZenonT(60) DEF LoopEvent
<1>6. CASE LoopIdle
  <2>1. CASE GetNextMs(sq, evtime) = 0
    BY <1>2, <1>3, <1>6, <2>1 DEF LoopIdle
  <2>2. CASE GetNextMs(sq, evtime) # 0
    BY <1>1, <1>2, <1>6, <2>2, FlatGoto DEF LoopIdle
  <2> QED BY <2>1, <2>2
<1>7. CASE LoopAgain
  <2>1. PICK ms \in Int : stack' = Goto("select", ms)
    BY <1>1, <1>7 DEF LoopAgain
  <2> QED BY <1>2, <1>7, <2>1, FlatGoto DEF LoopAgain
<1>8. CASE LoopTimeout
  BY <1>2, <1>3, <1>8 DEF LoopTimeout
<1>9. CASE LoopInput
  BY <1>2, <1>9, FlatGoto DEF LoopInput
<1>10. CASE WaitDone
  BY <1>2, <1>10, FlatFacts DEF WaitDone
<1>11. CASE CmdReturn
  BY <1>11, FlatFacts DEF CmdReturn
<1>12. CASE CmdWait
  <2>1. \E i \in DOMAIN stack : stack[i].at \in LoopPoints
    <3>1. stack \in Seq(Frame) /\ MainLoop(stack)
      BY DEF IInv, Consistent
    <3>2. Len(stack) \in DOMAIN stack
      BY <3>1 DEF MainLoop
    <3> QED BY <3>1, <3>2 DEF MainLoop
  <2> DEFINE W == {i \in DOMAIN stack : stack[i].at \in LoopPoints}
  <2>2. IsFiniteSet(W) /\ W # {}
    <3>1. IsFiniteSet(1 .. Len(stack)) /\ DOMAIN stack = 1 .. Len(stack)
      BY FS_Interval DEF IInv, Consistent
    <3>2. W \in SUBSET (1 .. Len(stack))
      BY <3>1
    <3> HIDE DEF W
    <3>3. IsFiniteSet(W)
      BY <3>1, <3>2, FS_Subset
    <3> QED BY <2>1, <3>3 DEF W
  <2> HIDE DEF W
  <2>3. Cardinality(W) \in Nat /\ Cardinality(W) # 0
    BY <2>2, FS_CardinalityType, FS_EmptySet
  <2>4. ~(Waits < 0)
    BY <2>3 DEF Waits, W
  <2> QED BY <1>12, <2>4 DEF CmdWait
<1>13. CASE JobReturn
  <2>1. Tail(stack) \in Seq(Frame) /\ Len(Tail(stack)) = 1 /\ Tail(stack)[1].at # "select"
    BY <1>13, FlatFacts, JobReturnStep
  <2>2. PICK uid : Continues(uid)
    BY <1>13, JobReturnStep
  <2>3. OperateFrom(EndsAs(sq, Top.rec, uid), PosOf(EndsAs(sq, Top.rec, uid), Top.rec) + 1,
                    Top.ctime, lock_level, TRUE, Tail(stack))
    BY <2>2 DEF Continues
  <2> DEFINE done == EndsAs(sq, Top.rec, uid)
             from == PosOf(done, Top.rec) + 1
  <2>4. OperateFrom(done, from, Top.ctime, lock_level, TRUE, Tail(stack))
    BY <2>3
  <2> HIDE DEF done, from
  <2> QED BY <2>1, <2>4, FlatExecute
<1>14. ASSUME NEW ms, NEW period, NEW id, CmdSchedule(ms, period, id) PROVE Flat(stack')
  BY <1>14 DEF CmdSchedule
<1>15. ASSUME NEW id, CmdDeschedule(id) PROVE Flat(stack')
  BY <1>15 DEF CmdDeschedule
<1>16. CASE UNCHANGED vars
  BY <1>16 DEF vars
<1> QED BY <1>4, <1>5, <1>6, <1>7, <1>8, <1>9, <1>10, <1>11, <1>12, <1>13, <1>14, <1>15, <1>16
        DEF Next, Loops, Commands
-----------------------------------------------------------------------------
(* Without Wait: each line of Schedule has one record to be run             *)

(* A job that runs still has its command, for its successor to take over. *)
RunsWithCommand(q, H) == \A i \in DOMAIN q : q[i].uid \in H => q[i].cmd

KInv == /\ JInv /\ Flat(stack)
        /\ Single(sq, HeldIn(stack)) /\ RunsWithCommand(sq, HeldIn(stack))

LEMMA KInvInit == Init => KInv
<1> SUFFICES ASSUME Init PROVE KInv
  OBVIOUS
<1>1. JInv /\ sq = <<>> /\ stack = <<Loop("begin", -1)>>
  BY JInvInit DEF Init
<1>2. DOMAIN sq = {}
  BY <1>1
<1> DEFINE f == Loop("begin", -1)
<1>3. stack = <<f>>
  BY <1>1
<1> HIDE DEF f
<1>4. Len(stack) = 1
  BY <1>3
<1> QED BY <1>1, <1>2, <1>4
        DEF KInv, Flat, Single, OnePerLine, WithCommand, RunsAlone, RunsWithCommand

(* When no record is held below, the record that is started has a command.  *)
LEMMA OperateFromCommand ==
  ASSUME NEW q \in Seq(Record), Distinct(q), WithCommand(q), NEW from \in Nat \ {0},
         NEW ct \in Times, NEW lock, NEW dirty, NEW rest \in Seq(Frame), HeldIn(rest) = {},
         OperateFrom(q, from, ct, lock, dirty, rest)
  PROVE  RunsWithCommand(sq', HeldIn(stack'))
<1> DEFINE i == Scan(q, from, ct)
<1>1. CASE i # 0
  <2>1. i \in DOMAIN q /\ ~q[i].del /\ q[i] \in Record
    BY <1>1, ScanFinds DEF Due, Eligible
  <2>2. sq' = Started(q, i) /\ stack' = <<Job(q[i], ct)>> \o rest
    BY <1>1 DEF OperateFrom, Started
  <2> DEFINE f == Job(q[i], ct)
  <2>3. f \in Frame /\ f.at = "job" /\ f.rec = q[i].uid /\ stack' = <<f>> \o rest
    BY <2>1, <2>2, FrameTypes
  <2> HIDE DEF f, i
  <2>4. HeldIn(stack') = {q[i].uid}
    BY <2>3, PushFrame
  <2>5. DOMAIN sq' = DOMAIN q /\ \A j \in DOMAIN q : j # i => sq'[j] = q[j]
    BY <2>1, <2>2 DEF Started
  <2>6. sq'[i].uid = q[i].uid /\ sq'[i].cmd = q[i].cmd
    <3> DEFINE r == q[i]
    <3>1. r \in Record /\ sq'[i] = [r EXCEPT !.starts = @ + 1]
      BY <2>1, <2>2 DEF Started
    <3> HIDE DEF r
    <3>2. sq'[i].uid = r.uid /\ sq'[i].cmd = r.cmd
      BY ONLY <3>1 DEF Record
    <3> QED BY <3>2 DEF r
  <2> QED BY <2>1, <2>4, <2>5, <2>6 DEF RunsWithCommand, WithCommand, Distinct
<1>2. CASE i = 0
  <2>1. stack' = rest
    BY <1>2 DEF OperateFrom
  <2> QED BY <2>1 DEF RunsWithCommand
<1> QED BY <1>1, <1>2

LEMMA OperateFromSingle ==
  ASSUME NEW q \in Seq(Record), Distinct(q), NEW from \in Nat \ {0},
         NEW ct \in Times, NEW lock, NEW dirty, NEW rest \in Seq(Frame), HeldIn(rest) = {},
         OperateFrom(q, from, ct, lock, dirty, rest), Single(q, {})
  PROVE  Single(sq', HeldIn(stack')) /\ RunsWithCommand(sq', HeldIn(stack'))
<1>1. Single(q, HeldIn(rest)) => Single(sq', HeldIn(stack'))
  BY OperateFromJobs, Zenon
<1>2. RunsWithCommand(sq', HeldIn(stack'))
  BY OperateFromCommand DEF Single
<1> QED BY <1>1, <1>2

(* The queue that the loop goes on with after a job has one record per line. *)
LEMMA DoneSingle ==
  ASSUME KInv, JobReturn, NEW uid, NEW e, DoneFrom(e, uid)
  PROVE  Single(EndsAs(sq, Top.rec, uid), {})
<1>1. /\ IInv /\ Flat(stack)
      /\ Single(sq, HeldIn(stack)) /\ RunsWithCommand(sq, HeldIn(stack))
      /\ sq \in Seq(Record) /\ Distinct(sq)
  BY DEF KInv, JInv, IInv, Consistent
<1>2. Top.at = "job"
  BY <1>1, JobReturnStep
<1> DEFINE done == EndsAs(sq, Top.rec, uid)
           i == PosOf(sq, Top.rec)
           r == Successor(sq[i], uid)
<1>3. HeldIn(Tail(stack)) = {} /\ HeldIn(stack) = {Top.rec}
  BY <1>1, <1>2, FlatFacts
<1>4. /\ i \in DOMAIN sq /\ sq[i].uid = Top.rec
      /\ e \in Seq(Record) /\ Used(e) = Used(sq) /\ DOMAIN e = DOMAIN sq
      /\ \A j \in DOMAIN e : ~e[j].del => j # i
      /\ \A j \in DOMAIN e : j # i => e[j] = sq[j]
      /\ \A j \in DOMAIN e : e[j].line = sq[j].line
      /\ done \in Seq(Record) /\ Distinct(done) /\ PosOf(done, Top.rec) + 1 \in Nat \ {0}
      /\ \/ done = e
         \/ /\ uid \notin Used(sq) /\ r \in Record /\ r.uid = uid /\ r.line = sq[i].line
            /\ r.cmd = sq[i].cmd /\ done = AddInside(e, r)
  BY DEF DoneFrom
<1>5. PICK g : Thins(g, e, sq)
  BY DEF DoneFrom
<1> HIDE DEF done, r, i
<1>6. Single(e, HeldIn(stack))
  BY <1>1, <1>4, <1>5, ThinKeepsJobs
<1>7. Single(e, {})
  BY <1>6 DEF Single, RunsAlone
<1>8. Single(done, {})
  <2>1. CASE done = e
    BY <1>7, <2>1
  <2>2. CASE /\ uid \notin Used(sq) /\ r \in Record /\ r.uid = uid /\ r.line = sq[i].line
             /\ r.cmd = sq[i].cmd /\ done = AddInside(e, r)
    <3>1. r.cmd
      BY <1>1, <1>3, <1>4, <2>2 DEF RunsWithCommand
    <3>2. ASSUME NEW j \in DOMAIN e, e[j].line = r.line PROVE e[j].del
      <4>1. sq[j].line = sq[i].line /\ j \in DOMAIN sq
        BY <1>4, <2>2, <3>2
      <4>2. CASE j = i
        BY <1>4, <4>2
      <4>3. CASE j # i
        <5>1. sq[j].del
          BY <1>1, <1>3, <1>4, <4>1, <4>3 DEF Single, RunsAlone
        <5> QED BY <1>4, <4>3, <5>1
      <4> QED BY <4>2, <4>3
    <3>3. Apart(e, r, {})
      BY <3>1, <3>2 DEF Apart
    <3>4. r.uid \notin Used(e)
      BY <1>4, <2>2
    <3>5. PICK H : H = {}
      OBVIOUS
    <3>6. Single(AddInside(e, r), H)
      BY <1>4, <1>7, <2>2, <3>3, <3>4, <3>5, AddInsideJobs
    <3> QED BY <2>2, <3>5, <3>6
  <2> QED BY <1>4, <2>1, <2>2
<1> QED BY <1>8 DEF done

LEMMA KInvStep ==
  ASSUME MaxWaits = 0
  PROVE  KInv /\ [Next]_vars => KInv'
<1> SUFFICES ASSUME KInv, [Next]_vars PROVE KInv'
  OBVIOUS
<1>1. /\ IInv /\ JInv' /\ Flat(stack) /\ Flat(stack')
      /\ Single(sq, HeldIn(stack)) /\ RunsWithCommand(sq, HeldIn(stack))
      /\ sq \in Seq(Record) /\ Distinct(sq) /\ stack \in Seq(Frame)
      /\ lock_level \in Nat /\ lock_level = Cardinality(JobsIn(stack))
      /\ HeldIn(stack) \subseteq Used(sq) /\ clock \in Times
  BY JInvStep, FlatStep, TimeTypes DEF KInv, JInv, IInv, Consistent, ScalarsOK
<1> SUFFICES Single(sq', HeldIn(stack')) /\ RunsWithCommand(sq', HeldIn(stack'))
  BY <1>1 DEF KInv
<1>2. CASE Quiet
  BY <1>1, <1>2 DEF Quiet, SameRuns
<1>3. ASSUME NEW rest \in Seq(Frame), Executes(rest)
      PROVE  Single(sq', HeldIn(stack')) /\ RunsWithCommand(sq', HeldIn(stack'))
  <2>1. /\ HeldIn(rest) = HeldIn(stack) /\ Top.at # "job"
        /\ OperateFrom(sq, 1, clock, lock_level + 1, is_dirty, rest)
    BY <1>3 DEF Executes, SameRuns
  <2>2. HeldIn(rest) = {} /\ Single(sq, HeldIn(rest)) /\ WithCommand(sq)
    BY <1>1, <2>1, FlatFacts DEF Single
  <2>3. Single(sq, {})
    BY <2>2
  <2> QED BY <1>1, <2>1, <2>2, <2>3, OperateFromSingle
<1>4. ASSUME NEW ms \in Delays \cup Periods, NEW period \in {0} \cup Periods,
             NEW id \in Ids \cup {0}, CmdSchedule(ms, period, id)
      PROVE  Single(sq', HeldIn(stack')) /\ RunsWithCommand(sq', HeldIn(stack'))
  <2>1. PICK r : NewRecord(r, ms)
    BY <1>1, <1>4, ScheduleStep
  <2>2. /\ r \in Record /\ r.uid \notin Used(sq) /\ r.cmd /\ r.line = r.uid
        /\ \A i \in DOMAIN sq : sq[i].line # r.line
        /\ sq' = AddInside(sq, r) /\ stack' = stack
    BY <2>1 DEF NewRecord
  <2>3. Apart(sq, r, HeldIn(stack))
    BY <1>1, <2>2 DEF Apart
  <2>4. Single(sq', HeldIn(stack))
    BY <1>1, <2>2, <2>3, AddInsideJobs
  <2>5. RunsWithCommand(sq', HeldIn(stack))
    <3>1. PICK old : Grows(sq', sq, r, InsertPos(sq, r), old)
      BY <1>1, <2>2, AddInsideGrows
    <3> QED BY <1>1, <2>2, <3>1 DEF Grows, RunsWithCommand
  <2> QED BY <2>2, <2>4, <2>5
<1>5. ASSUME NEW id \in Ids \cup {0}, CmdDeschedule(id)
      PROVE  Single(sq', HeldIn(stack')) /\ RunsWithCommand(sq', HeldIn(stack'))
  <2> DEFINE theId == IF id = 0 THEN last_schedule_id ELSE id
  <2>1. /\ sq' \in Seq(Record) /\ \E g : Thins(g, sq', sq)
        /\ lock_level > 0 => sq' = Marked(sq, theId) \/ (sq = <<>> /\ sq' = sq)
        /\ stack' = stack
    BY <1>1, <1>5, DescheduleStep
  <2> HIDE DEF theId
  <2>2. PICK g : Thins(g, sq', sq)
    BY <2>1
  <2>3. Single(sq', HeldIn(stack))
    BY <1>1, <2>1, <2>2, ThinKeepsJobs
  <2>4. CASE lock_level = 0
    <3>1. HeldIn(stack) = {}
      BY <1>1, <2>4, NoJobsHoldNothing
    <3> QED BY <2>1, <2>3, <3>1 DEF RunsWithCommand
  <2>5. CASE lock_level # 0
    <3>1. sq' = Marked(sq, theId) \/ sq' = sq
      BY <1>1, <2>1, <2>5
    <3>2. CASE sq' = Marked(sq, theId)
      <4>1. DOMAIN sq' = DOMAIN sq
        BY <3>2 DEF Marked
      <4>2. ASSUME NEW i \in DOMAIN sq PROVE sq'[i].uid = sq[i].uid /\ sq'[i].cmd = sq[i].cmd
        <5>1. sq[i] \in Record /\ (sq'[i] = sq[i] \/ sq'[i] = [sq[i] EXCEPT !.del = TRUE])
          BY <1>1, <3>2 DEF Marked
        <5> DEFINE x == sq[i]
        <5>2. x \in Record /\ (sq'[i] = x \/ sq'[i] = [x EXCEPT !.del = TRUE])
          BY <5>1
        <5> HIDE DEF x
        <5>3. sq'[i].uid = x.uid /\ sq'[i].cmd = x.cmd
          BY ONLY <5>2 DEF Record
        <5> QED BY <5>3 DEF x
      <4> QED BY <1>1, <2>1, <2>3, <4>1, <4>2 DEF RunsWithCommand
    <3> QED BY <1>1, <2>1, <2>3, <3>1, <3>2
  <2> QED BY <2>4, <2>5
<1>6. CASE JobReturn
  <2>1. /\ Top.ctime \in Times /\ Tail(stack) \in Seq(Frame) /\ Top.at = "job"
    BY <1>1, <1>6, JobReturnStep
  <2>2. PICK uid : /\ Continues(uid)
                   /\ sq[PosOf(sq, Top.rec)].period > 0 => uid \in FreshUids
    BY <1>1, <1>6, JobReturnStep
  <2>3. PICK e : DoneFrom(e, uid)
    BY <1>1, <1>6, <2>2, DoneQueue
  <2>4. OperateFrom(EndsAs(sq, Top.rec, uid), PosOf(EndsAs(sq, Top.rec, uid), Top.rec) + 1,
                    Top.ctime, lock_level, TRUE, Tail(stack))
    BY <2>2 DEF Continues
  <2>5. Single(EndsAs(sq, Top.rec, uid), {})
    BY <1>6, <2>3, DoneSingle
  <2>6. /\ EndsAs(sq, Top.rec, uid) \in Seq(Record) /\ Distinct(EndsAs(sq, Top.rec, uid))
        /\ PosOf(EndsAs(sq, Top.rec, uid), Top.rec) + 1 \in Nat \ {0}
    BY <2>3 DEF DoneFrom
  <2>7. HeldIn(Tail(stack)) = {}
    BY <1>1, <2>1, FlatFacts
  <2> QED BY <2>1, <2>4, <2>5, <2>6, <2>7, OperateFromSingle
<1>7. JInv
  BY DEF KInv
<1> QED BY <1>1, <1>2, <1>3, <1>4, <1>5, <1>6, Steps

LEMMA KInvariance ==
  ASSUME MaxWaits = 0
  PROVE  Spec => []KInv
<1>1. KInv /\ [Next]_vars => KInv'
  BY KInvStep
<1> QED BY <1>1, KInvInit, PTL DEF Spec

(* As long as no command waits (MaxWaits = 0), no job is lost, doubled,     *)
(* revived or started once too often: putting a periodic job back and       *)
(* freeing its record leave exactly one record for each Schedule command.   *)
THEOREM EachJobKept ==
  ASSUME MaxWaits = 0
  PROVE  Spec => []JobsKept
<1>1. KInv => JobsKept
  <2> SUFFICES ASSUME KInv PROVE JobsKept
    OBVIOUS
  <2>1. StartsCounted(sq, stack) /\ Sticks(sq, cancelled) /\ OnePerLine(sq) /\ WithCommand(sq)
    BY DEF KInv, JInv, Single
  <2>2. FinishedStaysFinished /\ IdleDescheduleSticks
    BY <2>1 DEF StartsCounted, RunsOf, FinishedStaysFinished, JobFrames, Sticks, IdleDescheduleSticks
  <2>3. OneRecordPerJob
    BY <2>1 DEF OneRecordPerJob, OnePerLine, WithCommand
  <2> QED BY <2>2, <2>3 DEF JobsKept
<1> QED BY <1>1, KInvariance, PTL
-----------------------------------------------------------------------------
(* The order of the queue *)

(* unsigned long is so much wider than the server's clock that no time of a *)
(* job comes near half of its range (a CARD32, and delays of type int, in   *)
(* 64 bits).                                                                *)
NoOverflow == \A d \in {0} \cup Delays \cup Periods : 2 * (ClockMod + d) <= TimeMod

LEMMA PlusNear ==
  ASSUME NoOverflow, NEW d \in {0} \cup Delays \cup Periods, NEW t \in 0 .. ClockMod - 1
  PROVE  /\ t \in Nat /\ Plus(t, d) \in Nat /\ 2 * Plus(t, d) < TimeMod
         /\ Plus(t, d) = t + d /\ 2 * t < TimeMod
<1>1. d \in Nat /\ ClockMod \in Nat \ {0} /\ TimeMod \in Nat \ {0}
  BY ScheduleAssumption
<1>2. 2 * (ClockMod + d) <= TimeMod /\ t \in Nat /\ t <= ClockMod - 1
  BY <1>1 DEF NoOverflow
<1>3. t + d \in Nat /\ t + d < TimeMod /\ 2 * (t + d) < TimeMod /\ 2 * t < TimeMod
  BY <1>1, <1>2
<1>4. (t + d) % TimeMod = t + d
  BY <1>1, <1>3, SmallModulo
<1> QED BY <1>2, <1>3, <1>4 DEF Plus

OrderInv == JInv /\ Near(sq) /\ Ordered(sq)

LEMMA OperateFromOrder ==
  ASSUME NEW q \in Seq(Record), Distinct(q), NEW from \in Nat \ {0},
         NEW ct \in Times, NEW lock, NEW dirty, NEW rest \in Seq(Frame),
         OperateFrom(q, from, ct, lock, dirty, rest), Near(q), Ordered(q)
  PROVE  Near(sq') /\ Ordered(sq')
<1>1. /\ Near(q) => Near(sq')
      /\ Ordered(q) => Ordered(sq')
  BY OperateFromJobs, Zenon
<1> QED BY <1>1

LEMMA OrderStep ==
  ASSUME NoOverflow
  PROVE  OrderInv /\ [Next]_vars => OrderInv'
<1> SUFFICES ASSUME OrderInv, [Next]_vars PROVE OrderInv'
  OBVIOUS
<1>1. /\ JInv' /\ IInv /\ Near(sq) /\ Ordered(sq) /\ sq \in Seq(Record) /\ Distinct(sq)
      /\ clock \in Times /\ evtime \in 0 .. ClockMod - 1
  BY JInvStep, TimeTypes DEF OrderInv, JInv, IInv, Consistent, ScalarsOK
<1> SUFFICES Near(sq') /\ Ordered(sq')
  BY <1>1 DEF OrderInv
<1>2. CASE Quiet
  BY <1>1, <1>2 DEF Quiet
<1>3. ASSUME NEW rest \in Seq(Frame), Executes(rest)
      PROVE  Near(sq') /\ Ordered(sq')
  BY <1>1, <1>3, OperateFromOrder DEF Executes
<1>4. ASSUME NEW ms \in Delays \cup Periods, NEW period \in {0} \cup Periods,
             NEW id \in Ids \cup {0}, CmdSchedule(ms, period, id)
      PROVE  Near(sq') /\ Ordered(sq')
  <2>1. PICK r : NewRecord(r, ms)
    BY <1>1, <1>4, ScheduleStep
  <2>2. r \in Record /\ 2 * r.time < TimeMod /\ sq' = AddInside(sq, r)
    BY <1>1, <2>1, PlusNear DEF NewRecord
  <2> QED BY <1>1, <2>2, AddInsideOrder
<1>5. ASSUME NEW id \in Ids \cup {0}, CmdDeschedule(id)
      PROVE  Near(sq') /\ Ordered(sq')
  <2>1. sq' \in Seq(Record) /\ \E g : Thins(g, sq', sq)
    BY <1>1, <1>5, DescheduleStep
  <2>2. PICK g : Thins(g, sq', sq)
    BY <2>1
  <2> QED BY <1>1, <2>1, <2>2, ThinKeepsOrder
<1>6. CASE JobReturn
  <2>1. Top.ctime \in Times /\ Tail(stack) \in Seq(Frame)
    BY <1>1, <1>6, JobReturnStep
  <2>2. PICK uid : /\ Continues(uid)
                   /\ sq[PosOf(sq, Top.rec)].period > 0 => uid \in FreshUids
    BY <1>1, <1>6, JobReturnStep
  <2>3. PICK e : DoneFrom(e, uid)
    BY <1>1, <1>6, <2>2, DoneQueue
  <2> DEFINE done == EndsAs(sq, Top.rec, uid)
             i == PosOf(sq, Top.rec)
             r == Successor(sq[i], uid)
  <2>4. /\ i \in DOMAIN sq /\ sq[i] \in Record
        /\ e \in Seq(Record) /\ \E g : Thins(g, e, sq)
        /\ done \in Seq(Record) /\ Distinct(done) /\ PosOf(done, Top.rec) + 1 \in Nat \ {0}
        /\ \/ done = e
           \/ /\ sq[i].period > 0 /\ r \in Record
              /\ r.time = Plus(evtime, sq[i].period) /\ done = AddInside(e, r)
    BY <2>3 DEF DoneFrom
  <2>5. OperateFrom(done, PosOf(done, Top.rec) + 1, Top.ctime, lock_level, TRUE, Tail(stack))
    BY <2>2 DEF Continues
  <2>6. PICK g : Thins(g, e, sq)
    BY <2>4
  <2> HIDE DEF done, r, i
  <2>7. Near(e) /\ Ordered(e)
    BY <1>1, <2>4, <2>6, ThinKeepsOrder
  <2>8. Near(done) /\ Ordered(done)
    <3>1. CASE done = e
      BY <2>7, <3>1
    <3>2. CASE /\ sq[i].period > 0 /\ r \in Record
               /\ r.time = Plus(evtime, sq[i].period) /\ done = AddInside(e, r)
      <4>1. sq[i].period \in {0} \cup Periods
        <5>1. \A x \in Record : x.period \in {0} \cup Periods
          BY DEF Record
        <5> QED BY <2>4, <5>1
      <4>2. 2 * r.time < TimeMod
        BY <1>1, <3>2, <4>1, PlusNear
      <4> QED BY <2>4, <2>7, <3>2, <4>2, AddInsideOrder
    <3> QED BY <2>4, <3>1, <3>2
  <2> QED BY <2>1, <2>4, <2>5, <2>8, OperateFromOrder
<1>7. JInv
  BY DEF OrderInv
<1> QED BY <1>1, <1>2, <1>3, <1>4, <1>5, <1>6, Steps

LEMMA OrderInvariance ==
  ASSUME NoOverflow
  PROVE  Spec => []OrderInv
<1>1. Init => OrderInv
  <2>1. Init => DOMAIN sq = {}
    BY DEF Init
  <2> QED BY <2>1, JInvInit DEF OrderInv, Near, Ordered
<1>2. OrderInv /\ [Next]_vars => OrderInv'
  BY OrderStep
<1> QED BY <1>1, <1>2, PTL DEF Spec

LEMMA RecordTimes == \A q \in Seq(Record) : \A i \in DOMAIN q : q[i].time \in Nat
<1>1. \A x \in Record : x.time \in Nat
  BY DEF Record, Times
<1>2. \A q \in Seq(Record) : \A i \in DOMAIN q : q[i] \in Record
  OBVIOUS
<1> QED BY <1>1, <1>2

(* The queue stays in the order of time_to_execute, as squeue_get_next_ms   *)
(* relies on, whatever is added, put back and marked in any nesting of      *)
(* calls, when the type Time is wide enough (NoOverflow).                   *)
THEOREM QueueStaysSorted ==
  ASSUME NoOverflow
  PROVE  Spec => []QueueSorted
<1>1. OrderInv => QueueSorted
  <2> SUFFICES ASSUME OrderInv, NEW i \in DOMAIN sq, NEW j \in DOMAIN sq, i < j
               PROVE  CmpTimes(sq[i].time, sq[j].time) <= 0
    BY DEF QueueSorted
  <2>1. sq[i].time \in Nat /\ sq[j].time \in Nat
    BY RecordTimes DEF OrderInv, JInv, IInv, Consistent
  <2>2. sq[i].time <= sq[j].time /\ 2 * sq[i].time < TimeMod /\ 2 * sq[j].time < TimeMod
    BY DEF OrderInv, Near, Ordered
  <2> QED BY <2>1, <2>2, NearTimes
<1> QED BY <1>1, OrderInvariance, PTL
-----------------------------------------------------------------------------
(* How long select sleeps *)

LEMMA NextMs ==
  ASSUME NoOverflow, NEW q \in Seq(Record), AllEligible(q), Near(q), Ordered(q),
         NEW et \in 0 .. ClockMod - 1, NEW i \in DOMAIN q
  PROVE  LET ms == GetNextMs(q, et) IN ms >= 0 /\ (ms = 0 \/ et + ms <= q[i].time)
<1> DEFINE f == GetFirst(q)
<1>1. Kept(q) = DOMAIN q
  <2>1. DOMAIN q = 1 .. Len(q)
    OBVIOUS
  <2> QED BY <2>1 DEF Kept, AllEligible, Eligible
<1>2. f \in DOMAIN q /\ \A j \in DOMAIN q : f <= j
  <2>1. DOMAIN q \in SUBSET Nat /\ DOMAIN q # {}
    OBVIOUS
  <2>2. \E m \in DOMAIN q : \A k \in DOMAIN q : m <= k
    BY <2>1, NatSetHasMin
  <2> QED BY <1>1, <2>1, <2>2 DEF GetFirst
<1> HIDE DEF f
<1>3. q[f].time <= q[i].time
  <2>1. f < i \/ f = i
    BY <1>2
  <2>2. q[i].time \in Nat
    BY RecordTimes
  <2> QED BY <1>2, <2>1, <2>2 DEF Ordered
<1>4. /\ q[f].time \in Nat /\ 2 * q[f].time < TimeMod /\ q[i].time \in Nat
      /\ et \in Nat /\ 2 * et < TimeMod
  BY <1>2, RecordTimes, PlusNear DEF Near
<1>5. GetNextMs(q, et) =
        IF CmpTimes(et, q[f].time) >= 0 THEN 0 ELSE (q[f].time - et) % TimeMod
  <2>1. f # 0
    BY <1>2
  <2> QED BY <2>1 DEF GetNextMs, f
<1>6. CASE et >= q[f].time
  <2>1. CmpTimes(et, q[f].time) >= 0
    BY <1>4, <1>6, NearTimes
  <2> QED BY <1>5, <2>1
<1>7. CASE ~(et >= q[f].time)
  <2>1. ~(CmpTimes(et, q[f].time) >= 0)
    BY <1>4, <1>7, NearTimes
  <2>2. q[f].time >= et
    BY <1>4, <1>7
  <2>3. (q[f].time - et) % TimeMod = q[f].time - et
    BY <1>4, <2>2, NearTimes
  <2>4. GetNextMs(q, et) = q[f].time - et
    BY <1>5, <2>1, <2>3
  <2> QED BY <1>3, <1>4, <2>2, <2>4
<1> QED BY <1>6, <1>7

(* select never sleeps past a job in the queue, or a millisecond at most. *)
SleepsWell ==
  Top.at = "select" =>
    \A i \in DOMAIN sq :
      Top.ms >= 0 /\ (Top.ms <= 1 \/ evtime + Top.ms <= sq[i].time)

LEMMA SleepStep ==
  ASSUME MaxWaits = 0, NoOverflow, KInv, KInv', OrderInv, SleepsWell, [Next]_vars
  PROVE  SleepsWell'
<1>1. /\ IInv /\ Flat(stack) /\ Near(sq) /\ Ordered(sq) /\ sq \in Seq(Record)
      /\ evtime \in 0 .. ClockMod - 1 /\ stack \in Seq(Frame) /\ stack # <<>>
  BY DEF KInv, OrderInv, JInv, IInv, Consistent, ScalarsOK, MainLoop
<1>2. {"begin", "again", "select", "woken"} = LoopPoints /\ -1 \in Int
  BY DEF LoopPoints
<1>3. GetNextMs(sq, evtime) \in Int
  BY <1>1, GetNextMsType, TimeTypes
<1>4. ASSUME NEW pc \in LoopPoints, NEW ms \in Int, Top.at \in LoopPoints, stack' = Goto(pc, ms)
      PROVE  Top'.at = pc /\ Top'.ms = ms
  <2>1. stack' = <<Loop(pc, ms)>>
    BY <1>1, <1>4, FlatGoto
  <2> QED BY <2>1 DEF Top, Loop
<1>5. ASSUME NEW t, stack' = <<Cmd>> \o t, t \in Seq(Frame)
      PROVE  Top'.at # "select"
  <2>1. stack'[1] = Cmd
    BY <1>5, FrameTypes
  <2> QED BY <2>1 DEF Top, Cmd
<1>6. ASSUME NEW pc \in LoopPoints, pc # "select", Top.at \in LoopPoints, SqueueExecute(Goto(pc, -1))
      PROVE  Top'.at # "select"
  <2> DEFINE rest == Goto(pc, -1)
  <2>1. rest = <<Loop(pc, -1)>> /\ rest \in Seq(Frame)
    <3>1. Top.at # "job"
      BY <1>6 DEF LoopPoints
    <3> QED BY <1>1, <1>2, <1>6, <3>1, FlatGoto, GotoQuiet
  <2>2. rest[1].at # "select"
    BY <1>6, <2>1 DEF Loop
  <2> HIDE DEF rest
  <2>3. stack' = rest \/ \E i : stack' = <<Job(sq[i], clock)>> \o rest
    BY <1>6 DEF SqueueExecute, OperateFrom, rest
  <2>4. CASE stack' = rest
    BY <2>2, <2>4 DEF Top
  <2>5. ASSUME NEW i, stack' = <<Job(sq[i], clock)>> \o rest PROVE Top'.at # "select"
    <3> DEFINE f == Job(sq[i], clock)
    <3>1. f.at = "job" /\ stack' = <<f>> \o rest
      BY <2>5 DEF Job
    <3> HIDE DEF f
    <3>2. stack'[1] = f
      BY <2>1, <3>1
    <3> QED BY <3>1, <3>2 DEF Top
  <2> QED BY <2>3, <2>4, <2>5
<1>7. ASSUME NEW t, Len(t) = 1, t \in Seq(Frame), t[1].at # "select", NEW q, NEW from, NEW ct, NEW lock, NEW dirty,
             OperateFrom(q, from, ct, lock, dirty, t)
      PROVE  Top'.at # "select"
  <2>1. stack' = t \/ \E i : stack' = <<Job(q[i], ct)>> \o t
    BY <1>7 DEF OperateFrom
  <2>2. ASSUME NEW i, stack' = <<Job(q[i], ct)>> \o t PROVE Top'.at # "select"
    <3> DEFINE f == Job(q[i], ct)
    <3>1. f.at = "job" /\ stack' = <<f>> \o t
      BY <2>2 DEF Job
    <3> HIDE DEF f
    <3>2. stack'[1] = f
      BY <1>7, <3>1
    <3> QED BY <3>1, <3>2 DEF Top
  <2> QED BY <1>7, <2>1, <2>2 DEF Top
<1>8. ASSUME Top.at # "job", UNCHANGED <<sq, evtime>>, NEW ms \in Int, Top'.ms = ms,
             ms = GetNextMs(sq, evtime) \/ (ms = 1 /\ GetNextMs(sq, evtime) = 0)
      PROVE  SleepsWell'
  <2> SUFFICES ASSUME NEW i \in DOMAIN sq
               PROVE  ms >= 0 /\ (ms <= 1 \/ evtime + ms <= sq[i].time)
    BY <1>8 DEF SleepsWell
  <2>1. AllEligible(sq)
    BY <1>1, <1>8, FlatFacts
  <2>2. LET n == GetNextMs(sq, evtime) IN n >= 0 /\ (n = 0 \/ evtime + n <= sq[i].time)
    BY <1>1, <2>1, NextMs
  <2> QED BY <1>8, <2>2
<1>9. CASE Top'.at # "select"
  BY <1>9 DEF SleepsWell
<1>10. CASE Tick
  <2>1. UNCHANGED <<sq, evtime>>
    BY <1>10 DEF Tick, queueVars
  <2>2. CASE Top.at = "select" /\ Top.ms > 0
    <3>1. Top.ms \in Int
      <4>1. Top \in Frame
        BY <1>1, TopAndRest DEF Top
      <4> QED BY <4>1 DEF Frame
    <3>2. Top'.ms = Top.ms - 1 /\ Top'.at = "select"
      <4>1. stack' = Goto("select", Top.ms - 1) /\ Top.ms - 1 \in Int
        BY <1>10, <2>2, <3>1 DEF Tick
      <4> QED BY <1>2, <1>4, <2>2, <4>1
    <3> SUFFICES ASSUME NEW i \in DOMAIN sq
                 PROVE  /\ Top.ms - 1 >= 0
                        /\ Top.ms - 1 <= 1 \/ evtime + (Top.ms - 1) <= sq[i].time
      BY <2>1, <3>2 DEF SleepsWell
    <3>3. Top.ms >= 0 /\ (Top.ms <= 1 \/ evtime + Top.ms <= sq[i].time)
      BY <2>2 DEF SleepsWell
    <3>4. sq[i].time \in Nat /\ evtime \in Nat
      BY <1>1, RecordTimes
    <3> QED BY <2>2, <3>1, <3>3, <3>4
  <2>3. CASE ~(Top.at = "select" /\ Top.ms > 0)
    <3>1. stack' = stack
      BY <1>10, <2>3 DEF Tick
    <3> QED BY <2>1, <3>1 DEF SleepsWell, Top
  <2> QED BY <2>2, <2>3
<1>11. CASE LoopEvent
  <2>1. PICK pc \in {"begin", "woken"} : stack' = <<Cmd>> \o Goto(pc, -1)
    BY <1>11 DEF LoopEvent
  <2>2. Goto(pc, -1) \in Seq(Frame)
    BY <1>1, <1>2, <1>11, GotoQuiet DEF LoopEvent
  <2> QED BY <1>5, <1>9, <2>1, <2>2
<1>12. CASE LoopIdle
  <2>1. Top.at \in LoopPoints /\ Top.at # "job"
    BY <1>2, <1>12 DEF LoopIdle
  <2>2. CASE GetNextMs(sq, evtime) = 0
    <3>1. SqueueExecute(Goto("again", -1))
      BY <1>12, <2>2 DEF LoopIdle
    <3> QED BY <1>2, <1>6, <1>9, <2>1, <3>1
  <2>3. CASE GetNextMs(sq, evtime) # 0
    <3>1. stack' = Goto("select", GetNextMs(sq, evtime)) /\ UNCHANGED <<sq, evtime>>
      BY <1>12, <2>3 DEF LoopIdle, queueVars
    <3>2. Top'.ms = GetNextMs(sq, evtime)
      BY <1>2, <1>3, <1>4, <2>1, <3>1
    <3> QED BY <1>3, <1>8, <2>1, <3>1, <3>2
  <2> QED BY <2>2, <2>3
<1>13. CASE LoopAgain
  <2>1. PICK ms \in Int : /\ stack' = Goto("select", ms)
                          /\ ms = GetNextMs(sq, evtime) \/ (ms = 1 /\ GetNextMs(sq, evtime) = 0)
    BY <1>3, <1>13 DEF LoopAgain
  <2>2. Top.at \in LoopPoints /\ Top.at # "job" /\ UNCHANGED <<sq, evtime>>
    BY <1>2, <1>13 DEF LoopAgain, queueVars
  <2>3. Top'.ms = ms
    BY <1>2, <1>4, <2>1, <2>2
  <2> QED BY <1>8, <2>1, <2>2, <2>3
<1>14. CASE LoopTimeout
  BY <1>2, <1>6, <1>9, <1>14 DEF LoopTimeout
<1>15. CASE LoopInput
  <2>1. Top.at \in LoopPoints /\ Top.at # "job"
    BY <1>2, <1>15 DEF LoopInput
  <2>2. CASE stack' = Goto("begin", -1)
    BY <1>2, <1>4, <1>9, <2>1, <2>2
  <2>3. CASE stack' = <<Cmd>> \o Goto("begin", -1)
    BY <1>1, <1>2, <1>5, <1>9, <2>1, <2>3, GotoQuiet
  <2> QED BY <1>15, <2>2, <2>3 DEF LoopInput
<1>16. CASE WaitDone
  BY <1>1, <1>2, <1>16, FlatFacts DEF WaitDone
<1>17. CASE CmdWait
  <2>1. stack' = <<Loop("begin", -1)>> \o stack
    BY <1>17 DEF CmdWait
  <2> DEFINE f == Loop("begin", -1)
  <2>2. f.at = "begin" /\ stack' = <<f>> \o stack
    BY <2>1 DEF Loop
  <2> HIDE DEF f
  <2>3. stack'[1] = f
    BY <1>1, <2>2
  <2> QED BY <1>9, <2>2, <2>3 DEF Top
<1>18. CASE CmdReturn
  <2>1. Tail(stack)[1].at # "select" /\ stack' = Tail(stack)
    BY <1>1, <1>18, FlatFacts DEF CmdReturn
  <2> QED BY <1>9, <2>1 DEF Top
<1>19. CASE JobReturn
  <2>1. Tail(stack) \in Seq(Frame) /\ Len(Tail(stack)) = 1 /\ Tail(stack)[1].at # "select"
    BY <1>1, <1>19, FlatFacts, JobReturnStep
  <2>2. PICK uid : Continues(uid)
    BY <1>1, <1>19, JobReturnStep
  <2> DEFINE done == EndsAs(sq, Top.rec, uid)
             from == PosOf(done, Top.rec) + 1
  <2>3. OperateFrom(done, from, Top.ctime, lock_level, TRUE, Tail(stack))
    BY <2>2 DEF Continues
  <2> HIDE DEF done, from
  <2> QED BY <1>7, <1>9, <2>1, <2>3
<1>20. ASSUME NEW ms, NEW period, NEW id, CmdSchedule(ms, period, id) PROVE SleepsWell'
  <2>1. Top.at # "select" /\ stack' = stack
    BY <1>20 DEF CmdSchedule, Commanding
  <2> QED BY <1>9, <2>1 DEF Top
<1>21. ASSUME NEW id, CmdDeschedule(id) PROVE SleepsWell'
  <2>1. Top.at # "select" /\ stack' = stack
    BY <1>21 DEF CmdDeschedule, Commanding
  <2> QED BY <1>9, <2>1 DEF Top
<1>22. CASE UNCHANGED vars
  BY <1>22 DEF vars, SleepsWell, Top
<1> QED BY <1>10, <1>11, <1>12, <1>13, <1>14, <1>15, <1>16, <1>17, <1>18, <1>19, <1>20, <1>21, <1>22
        DEF Next, Loops, Commands

(* Without Wait the queue is sorted and the select of My_XNextEvent never   *)
(* sleeps past the time of a job that is still to be run: the first record  *)
(* is the earliest, and no record is hidden or marked when select starts.   *)
THEOREM NeverOversleeps ==
  ASSUME MaxWaits = 0, NoOverflow
  PROVE  Spec => []QueueOrder
<1> DEFINE Inv == KInv /\ OrderInv /\ SleepsWell
<1>1. Init => SleepsWell
  BY DEF Init, SleepsWell
<1>2. KInv /\ [Next]_vars => KInv'
  BY KInvStep
<1>3. KInv /\ OrderInv /\ SleepsWell /\ [Next]_vars => SleepsWell'
  BY <1>2, SleepStep
<1>4. KInv /\ OrderInv /\ SleepsWell => NoOversleep
  <2> SUFFICES ASSUME OrderInv, SleepsWell, Top.at = "select", NEW i \in DOMAIN sq, IInv
               PROVE  /\ Top.ms >= 0
                      /\ \/ Top.ms <= 1
                         \/ CmpTimes(Plus(evtime, Top.ms), sq[i].time) <= 0
    BY DEF NoOversleep, KInv, JInv
  <2>1. sq[i].time \in Nat /\ evtime \in Nat /\ 2 * sq[i].time < TimeMod
    BY RecordTimes DEF OrderInv, Near, IInv, Consistent, ScalarsOK
  <2>2. Top.ms \in Int
    <3>1. Top \in Frame
      BY TopAndRest DEF Top, IInv, Consistent, MainLoop
    <3> QED BY <3>1 DEF Frame
  <2>3. Top.ms >= 0 /\ (Top.ms <= 1 \/ evtime + Top.ms <= sq[i].time)
    BY DEF SleepsWell
  <2>4. CASE evtime + Top.ms <= sq[i].time
    <3> DEFINE t == evtime + Top.ms
    <3>1. t \in Nat /\ t <= sq[i].time /\ TimeMod \in Nat \ {0}
      BY <2>1, <2>2, <2>3, <2>4, ScheduleAssumption
    <3>2. Plus(evtime, Top.ms) = t % TimeMod
      BY DEF Plus
    <3> HIDE DEF t
    <3>3. 2 * t < TimeMod /\ t < TimeMod
      BY <2>1, <3>1
    <3>4. t % TimeMod = t
      BY <3>1, <3>3, SmallModulo
    <3>5. CmpTimes(t, sq[i].time) <= 0
      BY <2>1, <3>1, <3>3, NearTimes
    <3> QED BY <2>3, <3>2, <3>4, <3>5
  <2> QED BY <2>3, <2>4
<1>5. Spec => []KInv
  BY KInvariance
<1>6. Spec => []OrderInv
  BY OrderInvariance
<1>7. Spec => []QueueSorted
  BY QueueStaysSorted
<1>8. Spec => []SleepsWell
  BY <1>1, <1>3, <1>5, <1>6, PTL DEF Spec
<1>9. QueueSorted /\ NoOversleep => QueueOrder
  BY DEF QueueOrder
<1> QED BY <1>4, <1>5, <1>6, <1>7, <1>8, <1>9, PTL
-----------------------------------------------------------------------------
(* Without Wait: the promises of JobQueue *)

WaitingAt(q) == {k \in DOMAIN q : ~q[k].del /\ q[k].starts = 0}
WaitingIn(q) == {JobOf(q[k]) : k \in WaitingAt(q)}
RunningIn(q, H) == {JobOf(q[k]) : k \in {l \in DOMAIN q : q[l].uid \in H}}

LEMMA RunningByName ==
  ASSUME NEW q \in Seq(Record), Distinct(q), NEW s \in Seq(Frame), HeldIn(s) \subseteq Used(q)
  PROVE  {JobOf(q[PosOf(q, s[f].rec)]) : f \in JobsIn(s)} = RunningIn(q, HeldIn(s))
<1>1. ASSUME NEW f \in JobsIn(s)
      PROVE  /\ PosOf(q, s[f].rec) \in DOMAIN q
             /\ q[PosOf(q, s[f].rec)].uid = s[f].rec /\ s[f].rec \in HeldIn(s)
  <2>1. s[f].rec \in HeldIn(s)
    BY DEF HeldIn
  <2>2. s[f].rec \in Used(q)
    BY <2>1
  <2> QED BY <2>1, <2>2, PosOfType
<1>2. ASSUME NEW k \in DOMAIN q, q[k].uid \in HeldIn(s)
      PROVE  \E f \in JobsIn(s) : PosOf(q, s[f].rec) = k
  <2>1. PICK f \in JobsIn(s) : q[k].uid = s[f].rec
    BY <1>2 DEF HeldIn
  <2>2. PosOf(q, s[f].rec) = k
    BY <1>1, <2>1 DEF Distinct
  <2> QED BY <2>2
<1> QED BY <1>1, <1>2 DEF RunningIn

(* fqueue_cleanup_queue frees no job that waits. *)
LEMMA CleanupWaiting ==
  ASSUME NEW q \in Seq(Record)
  PROVE  WaitingIn(Cleanup(q)) = WaitingIn(q)
<1> DEFINE c == Cleanup(q)
<1>1. \A r \in Record : LET v == [r EXCEPT !.new = FALSE]
                        IN JobOf(v) = JobOf(r) /\ v.del = r.del /\ v.starts = r.starts
  BY DEF JobOf, Record
<1>2. \A k \in DOMAIN q : q[k] \in Record
  OBVIOUS
<1>3. ASSUME NEW k \in WaitingAt(c) PROVE \E i \in WaitingAt(q) : JobOf(c[k]) = JobOf(q[i])
  <2>1. k \in DOMAIN c /\ ~c[k].del /\ c[k].starts = 0
    BY DEF WaitingAt
  <2>2. PICK i \in DOMAIN q : ~q[i].del /\ c[k] = [q[i] EXCEPT !.new = FALSE]
    BY <2>1, CleanupThins
  <2> HIDE DEF c
  <2>3. JobOf(c[k]) = JobOf(q[i]) /\ q[i].starts = 0
    BY <1>1, <1>2, <2>1, <2>2
  <2> QED BY <2>2, <2>3 DEF WaitingAt
<1>4. ASSUME NEW i \in WaitingAt(q) PROVE \E k \in WaitingAt(c) : JobOf(c[k]) = JobOf(q[i])
  <2>1. i \in DOMAIN q /\ ~q[i].del /\ q[i].starts = 0 /\ i \in Kept(q)
    BY DEF WaitingAt, Kept
  <2>2. Len(q) \in Nat
    OBVIOUS
  <2>3. Kept(q) \in SUBSET Nat /\ IsFiniteSet(Kept(q))
    BY <2>2, KeptFinite
  <2> DEFINE k == Rank(Kept(q), i)
             kept == Subsequence(q, Kept(q))
  <2>4. k \in 1 .. Cardinality(Kept(q)) /\ kept[k] = q[i]
    BY <2>1, <2>3, SubsequenceKeeps
  <2>5. DOMAIN kept = 1 .. Cardinality(Kept(q))
    BY DEF Subsequence
  <2>6. c = [j \in DOMAIN kept |-> [kept[j] EXCEPT !.new = FALSE]]
    BY DEF Cleanup
  <2> HIDE DEF k, kept, c
  <2>7. k \in DOMAIN c /\ c[k] = [q[i] EXCEPT !.new = FALSE]
    BY <2>4, <2>5, <2>6
  <2>8. JobOf(c[k]) = JobOf(q[i]) /\ ~c[k].del /\ c[k].starts = 0
    BY <1>1, <1>2, <2>1, <2>7
  <2> QED BY <2>7, <2>8 DEF WaitingAt
<1> HIDE DEF c
<1>5. WaitingIn(c) = WaitingIn(q)
  BY <1>3, <1>4 DEF WaitingIn
<1> QED BY <1>5 DEF c

(* What the loop of fqueue_remove_or_operate_all does, called where no      *)
(* other job runs: it ends, or one of the waiting jobs is started.          *)
StartsOne(q) ==
  \/ WaitingIn(sq') = WaitingIn(q) /\ RunningIn(sq', HeldIn(stack')) = {}
  \/ \E k \in WaitingAt(q) :
       /\ Eligible(q[k])
       /\ WaitingIn(sq') = WaitingIn(q) \ {JobOf(q[k])}
       /\ RunningIn(sq', HeldIn(stack')) = {JobOf(q[k])}

LEMMA OperateFromPromise ==
  ASSUME NEW q \in Seq(Record), Distinct(q), OnePerLine(q), NEW from \in Nat \ {0},
         NEW ct \in Times, NEW lock, NEW dirty, NEW rest \in Seq(Frame), HeldIn(rest) = {},
         StartsCounted(q, rest), OperateFrom(q, from, ct, lock, dirty, rest)
  PROVE  StartsOne(q)
<1> DEFINE i == Scan(q, from, ct)
<1>1. CASE i = 0
  <2>1. sq' = Unlocked(q, lock, dirty) /\ stack' = rest
    BY <1>1 DEF OperateFrom
  <2>2. WaitingIn(sq') = WaitingIn(q)
    BY <2>1, CleanupWaiting DEF Unlocked
  <2>3. RunningIn(sq', HeldIn(stack')) = {}
    BY <2>1 DEF RunningIn
  <2> QED BY <2>2, <2>3 DEF StartsOne
<1>2. CASE i # 0
  <2>1. i \in DOMAIN q /\ Due(q[i], ct)
    BY <1>2, ScanFinds
  <2>2. sq' = Started(q, i) /\ stack' = <<Job(q[i], ct)>> \o rest
    BY <1>2 DEF OperateFrom, Started
  <2> HIDE DEF i
  <2>3. q[i] \in Record /\ Eligible(q[i]) /\ ~q[i].del
    BY <2>1 DEF Due, Eligible
  <2>4. q[i].starts = 0
    <3>1. RunsOf(rest, q[i].uid) = 0
      BY RunsType
    <3> QED BY <2>1, <2>3, <3>1 DEF StartsCounted
  <2>5. HeldIn(stack') = {q[i].uid}
    <3>1. PICK f \in Frame : f = Job(q[i], ct) /\ f.at = "job" /\ f.rec = q[i].uid
      BY <2>3, FrameTypes
    <3> QED BY <2>2, <3>1, PushFrame
  <2>6. /\ DOMAIN sq' = DOMAIN q /\ \A k \in DOMAIN q : k # i => sq'[k] = q[k]
        /\ sq'[i] = [q[i] EXCEPT !.starts = @ + 1]
    BY <2>1, <2>2 DEF Started
  <2>7. JobOf(sq'[i]) = JobOf(q[i]) /\ sq'[i].starts = 1 /\ sq'[i].uid = q[i].uid
    <3> DEFINE r == q[i]
    <3>1. r \in Record /\ r.starts = 0 /\ sq'[i] = [r EXCEPT !.starts = @ + 1]
      BY <2>3, <2>4, <2>6
    <3> HIDE DEF r
    <3>2. JobOf(sq'[i]) = JobOf(r) /\ sq'[i].starts = 1 /\ sq'[i].uid = r.uid
      BY <3>1 DEF JobOf, Record
    <3> QED BY <3>2 DEF r
  <2>8. i \in WaitingAt(q) /\ WaitingAt(sq') = WaitingAt(q) \ {i}
    <3>1. i \notin WaitingAt(sq')
      BY <2>7 DEF WaitingAt
    <3>2. \A k \in DOMAIN q : k # i => (k \in WaitingAt(sq') <=> k \in WaitingAt(q))
      BY <2>6 DEF WaitingAt
    <3>3. i \in WaitingAt(q)
      BY <2>1, <2>3, <2>4 DEF WaitingAt
    <3>4. WaitingAt(q) \subseteq DOMAIN q /\ WaitingAt(sq') \subseteq DOMAIN q
      BY <2>6 DEF WaitingAt
    <3> QED BY <3>1, <3>2, <3>3, <3>4
  <2>9. \A k \in WaitingAt(q) : JobOf(q[k]) = JobOf(q[i]) => k = i
    BY <2>1, <2>3 DEF WaitingAt, OnePerLine, JobOf
  <2>10. \A k \in WaitingAt(q) : k \in DOMAIN q
    BY DEF WaitingAt
  <2>11. WaitingIn(sq') = WaitingIn(q) \ {JobOf(q[i])}
    BY <2>6, <2>8, <2>9, <2>10 DEF WaitingIn
  <2>12. {l \in DOMAIN sq' : sq'[l].uid \in HeldIn(stack')} = {i}
    BY <2>1, <2>5, <2>6, <2>7 DEF Distinct
  <2>13. RunningIn(sq', HeldIn(stack')) = {JobOf(q[i])}
    BY <2>7, <2>12 DEF RunningIn
  <2> QED BY <2>3, <2>8, <2>11, <2>13 DEF StartsOne
<1> QED BY <1>1, <1>2

(* A new record adds one waiting job, and no running one. *)
LEMMA AddInsideWaiting ==
  ASSUME NEW q \in Seq(Record), NEW r \in Record, ~r.del, r.starts = 0,
         NEW H, r.uid \notin H
  PROVE  /\ WaitingIn(AddInside(q, r)) = WaitingIn(q) \cup {JobOf(r)}
         /\ RunningIn(AddInside(q, r), H) = RunningIn(q, H)
         /\ \A k \in WaitingAt(AddInside(q, r)) :
              \/ AddInside(q, r)[k] = r
              \/ \E l \in WaitingAt(q) : AddInside(q, r)[k] = q[l]
         /\ \E p \in DOMAIN AddInside(q, r) : AddInside(q, r)[p] = r
<1> DEFINE a == AddInside(q, r)
<1> DEFINE p == InsertPos(q, r)
<1>1. PICK old : Grows(a, q, r, p, old)
  BY AddInsideGrows
<1> HIDE DEF p
<1> HIDE DEF a
<1>2. /\ p \in DOMAIN a /\ a[p] = r
      /\ \A j \in DOMAIN a : j # p => old[j] \in DOMAIN q /\ a[j] = q[old[j]]
      /\ \A i \in DOMAIN q : \E j \in DOMAIN a : j # p /\ old[j] = i
  BY <1>1 DEF Grows
<1>3. \A k \in WaitingAt(a) : k # p => old[k] \in WaitingAt(q) /\ a[k] = q[old[k]]
  BY <1>2 DEF WaitingAt
<1>4. \A i \in WaitingAt(q) : \E k \in WaitingAt(a) : a[k] = q[i]
  BY <1>2 DEF WaitingAt
<1>5. p \in WaitingAt(a)
  BY <1>2 DEF WaitingAt
<1>6. WaitingIn(a) = WaitingIn(q) \cup {JobOf(r)}
  BY <1>2, <1>3, <1>4, <1>5 DEF WaitingIn
<1>7. ASSUME NEW k \in DOMAIN a, a[k].uid \in H
      PROVE  old[k] \in DOMAIN q /\ a[k] = q[old[k]]
  BY <1>2, <1>7
<1>8. \A i \in DOMAIN q : \E k \in DOMAIN a : a[k] = q[i]
  BY <1>2
<1>9. RunningIn(a, H) = RunningIn(q, H)
  BY <1>7, <1>8 DEF RunningIn
<1> QED BY <1>2, <1>3, <1>6, <1>9 DEF a

(* A step of JobQueue, on the sets that are its variables *)
PromiseStep(p, r, pp, rr) ==
  \/ pp = p /\ rr = r
  \/ \E j \in Promise!Jobs :
       (\A k \in p \cup r : k.line # j.line) /\ pp = p \cup {j} /\ rr = r
  \/ \E id \in AllIds :
       /\ \E spared \in SUBSET {j \in p : j.id = id} :
            /\ r = {} => spared = {}
            /\ pp = {j \in p : j.id = id => j \in spared}
       /\ rr = r
  \/ \E ends \in Promise!AtMostOne(r), starts \in Promise!AtMostOne(p) :
       /\ rr = (r \ ends) \cup starts
       /\ pp = (p \ starts) \cup {j \in ends : j.periodic}

LEMMA PromiseSteps ==
  ASSUME PromiseStep(Pending, Running, Pending', Running')
  PROVE  [Promise!Next]_Promise!jobVars
<1>1. ASSUME NEW ends, NEW starts \in Promise!AtMostOne(Pending)
      PROVE  starts \subseteq Pending
  BY DEF Promise!AtMostOne
<1> QED BY <1>1, Zenon DEF PromiseStep, Promise!Next, Promise!Submit, Promise!Cancel,
               Promise!Proceed, Promise!jobVars

(* squeue_execute, entered from a stack that runs no job *)
LEMMA ExecutePromise ==
  ASSUME KInv, NEW rest \in Seq(Frame), Executes(rest)
  PROVE  PromiseStep(WaitingIn(sq), RunningIn(sq, HeldIn(stack)),
                     WaitingIn(sq'), RunningIn(sq', HeldIn(stack')))
<1>1. /\ IInv /\ Flat(stack) /\ OnePerLine(sq) /\ StartsCounted(sq, stack)
      /\ sq \in Seq(Record) /\ Distinct(sq) /\ clock \in Times
  BY TimeTypes DEF KInv, JInv, Single, IInv, Consistent, ScalarsOK
<1>2. /\ HeldIn(rest) = HeldIn(stack) /\ Top.at # "job"
      /\ \A u : RunsOf(rest, u) = RunsOf(stack, u)
      /\ OperateFrom(sq, 1, clock, lock_level + 1, is_dirty, rest)
  BY DEF Executes, SameRuns
<1>3. HeldIn(rest) = {} /\ HeldIn(stack) = {}
  BY <1>1, <1>2, FlatFacts
<1>4. StartsCounted(sq, rest)
  BY <1>1, <1>2 DEF StartsCounted
<1>5. StartsOne(sq)
  BY <1>1, <1>2, <1>3, <1>4, OperateFromPromise
<1>6. RunningIn(sq, HeldIn(stack)) = {}
  BY <1>3 DEF RunningIn
<1>7. CASE WaitingIn(sq') = WaitingIn(sq) /\ RunningIn(sq', HeldIn(stack')) = {}
  BY <1>6, <1>7 DEF PromiseStep
<1>8. ASSUME NEW k \in WaitingAt(sq), WaitingIn(sq') = WaitingIn(sq) \ {JobOf(sq[k])},
             RunningIn(sq', HeldIn(stack')) = {JobOf(sq[k])}
      PROVE  PromiseStep(WaitingIn(sq), {}, WaitingIn(sq'), RunningIn(sq', HeldIn(stack')))
  <2> DEFINE p == WaitingIn(sq)
             j == JobOf(sq[k])
  <2>1. j \in p
    BY DEF WaitingIn
  <2> HIDE DEF p, j
  <2>2. {} \in Promise!AtMostOne({}) /\ {j} \in Promise!AtMostOne(p)
    BY <2>1 DEF Promise!AtMostOne
  <2>3. {j} = ({} \ {}) \cup {j} /\ p \ {j} = (p \ {j}) \cup {l \in {} : l.periodic}
    OBVIOUS
  <2>4. PromiseStep(p, {}, p \ {j}, {j})
    BY <2>2, <2>3 DEF PromiseStep
  <2> QED BY <1>8, <2>4 DEF p, j
<1> QED BY <1>5, <1>6, <1>7, <1>8 DEF StartsOne

(* CMD_Schedule *)
LEMMA SchedulePromise ==
  ASSUME KInv, NEW r, NEW ms, NewRecord(r, ms)
  PROVE  PromiseStep(WaitingIn(sq), RunningIn(sq, HeldIn(stack)),
                     WaitingIn(sq'), RunningIn(sq', HeldIn(stack')))
<1>1. sq \in Seq(Record) /\ HeldIn(stack) \subseteq Used(sq)
  BY DEF KInv, JInv, IInv, Consistent
<1>2. /\ r \in Record /\ r.uid \notin Used(sq) /\ ~r.del /\ r.starts = 0
      /\ \A i \in DOMAIN sq : sq[i].line # r.line
      /\ sq' = AddInside(sq, r) /\ stack' = stack
  BY DEF NewRecord
<1>3. r.uid \notin HeldIn(stack)
  BY <1>1, <1>2
<1>4. /\ WaitingIn(sq') = WaitingIn(sq) \cup {JobOf(r)}
      /\ RunningIn(sq', HeldIn(stack')) = RunningIn(sq, HeldIn(stack))
  <2>1. PICK H : H = HeldIn(stack)
    OBVIOUS
  <2>2. /\ WaitingIn(AddInside(sq, r)) = WaitingIn(sq) \cup {JobOf(r)}
        /\ RunningIn(AddInside(sq, r), H) = RunningIn(sq, H)
    BY <1>1, <1>2, <1>3, <2>1, AddInsideWaiting
  <2> QED BY <1>2, <2>1, <2>2
<1>5. JobOf(r) \in Promise!Jobs
  BY <1>2, ScheduleAssumption DEF JobOf, Record, Promise!Jobs
<1>6. \A k \in WaitingIn(sq) \cup RunningIn(sq, HeldIn(stack)) : k.line # JobOf(r).line
  BY <1>2 DEF WaitingIn, WaitingAt, RunningIn, JobOf
<1> QED BY <1>4, <1>5, <1>6 DEF PromiseStep

(* CMD_Deschedule *)
LEMMA MarkedPromise ==
  ASSUME NEW q \in Seq(Record), NEW id, NEW H
  PROVE  /\ WaitingIn(Marked(q, id)) \subseteq WaitingIn(q)
         /\ \A j \in WaitingIn(q) : j.id # id => j \in WaitingIn(Marked(q, id))
         /\ RunningIn(Marked(q, id), H) = RunningIn(q, H)
<1> DEFINE m == Marked(q, id)
<1>1. DOMAIN m = DOMAIN q
  BY DEF Marked
<1>2. ASSUME NEW i \in DOMAIN q
      PROVE  /\ JobOf(m[i]) = JobOf(q[i]) /\ m[i].uid = q[i].uid
             /\ m[i].starts = q[i].starts
             /\ ~m[i].del => ~q[i].del
             /\ q[i].id # id => m[i] = q[i]
  <2> DEFINE x == q[i]
             y == m[i]
  <2>1. /\ x \in Record
        /\ y = x \/ y = [x EXCEPT !.del = TRUE]
        /\ x.id # id => y = x
    BY DEF Marked
  <2> HIDE DEF x, y
  <2>2. /\ JobOf(y) = JobOf(x) /\ y.uid = x.uid
        /\ y.starts = x.starts
        /\ ~y.del => ~x.del
        /\ x.id # id => y = x
    BY <2>1 DEF JobOf, Record
  <2> QED BY <2>2 DEF x, y
<1> HIDE DEF m
<1>3. WaitingIn(m) \subseteq WaitingIn(q)
  BY <1>1, <1>2 DEF WaitingIn, WaitingAt
<1>4. ASSUME NEW j \in WaitingIn(q), j.id # id PROVE j \in WaitingIn(m)
  <2>1. PICK k \in WaitingAt(q) : j = JobOf(q[k])
    BY DEF WaitingIn
  <2>2. k \in DOMAIN q /\ q[k].id # id /\ ~q[k].del /\ q[k].starts = 0
    BY <1>4, <2>1 DEF WaitingAt, JobOf
  <2>3. m[k] = q[k] /\ k \in WaitingAt(m)
    BY <1>1, <1>2, <2>2 DEF WaitingAt
  <2> QED BY <2>1, <2>3 DEF WaitingIn
<1>5. RunningIn(m, H) = RunningIn(q, H)
  BY <1>1, <1>2 DEF RunningIn
<1> QED BY <1>3, <1>4, <1>5 DEF m

LEMMA DeschedulePromise ==
  ASSUME KInv, NEW id \in Ids \cup {0}, CmdDeschedule(id)
  PROVE  PromiseStep(WaitingIn(sq), RunningIn(sq, HeldIn(stack)),
                     WaitingIn(sq'), RunningIn(sq', HeldIn(stack')))
<1> DEFINE theId == IF id = 0 THEN last_schedule_id ELSE id
           p == WaitingIn(sq)
           pp == WaitingIn(sq')
<1>1. /\ IInv /\ Flat(stack) /\ sq \in Seq(Record) /\ Distinct(sq) /\ lock_level \in Nat
      /\ HeldIn(stack) \subseteq Used(sq) /\ stack \in Seq(Frame)
      /\ lock_level = Cardinality(JobsIn(stack)) /\ last_schedule_id \in AllIds \cup {0}
  BY DEF KInv, JInv, IInv, Consistent, ScalarsOK
<1>2. /\ lock_level > 0 => sq' = Marked(sq, theId) \/ (sq = <<>> /\ sq' = sq)
      /\ lock_level = 0 =>
           /\ \A i \in DOMAIN sq' : sq'[i].id # theId
           /\ sq' = Cleanup(Marked(sq, theId)) \/ sq' = sq
      /\ stack' = stack
  BY <1>1, DescheduleStep
<1>3. theId \in AllIds \cup {0}
  BY <1>1 DEF AllIds
<1> HIDE DEF theId
<1>4. /\ pp \subseteq p
      /\ \A j \in p : j.id # theId => j \in pp
  <2>1. /\ WaitingIn(Marked(sq, theId)) \subseteq p
        /\ \A j \in p : j.id # theId => j \in WaitingIn(Marked(sq, theId))
    BY <1>1, MarkedPromise
  <2>2. WaitingIn(Cleanup(Marked(sq, theId))) = WaitingIn(Marked(sq, theId))
    BY <1>1, MarkedThins, CleanupWaiting
  <2>3. sq' = sq \/ sq' = Marked(sq, theId) \/ sq' = Cleanup(Marked(sq, theId))
    BY <1>1, <1>2
  <2> QED BY <2>1, <2>2, <2>3
<1>5. RunningIn(sq', HeldIn(stack')) = RunningIn(sq, HeldIn(stack))
  <2>1. CASE lock_level = 0
    <3>1. HeldIn(stack) = {}
      BY <1>1, <2>1, NoJobsHoldNothing
    <3> QED BY <1>2, <3>1 DEF RunningIn
  <2>2. CASE lock_level # 0
    <3>1. sq' = sq \/ sq' = Marked(sq, theId)
      BY <1>1, <1>2, <2>2
    <3>2. PICK H : H = HeldIn(stack)
      OBVIOUS
    <3>3. RunningIn(Marked(sq, theId), H) = RunningIn(sq, H)
      BY <1>1, MarkedPromise
    <3> QED BY <1>2, <3>1, <3>2, <3>3
  <2> QED BY <2>1, <2>2
<1>6. RunningIn(sq, HeldIn(stack)) = {} => \A j \in pp : j.id # theId
  <2> SUFFICES ASSUME RunningIn(sq, HeldIn(stack)) = {}, NEW j \in pp PROVE j.id # theId
    OBVIOUS
  <2>1. Top.at # "job"
    <3> SUFFICES ASSUME Top.at = "job" PROVE FALSE
      OBVIOUS
    <3>1. HeldIn(stack) = {Top.rec}
      BY <1>1, FlatFacts
    <3>2. PICK k \in DOMAIN sq : sq[k].uid = Top.rec
      BY <1>1, <3>1 DEF Used
    <3>3. JobOf(sq[k]) \in RunningIn(sq, HeldIn(stack))
      BY <3>1, <3>2 DEF RunningIn
    <3> QED BY <3>3
  <2>2. lock_level = 0
    BY <1>1, <2>1, FlatFacts
  <2> QED BY <1>2, <2>2 DEF WaitingIn, WaitingAt, JobOf
<1>7. \A j \in p : j.id \in AllIds
  <2>1. \A i \in DOMAIN sq : sq[i] \in Record
    BY <1>1
  <2> QED BY <2>1 DEF WaitingIn, WaitingAt, JobOf, Record
<1> HIDE DEF p, pp
<1>8. CASE theId = 0
  <2>1. 0 \notin AllIds
    BY ScheduleAssumption DEF AllIds
  <2>2. pp = p
    BY <1>4, <1>7, <1>8, <2>1
  <2> QED BY <1>5, <2>2 DEF PromiseStep, p, pp
<1>9. CASE theId \in AllIds
  <2> DEFINE spared == {j \in pp : j.id = theId}
             r == RunningIn(sq, HeldIn(stack))
             rr == RunningIn(sq', HeldIn(stack'))
  <2>1. spared \in SUBSET {j \in p : j.id = theId}
    BY <1>4
  <2>2. r = {} => spared = {}
    BY <1>6
  <2>3. pp = {j \in p : j.id = theId => j \in spared}
    BY <1>4
  <2>4. rr = r
    BY <1>5
  <2> HIDE DEF spared, r, rr
  <2>5. PromiseStep(p, r, pp, rr)
    BY <1>9, <2>1, <2>2, <2>3, <2>4 DEF PromiseStep
  <2> QED BY <2>5 DEF p, pp, r, rr
<1> QED BY <1>3, <1>8, <1>9

(* The end of a job, and the one that is started next *)
LEMMA ReturnPromise ==
  ASSUME KInv, JobReturn
  PROVE  PromiseStep(WaitingIn(sq), RunningIn(sq, HeldIn(stack)),
                     WaitingIn(sq'), RunningIn(sq', HeldIn(stack')))
<1>1. /\ IInv /\ JInv /\ Flat(stack) /\ sq \in Seq(Record) /\ Distinct(sq)
      /\ stack \in Seq(Frame) /\ StartsCounted(sq, stack)
  BY DEF KInv, JInv, IInv, Consistent
<1>2. /\ Top.ctime \in Times /\ Tail(stack) \in Seq(Frame) /\ stack = <<Top>> \o Tail(stack)
      /\ Top \in Frame /\ Top.at = "job"
  BY <1>1, JobReturnStep
<1>3. PICK uid : /\ Continues(uid)
                 /\ sq[PosOf(sq, Top.rec)].period > 0 => uid \in FreshUids
  BY <1>1, JobReturnStep
<1>4. PICK e : DoneFrom(e, uid)
  BY <1>1, <1>3, DoneQueue
<1> DEFINE done == EndsAs(sq, Top.rec, uid)
           i == PosOf(sq, Top.rec)
           r == Successor(sq[i], uid)
           j == JobOf(sq[i])
           p == WaitingIn(sq)
<1>5. HeldIn(Tail(stack)) = {} /\ HeldIn(stack) = {Top.rec}
  BY <1>1, <1>2, FlatFacts
<1>6. /\ i \in DOMAIN sq /\ sq[i].uid = Top.rec /\ sq[i] \in Record
      /\ e \in Seq(Record) /\ DOMAIN e = DOMAIN sq
      /\ \A k \in DOMAIN e : ~e[k].del => k # i
      /\ \A k \in DOMAIN e : k # i => e[k] = sq[k]
      /\ done \in Seq(Record) /\ Distinct(done)
      /\ PosOf(done, Top.rec) + 1 \in Nat \ {0}
      /\ \/ done = e /\ ~(sq[i].period > 0)
         \/ /\ sq[i].period > 0
            /\ r \in Record /\ r.id = sq[i].id /\ r.line = sq[i].line
            /\ r.starts = 0 /\ ~r.del /\ r.new /\ r.period = sq[i].period
            /\ done = AddInside(e, r)
  BY <1>4 DEF DoneFrom
<1>7. OnePerLine(done) /\ StartsCounted(done, Tail(stack))
  BY <1>1, <1>4, DoneSingle, DoneCounted DEF Single
<1>8. OperateFrom(done, PosOf(done, Top.rec) + 1, Top.ctime, lock_level, TRUE, Tail(stack))
  BY <1>3 DEF Continues
<1>9. StartsOne(done)
  BY <1>2, <1>5, <1>6, <1>7, <1>8, OperateFromPromise
<1> HIDE DEF done, r, i
<1>10. RunningIn(sq, HeldIn(stack)) = {j}
  <2>1. {l \in DOMAIN sq : sq[l].uid \in HeldIn(stack)} = {i}
    BY <1>1, <1>5, <1>6 DEF Distinct
  <2> QED BY <2>1 DEF RunningIn
<1>11. i \notin WaitingAt(sq)
  <2>1. RunsOf(stack, sq[i].uid) # 0
    <3>1. PICK s \in Seq(Frame), f \in Frame : s = Tail(stack) /\ f = Top /\ stack = <<f>> \o s
      BY <1>2
    <3>2. RunsOf(<<f>> \o s, sq[i].uid) = RunsOf(s, sq[i].uid) + 1
      BY <1>2, <1>6, <3>1, PushRuns, ZenonT(60)
    <3>3. RunsOf(s, sq[i].uid) \in Nat
      BY RunsType
    <3> DEFINE n == RunsOf(s, sq[i].uid)
    <3>4. RunsOf(stack, sq[i].uid) = n + 1 /\ n \in Nat
      BY <3>1, <3>2, <3>3
    <3> HIDE DEF n
    <3> QED BY ONLY <3>4
  <2> QED BY <1>1, <2>1 DEF WaitingAt, StartsCounted
<1>12. WaitingAt(e) = WaitingAt(sq) /\ \A k \in WaitingAt(e) : e[k] = sq[k]
  BY <1>6, <1>11 DEF WaitingAt
<1>13. WaitingIn(e) = p
  BY <1>12 DEF WaitingIn
<1>14. /\ WaitingIn(done) = p \cup {l \in {j} : l.periodic}
       /\ \A k \in WaitingAt(done) : Eligible(done[k]) =>
            JobOf(done[k]) \in p /\ (j.periodic => JobOf(done[k]) # j)
  <2>1. CASE done = e /\ ~(sq[i].period > 0)
    <3>1. ~j.periodic
      BY <2>1 DEF JobOf
    <3>2. {l \in {j} : l.periodic} = {}
      BY <3>1
    <3> QED BY <1>13, <2>1, <3>1, <3>2 DEF WaitingIn
  <2>2. CASE /\ sq[i].period > 0
             /\ r \in Record /\ r.id = sq[i].id /\ r.line = sq[i].line
             /\ r.starts = 0 /\ ~r.del /\ r.new /\ r.period = sq[i].period
             /\ done = AddInside(e, r)
    <3>1. JobOf(r) = j /\ j.periodic
      BY <2>2 DEF JobOf
    <3>2. PICK H : e \in Seq(Record) /\ r \in Record /\ ~r.del /\ r.starts = 0 /\ r.uid \notin H
      <4>1. r.uid \notin {}
        OBVIOUS
      <4> QED BY <1>6, <2>2, <4>1
    <3>3. /\ WaitingIn(AddInside(e, r)) = WaitingIn(e) \cup {JobOf(r)}
          /\ \A k \in WaitingAt(AddInside(e, r)) :
               \/ AddInside(e, r)[k] = r
               \/ \E l \in WaitingAt(e) : AddInside(e, r)[k] = e[l]
          /\ \E t \in DOMAIN AddInside(e, r) : AddInside(e, r)[t] = r
          /\ RunningIn(AddInside(e, r), H) = RunningIn(e, H)
      BY ONLY <3>2, AddInsideWaiting
    <3>4. PICK t \in DOMAIN done : done[t] = r
      BY <2>2, <3>3
    <3>5. WaitingIn(done) = p \cup {l \in {j} : l.periodic}
      <4>1. {l \in {j} : l.periodic} = {j}
        BY <3>1
      <4> QED BY <1>13, <2>2, <3>1, <3>3, <4>1
    <3>6. ASSUME NEW k \in WaitingAt(done), Eligible(done[k])
          PROVE  JobOf(done[k]) \in p /\ JobOf(done[k]) # j
      <4>1. done[k] # r
        BY <2>2, <3>6 DEF Eligible
      <4>2. PICK l \in WaitingAt(e) : done[k] = e[l]
        BY <2>2, <3>3, <3>6, <4>1
      <4>3. JobOf(done[k]) \in p
        BY <1>13, <4>2 DEF WaitingIn
      <4>4. done[k].line # r.line
        BY <1>7, <2>2, <3>4, <3>6, <4>1 DEF OnePerLine, WaitingAt
      <4>5. JobOf(done[k]) # j
        BY <3>1, <4>4 DEF JobOf
      <4> QED BY <4>3, <4>5
    <3> QED BY <3>5, <3>6
  <2> QED BY <1>6, <2>1, <2>2
<1>15. {j} \in Promise!AtMostOne({j}) /\ {} \in Promise!AtMostOne(p)
       /\ \A k \in p : {k} \in Promise!AtMostOne(p)
  BY DEF Promise!AtMostOne
<1> HIDE DEF p, j
<1>16. CASE WaitingIn(sq') = WaitingIn(done) /\ RunningIn(sq', HeldIn(stack')) = {}
  <2>1. {} = ({j} \ {j}) \cup {} /\ p \cup {l \in {j} : l.periodic} = (p \ {}) \cup {l \in {j} : l.periodic}
    OBVIOUS
  <2>2. PromiseStep(p, {j}, p \cup {l \in {j} : l.periodic}, {})
    BY <1>15, <2>1 DEF PromiseStep
  <2> QED BY <1>10, <1>14, <1>16, <2>2 DEF p
<1>17. ASSUME NEW k \in WaitingAt(done), Eligible(done[k]),
              WaitingIn(sq') = WaitingIn(done) \ {JobOf(done[k])},
              RunningIn(sq', HeldIn(stack')) = {JobOf(done[k])}
       PROVE  PromiseStep(p, {j}, WaitingIn(sq'), RunningIn(sq', HeldIn(stack')))
  <2> DEFINE n == JobOf(done[k])
  <2>1. n \in p /\ (j.periodic => n # j)
    BY <1>14, <1>17
  <2> HIDE DEF n
  <2>2. {n} = ({j} \ {j}) \cup {n}
    OBVIOUS
  <2>3. (p \cup {l \in {j} : l.periodic}) \ {n} = (p \ {n}) \cup {l \in {j} : l.periodic}
    BY <2>1
  <2>4. PromiseStep(p, {j}, (p \cup {l \in {j} : l.periodic}) \ {n}, {n})
    BY <1>15, <2>1, <2>2, <2>3 DEF PromiseStep
  <2> QED BY <1>14, <1>17, <2>4 DEF n
<1> QED BY <1>9, <1>10, <1>16, <1>17 DEF StartsOne, p

(* As long as no command waits (MaxWaits = 0), the scheduler keeps what the *)
(* manual promises (JobQueue): CMD_Schedule submits a job, CMD_Deschedule   *)
(* cancels a group, and squeue_execute starts the jobs one after the other  *)
(* and puts the periodic ones back.                                         *)
THEOREM PromiseKept ==
  ASSUME MaxWaits = 0
  PROVE  Spec => KeepsPromise
<1>1. IInv => /\ Pending = WaitingIn(sq)
              /\ Running = RunningIn(sq, HeldIn(stack))
  <2> SUFFICES ASSUME IInv PROVE Pending = WaitingIn(sq) /\ Running = RunningIn(sq, HeldIn(stack))
    OBVIOUS
  <2>1. Running = RunningIn(sq, HeldIn(stack))
    BY RunningByName DEF Running, JobFrames, IInv, Consistent
  <2> QED BY <2>1 DEF Pending, WaitingIn, WaitingAt
<1>2. IInv' => /\ Pending' = WaitingIn(sq')
               /\ Running' = RunningIn(sq', HeldIn(stack'))
  <2> SUFFICES ASSUME IInv'
               PROVE  Pending' = WaitingIn(sq') /\ Running' = RunningIn(sq', HeldIn(stack'))
    OBVIOUS
  <2>1. PICK q \in Seq(Record), s \in Seq(Frame) :
          q = sq' /\ s = stack' /\ Distinct(q) /\ HeldIn(s) \subseteq Used(q)
    BY DEF IInv, Consistent
  <2>2. {JobOf(q[PosOf(q, s[f].rec)]) : f \in JobsIn(s)} = RunningIn(q, HeldIn(s))
    BY <2>1, RunningByName
  <2>3. Running' = RunningIn(sq', HeldIn(stack'))
    BY <2>1, <2>2 DEF Running, JobFrames
  <2> QED BY <2>3 DEF Pending, WaitingIn, WaitingAt
<1>3. Init => Promise!Init
  <2> SUFFICES ASSUME Init PROVE Promise!Init
    OBVIOUS
  <2>1. IInv /\ sq = <<>> /\ DOMAIN sq = {}
    BY InitHolds DEF Init
  <2> QED BY <1>1, <2>1 DEF Promise!Init, WaitingIn, WaitingAt, RunningIn
<1>4. KInv /\ KInv' /\ [Next]_vars => [Promise!Next]_Promise!jobVars
  <2> SUFFICES ASSUME KInv, KInv', [Next]_vars
               PROVE  PromiseStep(Pending, Running, Pending', Running')
    BY PromiseSteps
  <2>1. IInv /\ IInv'
    BY DEF KInv, JInv
  <2> SUFFICES PromiseStep(WaitingIn(sq), RunningIn(sq, HeldIn(stack)),
                           WaitingIn(sq'), RunningIn(sq', HeldIn(stack')))
    BY <1>1, <1>2, <2>1
  <2>2. CASE Quiet
    BY <2>2 DEF Quiet, SameRuns, PromiseStep
  <2>3. ASSUME NEW ms, NEW period, NEW id, ms \in Delays \cup Periods,
               period \in {0} \cup Periods, id \in Ids \cup {0}, CmdSchedule(ms, period, id)
        PROVE  PromiseStep(WaitingIn(sq), RunningIn(sq, HeldIn(stack)),
                           WaitingIn(sq'), RunningIn(sq', HeldIn(stack')))
    <3>1. PICK r : NewRecord(r, ms)
      BY <2>1, <2>3, ScheduleStep
    <3> QED BY <3>1, SchedulePromise
  <2> QED BY <2>1, <2>2, <2>3, Steps, ExecutePromise, DeschedulePromise, ReturnPromise
<1>5. Spec => []KInv
  BY KInvariance
<1> QED BY <1>3, <1>4, <1>5, PTL DEF Spec, KeepsPromise, Promise!Spec
=============================================================================
