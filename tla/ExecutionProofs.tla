---------------------------- MODULE ExecutionProofs ----------------------------
(***************************************************************************)
(* Proofs about Execution, for any windows, functions, limits and depth of *)
(* nesting: the types and bounds of the counters, that grabs, depths and   *)
(* uses are given back exactly once, that functions and windows live as    *)
(* long as a running function refers to them, and that Break leaves the    *)
(* functions it says.                                                      *)
(***************************************************************************)
EXTENDS Execution, FiniteSetTheorems, SequenceTheorems, WellFoundedInduction, TLAPS

(* Frames are counted from the bottom of the stack, where positions stay    *)
(* the same when frames are pushed and popped: among the lowest k frames,   *)
(* and in the whole stack.                                                  *)
Low(s, k, S) == Cardinality({p \in 1 .. k : s[Len(s) + 1 - p] \in S})
Num(s, S) == Low(s, Len(s), S)

One(b) == IF b THEN 1 ELSE 0

LEMMA LeastOf ==
  ASSUME NEW T, T \subseteq Nat, T # {}
  PROVE  Min(T) \in T
<1> DEFINE R == OpToRel(<, Nat)
<1>1. IsWellFoundedOn(R, Nat)
  BY NatLessThanWellFounded
<1>2. PICK x \in T : \A y \in T : ~ (<<y, x>> \in R)
  <2> HIDE DEF R
  <2> QED
    BY <1>1, WFMin
<1>3. \A y \in T : ~ (y < x)
  BY <1>2 DEF OpToRel
<1>4. \E z \in T : \A y \in T : z =< y
  BY <1>3
<1> QED
  BY <1>4, Zenon DEF Min

LEMMA PushAt ==
  ASSUME NEW F, NEW s \in Seq(F), NEW f \in F
  PROVE  /\ <<f>> \o s \in Seq(F)
         /\ Len(<<f>> \o s) = Len(s) + 1
         /\ DOMAIN (<<f>> \o s) = 1 .. Len(s) + 1
         /\ (<<f>> \o s)[1] = f
         /\ \A i \in DOMAIN s : (<<f>> \o s)[i + 1] = s[i]
         /\ \A i \in 2 .. Len(s) + 1 : i - 1 \in DOMAIN s /\ (<<f>> \o s)[i] = s[i - 1]
OBVIOUS

LEMMA PopAt ==
  ASSUME NEW F, NEW s \in Seq(F), s # <<>>
  PROVE  /\ Tail(s) \in Seq(F)
         /\ Len(Tail(s)) = Len(s) - 1 /\ Len(s) >= 1 /\ Len(s) \in Nat
         /\ DOMAIN Tail(s) = 1 .. Len(s) - 1
         /\ \A i \in DOMAIN Tail(s) : Tail(s)[i] = s[i + 1] /\ i + 1 \in DOMAIN s
         /\ s[1] \in F
         /\ s = <<s[1]>> \o Tail(s)
OBVIOUS

LEMMA LowType ==
  ASSUME NEW F, NEW s \in Seq(F), NEW k \in 0 .. Len(s), NEW S
  PROVE  Low(s, k, S) \in Nat
<1> DEFINE P == {p \in 1 .. k : s[Len(s) + 1 - p] \in S}
<1>1. IsFiniteSet(1 .. k)
  BY FS_Interval
<1>2. IsFiniteSet(P)
  BY <1>1, FS_Subset
<1> QED
  BY <1>2, FS_CardinalityType DEF Low

LEMMA NumType ==
  ASSUME NEW F, NEW s \in Seq(F), NEW S
  PROVE  Num(s, S) \in Nat
BY LowType DEF Num

LEMMA NumEmpty ==
  ASSUME NEW S
  PROVE  Num(<<>>, S) = 0
<1>1. {p \in 1 .. Len(<<>>) : <<>>[Len(<<>>) + 1 - p] \in S} = {}
  OBVIOUS
<1> QED
  BY <1>1, FS_EmptySet DEF Num, Low

LEMMA LowPush ==
  ASSUME NEW F, NEW s \in Seq(F), NEW f \in F, NEW k \in 0 .. Len(s), NEW S
  PROVE  Low(<<f>> \o s, k, S) = Low(s, k, S)
<1>1. PICK t : t = <<f>> \o s
  OBVIOUS
<1>2. Len(t) = Len(s) + 1 /\ \A i \in 2 .. Len(s) + 1 : t[i] = s[i - 1]
  BY <1>1, PushAt
<1>3. Len(s) \in Nat
  OBVIOUS
<1>4. ASSUME NEW p \in 1 .. k PROVE t[Len(t) + 1 - p] = s[Len(s) + 1 - p]
  <2>1. Len(t) + 1 - p \in 2 .. Len(s) + 1 /\ (Len(t) + 1 - p) - 1 = Len(s) + 1 - p
    BY <1>2, <1>3
  <2> QED
    BY <1>2, <2>1
<1>5. {p \in 1 .. k : t[Len(t) + 1 - p] \in S} = {p \in 1 .. k : s[Len(s) + 1 - p] \in S}
  BY <1>4
<1> QED
  BY <1>1, <1>5 DEF Low

LEMMA NumPush ==
  ASSUME NEW F, NEW s \in Seq(F), NEW f \in F, NEW S
  PROVE  Num(<<f>> \o s, S) = Num(s, S) + One(f \in S)
<1>1. PICK t : t = <<f>> \o s
  OBVIOUS
<1>2. Len(t) = Len(s) + 1 /\ t[1] = f /\ Len(s) \in Nat
  BY <1>1, PushAt
<1>3. PICK P : P = {p \in 1 .. Len(s) : t[Len(t) + 1 - p] \in S}
  OBVIOUS
<1>4. Cardinality(P) = Num(s, S)
  <2>1. Low(t, Len(s), S) = Low(s, Len(s), S)
    BY <1>1, <1>2, LowPush
  <2> QED
    BY <1>3, <2>1 DEF Low, Num
<1>5. IsFiniteSet(P)
  <2>1. IsFiniteSet(1 .. Len(s))
    BY <1>2, FS_Interval
  <2> QED
    BY <1>3, <2>1, FS_Subset
<1>6. Len(t) \notin P
  BY <1>2, <1>3
<1>7. {p \in 1 .. Len(t) : t[Len(t) + 1 - p] \in S} = IF f \in S THEN P \cup {Len(t)} ELSE P
  <2>1. ASSUME NEW p \in 1 .. Len(t)
        PROVE  p = Len(t) \/ p \in 1 .. Len(s)
    BY <1>2
  <2>2. t[Len(t) + 1 - Len(t)] = f /\ Len(t) \in 1 .. Len(t) /\ 1 .. Len(s) \subseteq 1 .. Len(t)
    BY <1>2
  <2> QED
    BY <1>3, <2>1, <2>2
<1>8. Cardinality(P \cup {Len(t)}) = Cardinality(P) + 1
  BY <1>5, <1>6, FS_AddElement
<1>9. Num(t, S) = Cardinality(IF f \in S THEN P \cup {Len(t)} ELSE P)
  BY <1>7 DEF Num, Low
<1>10. Num(s, S) \in Nat
  BY NumType
<1> QED
  BY <1>1, <1>4, <1>8, <1>9, <1>10 DEF One

LEMMA NumPop ==
  ASSUME NEW F, NEW s \in Seq(F), s # <<>>, NEW S
  PROVE  /\ Num(s, S) = Num(Tail(s), S) + One(s[1] \in S)
         /\ \A k \in 0 .. Len(s) - 1 : Low(Tail(s), k, S) = Low(s, k, S)
<1>1. PICK t, f : t = Tail(s) /\ f = s[1]
  OBVIOUS
<1>2. t \in Seq(F) /\ f \in F /\ s = <<f>> \o t /\ Len(t) = Len(s) - 1
  BY <1>1, PopAt
<1>3. Num(s, S) = Num(t, S) + One(f \in S)
  BY <1>2, NumPush
<1>4. ASSUME NEW k \in 0 .. Len(t) PROVE Low(t, k, S) = Low(s, k, S)
  BY <1>2, LowPush
<1> QED
  BY <1>1, <1>2, <1>3, <1>4

LEMMA LowSame ==
  ASSUME NEW F, NEW s \in Seq(F), NEW t \in Seq(F), Len(s) = Len(t), NEW S,
         \A i \in DOMAIN s : s[i] \in S <=> t[i] \in S
  PROVE  /\ Num(s, S) = Num(t, S)
         /\ \A k \in 0 .. Len(s) : Low(s, k, S) = Low(t, k, S)
<1>1. ASSUME NEW k \in 0 .. Len(s) PROVE Low(s, k, S) = Low(t, k, S)
  <2>1. ASSUME NEW p \in 1 .. k PROVE Len(s) + 1 - p \in DOMAIN s
    OBVIOUS
  <2>2. {p \in 1 .. k : s[Len(s) + 1 - p] \in S} = {p \in 1 .. k : t[Len(t) + 1 - p] \in S}
    BY <2>1
  <2> QED
    BY <2>2 DEF Low
<1>2. Len(s) \in 0 .. Len(s)
  OBVIOUS
<1> QED
  BY <1>1, <1>2 DEF Num

LEMMA NumLess ==
  ASSUME NEW F, NEW s \in Seq(F), NEW S, NEW T, \A i \in DOMAIN s : s[i] \in S => s[i] \in T
  PROVE  Num(s, S) <= Num(s, T)
<1> DEFINE P == {p \in 1 .. Len(s) : s[Len(s) + 1 - p] \in S}
           Q == {p \in 1 .. Len(s) : s[Len(s) + 1 - p] \in T}
<1>1. \A p \in 1 .. Len(s) : Len(s) + 1 - p \in DOMAIN s
  OBVIOUS
<1>2. P \subseteq Q
  BY <1>1
<1>3. IsFiniteSet(Q)
  <2>1. IsFiniteSet(1 .. Len(s))
    BY FS_Interval
  <2> QED
    BY <2>1, FS_Subset
<1> QED
  BY <1>2, <1>3, FS_Subset DEF Num, Low

LEMMA NumZero ==
  ASSUME NEW F, NEW s \in Seq(F), NEW S, Num(s, S) = 0
  PROVE  \A i \in DOMAIN s : s[i] \notin S
<1> DEFINE P == {p \in 1 .. Len(s) : s[Len(s) + 1 - p] \in S}
<1>1. IsFiniteSet(P)
  <2>1. IsFiniteSet(1 .. Len(s))
    BY FS_Interval
  <2> QED
    BY <2>1, FS_Subset
<1>2. P = {}
  BY <1>1, FS_EmptySet DEF Num, Low
<1>3. ASSUME NEW i \in DOMAIN s, s[i] \in S PROVE FALSE
  <2>1. Len(s) + 1 - i \in 1 .. Len(s) /\ Len(s) + 1 - (Len(s) + 1 - i) = i
    OBVIOUS
  <2>2. Len(s) + 1 - i \in P
    BY <1>3, <2>1
  <2> QED
    BY <1>2, <2>2
<1> QED
  BY <1>3

(* Frames that each lie on a frame of another kind are not more than those. *)
LEMMA NumAbove ==
  ASSUME NEW F, NEW s \in Seq(F), NEW S, NEW T,
         \A i \in DOMAIN s : s[i] \in S => i + 1 \in DOMAIN s /\ s[i + 1] \in T
  PROVE  Num(s, S) <= Num(s, T)
<1>1. PICK P : P = {p \in 1 .. Len(s) : s[Len(s) + 1 - p] \in S}
  OBVIOUS
<1>2. PICK Q : Q = {p \in 1 .. Len(s) : s[Len(s) + 1 - p] \in T}
  OBVIOUS
<1>3. IsFiniteSet(P) /\ IsFiniteSet(Q)
  <2>1. IsFiniteSet(1 .. Len(s))
    BY FS_Interval
  <2> QED
    BY <1>1, <1>2, <2>1, FS_Subset
<1>4. PICK f : f = [p \in P |-> p - 1]
  OBVIOUS
<1>5. ASSUME NEW p \in P PROVE p - 1 \in Q
  <2>1. Len(s) + 1 - p \in DOMAIN s /\ s[Len(s) + 1 - p] \in S
    BY <1>1
  <2>2. Len(s) + 1 - p + 1 \in DOMAIN s /\ s[Len(s) + 1 - p + 1] \in T
    BY <2>1
  <2>3. Len(s) + 1 - p + 1 = Len(s) + 1 - (p - 1) /\ p - 1 \in 1 .. Len(s)
    BY <1>1, <2>2
  <2> QED
    BY <1>2, <2>2, <2>3
<1>6. f \in Injection(P, Q)
  <2>1. f \in [P -> Q]
    BY <1>4, <1>5
  <2>2. \A a, b \in P : f[a] = f[b] => a = b
    BY <1>1, <1>4
  <2> QED
    BY <2>1, <2>2 DEF Injection, IsInjective
<1>7. Cardinality(P) <= Cardinality(Q)
  BY <1>3, <1>6, FS_Injection
<1> QED
  BY <1>1, <1>2, <1>7 DEF Num, Low

LEMMA NumIs ==
  ASSUME NEW F, NEW s \in Seq(F), NEW S
  PROVE  Num(s, S) = Cardinality({i \in DOMAIN s : s[i] \in S})
<1>1. PICK P : P = {p \in 1 .. Len(s) : s[Len(s) + 1 - p] \in S}
  OBVIOUS
<1>2. PICK Q : Q = {i \in DOMAIN s : s[i] \in S}
  OBVIOUS
<1>3. IsFiniteSet(P)
  <2>1. IsFiniteSet(1 .. Len(s))
    BY FS_Interval
  <2> QED
    BY <1>1, <2>1, FS_Subset
<1>4. PICK f : f = [p \in P |-> Len(s) + 1 - p]
  OBVIOUS
<1>5. f \in [P -> Q] /\ \A a, b \in P : f[a] = f[b] => a = b
  BY <1>1, <1>2, <1>4
<1>6. ASSUME NEW i \in Q PROVE \E p \in P : f[p] = i
  <2>1. Len(s) + 1 - i \in P /\ Len(s) + 1 - (Len(s) + 1 - i) = i
    BY <1>1, <1>2
  <2> QED
    BY <1>4, <2>1
<1>7. f \in Injection(P, Q) /\ f \in Surjection(P, Q)
  BY <1>5, <1>6 DEF Injection, IsInjective, Surjection
<1>8. Cardinality(P) = Cardinality(Q)
  BY <1>3, <1>7, FS_Surjection
<1> QED
  BY <1>1, <1>2, <1>8 DEF Num, Low

LEMMA NumTail ==
  ASSUME NEW F, NEW s \in Seq(F), s # <<>>, NEW S
  PROVE  /\ s[1] \notin S => Num(Tail(s), S) = Num(s, S)
         /\ s[1] \in S => Num(Tail(s), S) = Num(s, S) - 1 /\ Num(s, S) >= 1
<1>1. Num(s, S) = Num(Tail(s), S) + One(s[1] \in S)
  BY NumPop
<1>2. Num(Tail(s), S) \in Nat
  <2>1. Tail(s) \in Seq(F)
    BY PopAt
  <2> QED
    BY <2>1, NumType
<1> QED
  BY <1>1, <1>2 DEF One

LEMMA NumCons ==
  ASSUME NEW F, NEW s \in Seq(F), NEW f \in F, NEW S
  PROVE  /\ f \notin S => Num(<<f>> \o s, S) = Num(s, S)
         /\ f \in S => Num(<<f>> \o s, S) = Num(s, S) + 1
<1>1. Num(<<f>> \o s, S) = Num(s, S) + One(f \in S)
  BY NumPush
<1>2. Num(s, S) \in Nat
  BY NumType
<1> QED
  BY <1>1, <1>2 DEF One
---------------------------------------------------------------------------
(* The frames that each counter counts *)
Commands == {f \in Frame : f.at \in {"call", "back"}}
Owners == {f \in Commands : f.own}
Activations == {f \in Frame : f.at = "func"}
ActivationsOf(g) == {f \in Activations : f.fn = g}
Readers == {f \in Frame : f.at = "read"}
Streams == {f \in Frame : f.at \in {"read", "pipe"}}
Presses == {f \in Frame : f.at = "press"}
Regrabs == {f \in Frame : f.at = "wait" /\ f.regrab}

(* Each function was called by a command, and for each Wait that has the    *)
(* pointer to grab again a function below it had it grabbed.                *)
Shaped(s) ==
  /\ s \in Seq(Frame)
  /\ \A i \in DOMAIN s : s[i].at = "func" => i + 1 \in DOMAIN s /\ s[i + 1].at = "back"
  /\ \A k \in 0 .. Len(s) : Low(s, k, Regrabs) <= Low(s, k, Activations)

Breaks == -1 .. MaxBreak

CommandsCounted(s, d, r) ==
  /\ d = Num(s, Commands) /\ d <= MAX_FUNCTION_DEPTH
  /\ r \in Seq(Breaks) /\ Len(r) = Num(s, Owners)

FunctionsCounted(s, fs, d, executing) ==
  /\ d = Num(s, Activations) /\ executing = (d > 0)
  /\ \A i \in DOMAIN s : s[i].at = "func" => s[i].fn \in DOMAIN fs
  /\ \A g \in DOMAIN fs : fs[g].use_depth = Num(s, ActivationsOf(g))

ReadsCounted(s, d) == d = Num(s, Readers) /\ d <= MAX_READ_DEPTH

Pointer ==
  [count : [Contexts -> Nat], held : BOOLEAN, read_depth : Nat, need_ungrab : BOOLEAN]

(* GrabIsReal and the statics of cursor_control *)
Consistent(p) ==
  /\ p \in Pointer
  /\ p.count["all"] = p.count["normal"] + p.count["busy"] + p.count["passive"]
  /\ p.count["all"] > p.count["passive"] => p.held
  /\ p.count["all"] = 0 => ~p.held
  /\ p.need_ungrab <=> p.read_depth > 0
  /\ p.count["busy"] = One(p.need_ungrab)

GrabsCounted(s, p) ==
  /\ Consistent(p)
  /\ p.count["passive"] = Num(s, Presses)
  /\ p.count["normal"] + Num(s, Regrabs) <= Num(s, Activations)
  /\ p.read_depth <= Num(s, Streams)

(* FunctionWindowsLive *)
WindowsLive(s, dead) ==
  dead # {} =>
    \A j \in DOMAIN s : s[j].at = "func" =>
      \A i \in 1 .. j : s[i].fw \notin dead /\ ToSet(s[i].wins) \cap dead = {}

FunctionType(fs) ==
  \A g \in DOMAIN fs :
    /\ g \in Funcs /\ fs[g] \in [items : Seq(Conds), use_depth : Nat]
    /\ Len(fs[g].items) <= MaxItems

(* What does not change when commands are called and return *)
Settled(s, fs, d, executing, p, c, dead) ==
  /\ Shaped(s)
  /\ FunctionsCounted(s, fs, d, executing)
  /\ ReadsCounted(s, c) /\ GrabsCounted(s, p) /\ WindowsLive(s, dead)

Scalars ==
  /\ FunctionType(functions) /\ last_added \in DOMAIN functions \cup {Nil}
  /\ busy_read \in BOOLEAN /\ undefined \in BOOLEAN
  /\ scheduled \subseteq Windows /\ freed \subseteq Windows

IInv ==
  /\ Settled(stack, functions, depth, is_executing_complex_function, pointer,
             curr_read_depth, freed)
  /\ CommandsCounted(stack, func_depth, rcs)
  /\ Scalars
---------------------------------------------------------------------------
(* misc.c and cursor_control *)

WithCount(p, c, n, a) == [p EXCEPT !.count[c] = n, !.count["all"] = a]

LEMMA CountStep ==
  ASSUME NEW p, Consistent(p), NEW c \in {"normal", "busy", "passive"}, NEW n \in Nat,
         NEW a \in Nat, NEW q, q = WithCount(p, c, n, a)
  PROVE  /\ q \in Pointer /\ q.count[c] = n /\ q.count["all"] = a
         /\ \A x \in Contexts \ {c, "all"} : q.count[x] = p.count[x]
         /\ q.held = p.held /\ q.read_depth = p.read_depth /\ q.need_ungrab = p.need_ungrab
<1>1. p \in Pointer /\ c \in Contexts /\ "all" \in Contexts
  BY DEF Consistent, Contexts
<1>2. q = [p EXCEPT !.count = [[p.count EXCEPT ![c] = n] EXCEPT !["all"] = a]]
  BY <1>1 DEF Pointer, WithCount
<1>3. PICK k : k = [[p.count EXCEPT ![c] = n] EXCEPT !["all"] = a]
  OBVIOUS
<1>4. /\ k \in [Contexts -> Nat] /\ k[c] = n /\ k["all"] = a
      /\ \A x \in Contexts \ {c, "all"} : k[x] = p.count[x]
  BY <1>1, <1>3 DEF Pointer
<1> QED
  BY <1>1, <1>2, <1>3, <1>4 DEF Pointer

(* the effect of GrabEm and of UngrabEm on consistent counters *)
Others(p, q, c) ==
  \A x \in {"normal", "busy", "passive"} \ {c} : q.count[x] = p.count[x]
SameCursor(p, q) == q.read_depth = p.read_depth /\ q.need_ungrab = p.need_ungrab

(* consistent but for what the cursor needs *)
Added(p) ==
  /\ p \in Pointer
  /\ p.count["all"] = p.count["normal"] + p.count["busy"] + p.count["passive"]
  /\ p.count["all"] > p.count["passive"] => p.held
  /\ p.count["all"] = 0 => ~p.held

LEMMA GrabFacts ==
  ASSUME NEW p, Consistent(p), NEW c \in {"normal", "busy", "passive"}, NEW r \in GrabEm(p, c)
  PROVE  /\ Added(r[2]) /\ r[1] \in BOOLEAN
         /\ Others(p, r[2], c) /\ SameCursor(p, r[2])
         /\ r[2].count[c] = p.count[c] + One(r[1])
         /\ ~r[1] => r[2] = p
         /\ c = "passive" => r[1]
<1>1. p \in Pointer /\ p.count \in [Contexts -> Nat] /\ c \in Contexts /\ "all" \in Contexts
      /\ "normal" \in Contexts /\ "busy" \in Contexts /\ "passive" \in Contexts
  BY DEF Consistent, Contexts, Pointer
<1>0. PICK n, a : n = p.count[c] + 1 /\ a = p.count["all"] + 1
  OBVIOUS
<1>2. PICK q : q = WithCount(p, c, n, a)
  OBVIOUS
<1>3. n \in Nat /\ a \in Nat
  BY <1>0, <1>1
<1>4. /\ q \in Pointer /\ q.count[c] = p.count[c] + 1 /\ q.count["all"] = p.count["all"] + 1
      /\ \A x \in Contexts \ {c, "all"} : q.count[x] = p.count[x]
      /\ q.held = p.held /\ q.read_depth = p.read_depth /\ q.need_ungrab = p.need_ungrab
  <2>1. /\ q \in Pointer /\ q.count[c] = n /\ q.count["all"] = a
        /\ \A x \in Contexts \ {c, "all"} : q.count[x] = p.count[x]
        /\ q.held = p.held /\ q.read_depth = p.read_depth /\ q.need_ungrab = p.need_ungrab
    BY ONLY Consistent(p), c \in {"normal", "busy", "passive"}, <1>2, <1>3, CountStep
  <2> QED
    BY <1>0, <2>1
<1>5. Others(p, q, c) /\ SameCursor(p, q)
  <2>1. {"normal", "busy", "passive"} \ {c} \subseteq Contexts \ {c, "all"}
    BY DEF Contexts
  <2> QED
    BY ONLY <1>4, <2>1 DEF Others, SameCursor
<1>6. q.count["all"] = q.count["normal"] + q.count["busy"] + q.count["passive"]
  BY <1>1, <1>4, <1>5, SMTT(30) DEF Consistent, Others
<1>7. CASE c = "passive" \/ p.count["all"] > p.count["passive"]
  <2>1. r = <<TRUE, q>>
    BY <1>0, <1>2, <1>7 DEF GrabEm, WithCount
  <2>2. r[1] = TRUE /\ r[2] = q
    BY <2>1
  <2>3. Added(q)
    BY <1>1, <1>4, <1>5, <1>6, <1>7 DEF Added, Consistent, Others
  <2> QED
    BY <1>4, <1>5, <2>2, <2>3 DEF One
<1>8. CASE ~(c = "passive" \/ p.count["all"] > p.count["passive"])
  <2>1. PICK h : h = [q EXCEPT !.held = TRUE]
    OBVIOUS
  <2>2. r = <<TRUE, h>> \/ r = <<FALSE, p>>
    BY <1>0, <1>2, <1>8, <2>1 DEF GrabEm, WithCount
  <2>3. /\ h \in Pointer /\ h.count = q.count /\ h.held = TRUE
        /\ h.read_depth = q.read_depth /\ h.need_ungrab = q.need_ungrab
    BY <1>4, <2>1 DEF Pointer
  <2>4. CASE r = <<TRUE, h>>
    <3>1. r[1] = TRUE /\ r[2] = h
      BY <2>4
    <3>2. Added(h)
      BY <1>1, <1>4, <1>6, <2>3 DEF Added
    <3> QED
      BY <1>4, <1>5, <1>8, <2>3, <3>1, <3>2 DEF One, Others, SameCursor
  <2>5. CASE r = <<FALSE, p>>
    <3>1. r[1] = FALSE /\ r[2] = p
      BY <2>5
    <3>2. Others(p, p, c) /\ SameCursor(p, p) /\ Added(p)
      BY <1>1 DEF Others, SameCursor, Added, Consistent
    <3>3. p.count[c] = p.count[c] + One(FALSE)
      BY <1>1 DEF One
    <3> QED
      BY <1>8, <3>1, <3>2, <3>3
  <2> QED
    BY <2>2, <2>4, <2>5
<1> QED
  BY <1>7, <1>8

LEMMA UngrabFacts ==
  ASSUME NEW p, Consistent(p), NEW c \in {"normal", "busy", "passive"}, NEW q, q = UngrabEm(p, c)
  PROVE  /\ Added(q) /\ Others(p, q, c) /\ SameCursor(p, q)
         /\ q.count[c] = IF p.count[c] > 0 THEN p.count[c] - 1 ELSE 0
<1>1. p \in Pointer /\ p.count \in [Contexts -> Nat] /\ c \in Contexts /\ "all" \in Contexts
      /\ "normal" \in Contexts /\ "busy" \in Contexts /\ "passive" \in Contexts
  BY DEF Consistent, Contexts, Pointer
<1>2. p.count[c] \in Nat /\ p.count["all"] \in Nat
  BY <1>1
<1>3. p.count[c] > 0 => p.count["all"] > 0
  BY <1>1 DEF Consistent
<1>4. CASE p.count[c] > 0
  <2>0. PICK n, a : n = p.count[c] - 1 /\ a = p.count["all"] - 1
    OBVIOUS
  <2>1. PICK k : k = WithCount(p, c, n, a)
    OBVIOUS
  <2>2. n \in Nat /\ a \in Nat
    BY <1>2, <1>3, <1>4, <2>0
  <2>3. /\ k \in Pointer /\ k.count[c] = p.count[c] - 1 /\ k.count["all"] = p.count["all"] - 1
        /\ \A x \in Contexts \ {c, "all"} : k.count[x] = p.count[x]
        /\ k.held = p.held /\ k.read_depth = p.read_depth /\ k.need_ungrab = p.need_ungrab
    BY <2>0, <2>1, <2>2, CountStep
  <2>4. q = [k EXCEPT !.held = (k.held /\ k.count["all"] > 0)]
    BY <1>3, <1>4, <2>0, <2>1 DEF UngrabEm, IsGrabbed, WithCount
  <2>5. PICK h \in BOOLEAN : h = (k.held /\ k.count["all"] > 0)
    OBVIOUS
  <2>6. k.held \in BOOLEAN
    BY <2>3 DEF Pointer
  <2>7. /\ q \in Pointer /\ q.count = k.count /\ q.held = h
        /\ q.read_depth = k.read_depth /\ q.need_ungrab = k.need_ungrab
    BY <2>3, <2>4, <2>5, <2>6 DEF Pointer
  <2>8. Others(p, q, c) /\ SameCursor(p, q)
    BY <2>3, <2>7 DEF Others, SameCursor, Contexts
  <2>9. q.count["all"] = q.count["normal"] + q.count["busy"] + q.count["passive"]
    BY <1>1, <2>3, <2>7, <2>8 DEF Consistent, Others
  <2>10. k.count["passive"] \in Nat /\ k.count["all"] \in Nat
    BY <2>3 DEF Pointer, Contexts
  <2>11. k.count["all"] > k.count["passive"] => k.held
    BY <1>1, <2>3 DEF Consistent, Contexts
  <2>12. (k.held /\ k.count["all"] > 0) <=> h
    BY <2>5, <2>6
  <2>13. q.count["all"] > q.count["passive"] => q.held
    <3>1. k.count["all"] > k.count["passive"] => k.count["all"] > 0
      BY <2>10
    <3>2. k.count["all"] > k.count["passive"] => h
      BY <2>11, <2>12, <3>1
    <3> QED
      BY <2>7, <3>2
  <2>14. q.count["all"] = 0 => ~q.held
    <3>1. k.count["all"] = 0 => ~(k.count["all"] > 0)
      BY <2>10
    <3>2. k.count["all"] = 0 => ~h
      BY <2>12, <3>1
    <3> QED
      BY <2>7, <3>2
  <2> QED
    BY <1>4, <2>3, <2>7, <2>8, <2>9, <2>13, <2>14 DEF Added
<1>5. CASE ~(p.count[c] > 0)
  <2>1. q = p /\ p.count[c] = 0
    BY <1>2, <1>5 DEF UngrabEm, IsGrabbed
  <2> QED
    BY <1>1, <1>5, <2>1 DEF Added, Others, SameCursor, Consistent
<1> QED
  BY <1>4, <1>5

WithCursor(t, n, d) == [t EXCEPT !.need_ungrab = n, !.read_depth = d]

LEMMA CursorStep ==
  ASSUME NEW t, Added(t), NEW n \in BOOLEAN, NEW d \in Nat, n <=> d > 0,
         t.count["busy"] = One(n), NEW q, q = WithCursor(t, n, d)
  PROVE  Consistent(q) /\ q.count = t.count /\ q.read_depth = d
<1>1. /\ q \in Pointer /\ q.count = t.count /\ q.held = t.held
      /\ q.need_ungrab = n /\ q.read_depth = d
  BY DEF Added, Pointer, WithCursor
<1> QED
  BY <1>1 DEF Added, Consistent

LEMMA ConsistentAgain ==
  ASSUME NEW p, Consistent(p), NEW q, Added(q), SameCursor(p, q), q.count["busy"] = p.count["busy"]
  PROVE  Consistent(q)
BY DEF Consistent, Added, SameCursor

LEMMA BusyOnFacts ==
  ASSUME NEW p, Consistent(p), NEW q \in BusyOn(p)
  PROVE  /\ Consistent(q)
         /\ q.count["normal"] = p.count["normal"] /\ q.count["passive"] = p.count["passive"]
         /\ q.read_depth <= p.read_depth + 1
<1>1. p \in Pointer /\ p.read_depth \in Nat /\ p.need_ungrab \in BOOLEAN /\ Added(p)
  BY DEF Consistent, Pointer, Added
<1>2. CASE ~busy_read /\ ~p.need_ungrab
  <2>1. q = p
    BY <1>2 DEF BusyOn
  <2> QED
    BY <1>1, <2>1
<1>3. CASE (busy_read \/ p.need_ungrab) /\ p.read_depth = 0
  <2>1. p.need_ungrab = FALSE /\ p.count["busy"] = 0
    BY <1>1, <1>3 DEF Consistent, One
  <2>2. PICK r \in GrabEm(p, "busy") :
          LET t == [r[2] EXCEPT !.need_ungrab = @ \/ r[1]]
          IN q = IF t.need_ungrab THEN [t EXCEPT !.read_depth = @ + 1] ELSE t
    BY <1>3 DEF BusyOn
  <2>3. PICK u, b : u = r[2] /\ b = r[1]
    OBVIOUS
  <2>4. /\ Added(u) /\ b \in BOOLEAN /\ Others(p, u, "busy") /\ SameCursor(p, u)
        /\ u.count["busy"] = p.count["busy"] + One(b)
    BY <2>3, GrabFacts
  <2>5. PICK t : t = [u EXCEPT !.need_ungrab = u.need_ungrab \/ b]
    OBVIOUS
  <2>6. u \in Pointer /\ u.need_ungrab = FALSE /\ u.read_depth = 0
    BY <1>3, <2>1, <2>4 DEF Added, SameCursor
  <2>7. t = [u EXCEPT !.need_ungrab = b] /\ t.need_ungrab = b /\ t.read_depth = 0
    BY <2>4, <2>5, <2>6 DEF Pointer
  <2>8. q = IF b THEN [t EXCEPT !.read_depth = 1] ELSE t
    <3>1. q = IF t.need_ungrab THEN [t EXCEPT !.read_depth = @ + 1] ELSE t
      BY <2>2, <2>3, <2>5
    <3> QED
      BY <2>7, <3>1
  <2>9. PICK d : d = IF b THEN 1 ELSE 0
    OBVIOUS
  <2>10. d \in Nat /\ (b <=> d > 0) /\ d <= p.read_depth + 1
    BY <1>1, <2>4, <2>9
  <2>11. q = WithCursor(u, b, d)
    <3>1. CASE b
      BY <2>7, <2>8, <2>9, <3>1 DEF WithCursor
    <3>2. CASE ~b
      BY <2>6, <2>7, <2>8, <2>9, <3>2 DEF Pointer, WithCursor
    <3> QED
      BY <3>1, <3>2
  <2>12. u.count["busy"] = One(b)
    BY <2>1, <2>4 DEF One
  <2>13. Consistent(q) /\ q.count = u.count /\ q.read_depth = d
    BY <2>4, <2>10, <2>11, <2>12, CursorStep
  <2> QED
    BY <2>4, <2>10, <2>13 DEF Others
<1>4. CASE p.read_depth # 0
  <2>1. p.need_ungrab = TRUE /\ p.count["busy"] = One(TRUE)
    <3>1. p.need_ungrab
      BY <1>1, <1>4 DEF Consistent
    <3> QED
      BY <1>1, <3>1 DEF Consistent
  <2>2. q = [p EXCEPT !.read_depth = p.read_depth + 1]
    BY <1>4, <2>1 DEF BusyOn
  <2>3. q = WithCursor(p, TRUE, p.read_depth + 1)
    BY <1>1, <2>1, <2>2 DEF Pointer, WithCursor
  <2>4. PICK d : d = p.read_depth + 1
    OBVIOUS
  <2>5. d \in Nat /\ d > 0
    BY <1>1, <2>4
  <2>6. Consistent(q) /\ q.count = p.count /\ q.read_depth = d
    <3>1. PICK n \in BOOLEAN : n = TRUE
      OBVIOUS
    <3>2. (n <=> d > 0) /\ p.count["busy"] = One(n) /\ q = WithCursor(p, n, d)
      BY <2>1, <2>3, <2>4, <2>5, <3>1
    <3> QED
      BY <1>1, <2>5, <3>2, CursorStep
  <2> QED
    BY <1>1, <2>4, <2>6
<1> QED
  BY <1>2, <1>3, <1>4

LEMMA BusyOffFacts ==
  ASSUME NEW p, Consistent(p), NEW q, q = BusyOff(p)
  PROVE  /\ Consistent(q)
         /\ q.count["normal"] = p.count["normal"] /\ q.count["passive"] = p.count["passive"]
         /\ q.read_depth = 0 \/ q.read_depth = p.read_depth - 1
<1>1. p \in Pointer /\ p.read_depth \in Nat /\ p.need_ungrab \in BOOLEAN /\ Added(p)
  BY DEF Consistent, Pointer, Added
<1>2. CASE ~p.need_ungrab
  <2>1. q = p /\ p.read_depth = 0
    BY <1>1, <1>2 DEF BusyOff, Consistent
  <2> QED
    BY <1>1, <2>1
<1>3. CASE p.need_ungrab /\ (p.read_depth = 1 \/ ~busy_read)
  <2>1. PICK u : u = UngrabEm(p, "busy")
    OBVIOUS
  <2>2. /\ Added(u) /\ Others(p, u, "busy") /\ SameCursor(p, u) /\ u.count["busy"] = 0
    <3>1. p.count["busy"] = 1
      BY <1>3 DEF Consistent, One
    <3> QED
      BY <2>1, <3>1, UngrabFacts
  <2>3. q = WithCursor(u, FALSE, 0)
    BY <1>3, <2>1 DEF BusyOff, WithCursor
  <2>4. u.count["busy"] = One(FALSE)
    BY <2>2 DEF One
  <2>5. Consistent(q) /\ q.count = u.count /\ q.read_depth = 0
    <3>1. PICK n \in BOOLEAN, d \in Nat : n = FALSE /\ d = 0
      OBVIOUS
    <3>2. (n <=> d > 0) /\ u.count["busy"] = One(n) /\ q = WithCursor(u, n, d)
      <4>1. ~n /\ ~(d > 0)
        BY <3>1
      <4>2. u.count["busy"] = One(n)
        BY <2>4, <3>1
      <4> QED
        BY <2>3, <3>1, <4>1, <4>2
    <3>3. Consistent(q) /\ q.count = u.count /\ q.read_depth = d
      BY <2>2, <3>2, CursorStep
    <3> QED
      BY <3>1, <3>3
  <2> QED
    BY <2>2, <2>5 DEF Others
<1>4. CASE p.need_ungrab /\ ~(p.read_depth = 1 \/ ~busy_read)
  <2>1. PICK d : d = p.read_depth - 1
    OBVIOUS
  <2>2. d \in Nat /\ d > 0
    BY <1>1, <1>4, <2>1 DEF Consistent
  <2>3. q = WithCursor(p, TRUE, d)
    <3>1. q = [p EXCEPT !.read_depth = d] /\ p.need_ungrab = TRUE
      BY <1>1, <1>4, <2>1 DEF BusyOff
    <3> QED
      BY <1>1, <3>1 DEF Pointer, WithCursor
  <2>4. p.count["busy"] = One(TRUE)
    BY <1>4 DEF Consistent, One
  <2>5. Consistent(q) /\ q.count = p.count /\ q.read_depth = d
    <3>1. PICK n \in BOOLEAN : n = TRUE
      OBVIOUS
    <3>2. (n <=> d > 0) /\ p.count["busy"] = One(n) /\ q = WithCursor(p, n, d)
      BY <2>2, <2>3, <2>4, <3>1
    <3> QED
      BY <1>1, <2>2, <3>2, CursorStep
  <2> QED
    BY <2>1, <2>5
<1> QED
  BY <1>2, <1>3, <1>4
---------------------------------------------------------------------------
(* Pushing and popping, one part of the invariant at a time *)

LEMMA ShapedPush ==
  ASSUME NEW s, Shaped(s), NEW f \in Frame, f.at = "func" => s # <<>> /\ s[1].at = "back",
         f \in Regrabs => Num(s, Regrabs) + 1 <= Num(s, Activations)
  PROVE  Shaped(<<f>> \o s)
<1>1. PICK t : t = <<f>> \o s
  OBVIOUS
<1>2. s \in Seq(Frame) /\ Len(s) \in Nat /\ DOMAIN s = 1 .. Len(s)
  BY DEF Shaped
<1>3. /\ t \in Seq(Frame) /\ Len(t) = Len(s) + 1 /\ DOMAIN t = 1 .. Len(s) + 1 /\ t[1] = f
      /\ \A i \in 2 .. Len(s) + 1 : i - 1 \in DOMAIN s /\ t[i] = s[i - 1]
      /\ \A i \in DOMAIN s : t[i + 1] = s[i]
  BY <1>1, <1>2, PushAt
<1>4. ASSUME NEW i \in DOMAIN t, t[i].at = "func"
      PROVE  i + 1 \in DOMAIN t /\ t[i + 1].at = "back"
  <2>1. CASE i = 1
    <3>1. s # <<>> /\ s[1].at = "back"
      BY <1>3, <1>4, <2>1
    <3>2. 1 \in DOMAIN s /\ t[2] = s[1]
      BY <1>2, <1>3, <3>1
    <3> QED
      BY <1>2, <1>3, <2>1, <3>1, <3>2
  <2>2. CASE i # 1
    <3>1. i - 1 \in DOMAIN s /\ t[i] = s[i - 1]
      BY <1>3, <2>2
    <3>2. i \in DOMAIN s /\ s[i].at = "back"
      BY <1>3, <1>4, <3>1 DEF Shaped
    <3> QED
      BY <1>2, <1>3, <3>2
  <2> QED
    BY <2>1, <2>2
<1>5. ASSUME NEW k \in 0 .. Len(t) PROVE Low(t, k, Regrabs) <= Low(t, k, Activations)
  <2>1. CASE k \in 0 .. Len(s)
    <3>1. Low(t, k, Regrabs) = Low(s, k, Regrabs) /\ Low(t, k, Activations) = Low(s, k, Activations)
      BY <1>1, <1>2, <2>1, LowPush
    <3> QED
      BY <2>1, <3>1 DEF Shaped
  <2>2. CASE k = Len(t)
    <3>1. /\ Num(t, Regrabs) = Num(s, Regrabs) + One(f \in Regrabs)
          /\ Num(t, Activations) = Num(s, Activations) + One(f \in Activations)
      BY <1>1, <1>2, NumPush
    <3>2. Num(s, Regrabs) \in Nat /\ Num(s, Activations) \in Nat
      BY <1>2, NumType
    <3>3. Num(s, Regrabs) <= Num(s, Activations)
      BY <1>2 DEF Num, Shaped
    <3>4. Num(t, Regrabs) <= Num(t, Activations)
      BY <3>1, <3>2, <3>3 DEF One
    <3> QED
      BY <2>2, <3>4 DEF Num
  <2> QED
    BY <1>2, <1>3, <2>1, <2>2
<1> QED
  BY <1>1, <1>3, <1>4, <1>5 DEF Shaped

LEMMA ShapedPop ==
  ASSUME NEW s, Shaped(s), s # <<>>
  PROVE  Shaped(Tail(s))
<1>1. PICK t : t = Tail(s)
  OBVIOUS
<1>2. s \in Seq(Frame) /\ Len(s) \in Nat
  BY DEF Shaped
<1>3. /\ t \in Seq(Frame) /\ Len(t) = Len(s) - 1 /\ DOMAIN t = 1 .. Len(s) - 1
      /\ \A i \in DOMAIN t : t[i] = s[i + 1] /\ i + 1 \in DOMAIN s
  BY <1>1, <1>2, PopAt
<1>4. ASSUME NEW i \in DOMAIN t, t[i].at = "func"
      PROVE  i + 1 \in DOMAIN t /\ t[i + 1].at = "back"
  <2>1. s[i + 1].at = "func" /\ i + 1 \in DOMAIN s
    BY <1>3, <1>4
  <2>2. (i + 1) + 1 \in DOMAIN s /\ s[(i + 1) + 1].at = "back"
    BY <2>1 DEF Shaped
  <2>3. i + 1 \in DOMAIN t
    BY <1>2, <1>3, <2>2
  <2> QED
    BY <1>3, <2>2, <2>3
<1>5. ASSUME NEW k \in 0 .. Len(t) PROVE Low(t, k, Regrabs) <= Low(t, k, Activations)
  <2>1. k \in 0 .. Len(s) - 1 /\ k \in 0 .. Len(s)
    BY <1>2, <1>3
  <2>2. Low(t, k, Regrabs) = Low(s, k, Regrabs) /\ Low(t, k, Activations) = Low(s, k, Activations)
    BY <1>1, <1>2, <2>1, NumPop
  <2> QED
    BY <2>1, <2>2 DEF Shaped
<1> QED
  BY <1>1, <1>3, <1>4, <1>5 DEF Shaped

(* the window of a frame above s: not freed, or that of the frame below it *)
Safe(fw, s, dead) == fw \notin dead \/ (s # <<>> /\ fw = s[1].fw)

LEMMA WindowsPush ==
  ASSUME NEW s \in Seq(Frame), NEW dead, WindowsLive(s, dead), NEW f \in Frame,
         f.at = "func" => f.fw \notin dead,
         Safe(f.fw, s, dead), ToSet(f.wins) \cap dead = {}
  PROVE  WindowsLive(<<f>> \o s, dead)
<1>1. PICK t : t = <<f>> \o s
  OBVIOUS
<1>2. /\ DOMAIN t = 1 .. Len(s) + 1 /\ t[1] = f /\ Len(s) \in Nat
      /\ \A i \in 2 .. Len(s) + 1 : i - 1 \in DOMAIN s /\ t[i] = s[i - 1]
  BY <1>1, PushAt
<1>3. ASSUME dead # {}, NEW j \in DOMAIN t, t[j].at = "func", NEW i \in 1 .. j
      PROVE  t[i].fw \notin dead /\ ToSet(t[i].wins) \cap dead = {}
  <2>1. CASE i = 1
    <3>1. CASE f.fw \notin dead
      BY <1>2, <2>1, <3>1
    <3>2. CASE s # <<>> /\ f.fw = s[1].fw /\ f.at # "func"
      <4>1. j - 1 \in DOMAIN s /\ s[j - 1].at = "func" /\ 1 \in 1 .. j - 1
        BY <1>2, <1>3, <3>2
      <4>2. s[1].fw \notin dead
        BY <1>3, <4>1 DEF WindowsLive
      <4> QED
        BY <1>2, <2>1, <3>2, <4>2
    <3> QED
      BY <3>1, <3>2 DEF Safe
  <2>2. CASE i # 1
    <3>1. /\ j - 1 \in DOMAIN s /\ t[j] = s[j - 1] /\ t[i] = s[i - 1]
          /\ i - 1 \in 1 .. j - 1
      BY <1>2, <2>2
    <3>2. s[j - 1].at = "func"
      BY <1>3, <3>1
    <3> QED
      BY <1>3, <3>1, <3>2 DEF WindowsLive
  <2> QED
    BY <2>1, <2>2
<1> QED
  BY <1>1, <1>3 DEF WindowsLive

LEMMA WindowsPop ==
  ASSUME NEW s \in Seq(Frame), s # <<>>, NEW dead, WindowsLive(s, dead)
  PROVE  WindowsLive(Tail(s), dead)
<1>1. PICK t : t = Tail(s)
  OBVIOUS
<1>2. DOMAIN t = 1 .. Len(s) - 1 /\ \A i \in DOMAIN t : t[i] = s[i + 1] /\ i + 1 \in DOMAIN s
  BY <1>1, PopAt
<1>3. ASSUME dead # {}, NEW j \in DOMAIN t, t[j].at = "func", NEW i \in 1 .. j
      PROVE  t[i].fw \notin dead /\ ToSet(t[i].wins) \cap dead = {}
  <2>1. i \in DOMAIN t /\ j + 1 \in DOMAIN s /\ s[j + 1].at = "func" /\ i + 1 \in 1 .. j + 1
    BY <1>2, <1>3
  <2>2. t[i] = s[i + 1]
    BY <1>2, <2>1
  <2> QED
    BY <1>3, <2>1, <2>2 DEF WindowsLive
<1> QED
  BY <1>1, <1>3 DEF WindowsLive

LEMMA FunctionsPush ==
  ASSUME NEW s \in Seq(Frame), NEW fs, NEW d, NEW e, FunctionsCounted(s, fs, d, e),
         NEW f \in Frame \ Activations
  PROVE  FunctionsCounted(<<f>> \o s, fs, d, e)
<1>1. PICK t : t = <<f>> \o s
  OBVIOUS
<1>2. f.at # "func" /\ \A g : f \notin ActivationsOf(g)
  BY DEF Activations, ActivationsOf
<1>3. Num(t, Activations) = Num(s, Activations)
  BY <1>1, NumCons
<1>4. ASSUME NEW g PROVE Num(t, ActivationsOf(g)) = Num(s, ActivationsOf(g))
  BY <1>1, <1>2, NumCons
<1>5. /\ DOMAIN t = 1 .. Len(s) + 1 /\ t[1] = f
      /\ \A i \in 2 .. Len(s) + 1 : i - 1 \in DOMAIN s /\ t[i] = s[i - 1]
  BY <1>1, PushAt
<1>6. ASSUME NEW i \in DOMAIN t, t[i].at = "func" PROVE t[i].fn \in DOMAIN fs
  <2>1. i \in 2 .. Len(s) + 1
    BY <1>2, <1>5, <1>6
  <2> QED
    BY <1>5, <1>6, <2>1 DEF FunctionsCounted
<1> QED
  BY <1>1, <1>3, <1>4, <1>6 DEF FunctionsCounted

LEMMA FunctionsPop ==
  ASSUME NEW s \in Seq(Frame), s # <<>>, NEW fs, NEW d, NEW e, FunctionsCounted(s, fs, d, e),
         s[1].at # "func"
  PROVE  FunctionsCounted(Tail(s), fs, d, e)
<1>1. PICK t, f : t = Tail(s) /\ f = s[1]
  OBVIOUS
<1>2. f \notin Activations /\ \A g : f \notin ActivationsOf(g)
  BY <1>1 DEF Activations, ActivationsOf
<1>3. /\ t \in Seq(Frame) /\ DOMAIN t = 1 .. Len(s) - 1
      /\ \A i \in DOMAIN t : t[i] = s[i + 1] /\ i + 1 \in DOMAIN s
  BY <1>1, PopAt
<1>4. Num(t, Activations) = Num(s, Activations)
  BY <1>1, <1>2, NumTail
<1>5. ASSUME NEW g PROVE Num(t, ActivationsOf(g)) = Num(s, ActivationsOf(g))
  BY <1>1, <1>2, NumTail
<1> QED
  BY <1>1, <1>3, <1>4, <1>5 DEF FunctionsCounted

(* Frames that no counter but func_depth and break_levels counts *)
Plain == Frame \ (Activations \cup Streams \cup Presses \cup Regrabs)

LEMMA PlainPush ==
  ASSUME NEW s, NEW fs, NEW d, NEW e, NEW p, NEW c, NEW dead, Settled(s, fs, d, e, p, c, dead),
         NEW f \in Plain, Safe(f.fw, s, dead), ToSet(f.wins) \cap dead = {}
  PROVE  Settled(<<f>> \o s, fs, d, e, p, c, dead)
<1>1. /\ s \in Seq(Frame) /\ f \in Frame /\ f.at # "func"
      /\ f \notin Activations /\ f \notin Presses /\ f \notin Regrabs /\ f \notin Streams
      /\ f \notin Readers
  BY DEF Settled, Shaped, Plain, Activations, Streams, Readers
<1>2. Shaped(<<f>> \o s)
  BY <1>1, ShapedPush DEF Settled
<1>3. FunctionsCounted(<<f>> \o s, fs, d, e)
  BY <1>1, FunctionsPush DEF Settled
<1>4. WindowsLive(<<f>> \o s, dead)
  BY <1>1, WindowsPush DEF Settled
<1>5. ReadsCounted(<<f>> \o s, c)
  BY <1>1, NumCons DEF Settled, ReadsCounted
<1>6. GrabsCounted(<<f>> \o s, p)
  BY <1>1, NumCons DEF Settled, GrabsCounted
<1> QED
  BY <1>2, <1>3, <1>4, <1>5, <1>6 DEF Settled

LEMMA PlainPop ==
  ASSUME NEW s, s # <<>>, NEW fs, NEW d, NEW e, NEW p, NEW c, NEW dead,
         Settled(s, fs, d, e, p, c, dead), s[1] \in Plain
  PROVE  Settled(Tail(s), fs, d, e, p, c, dead)
<1>1. PICK t, f : t = Tail(s) /\ f = s[1]
  OBVIOUS
<1>2. /\ s \in Seq(Frame) /\ f.at # "func"
      /\ f \notin Activations /\ f \notin Presses /\ f \notin Regrabs /\ f \notin Streams
      /\ f \notin Readers
  BY <1>1 DEF Settled, Shaped, Plain, Activations, Streams, Readers
<1>3. Shaped(t)
  BY <1>1, ShapedPop DEF Settled
<1>4. FunctionsCounted(t, fs, d, e)
  BY <1>1, <1>2, FunctionsPop DEF Settled
<1>5. WindowsLive(t, dead)
  BY <1>1, <1>2, WindowsPop DEF Settled
<1>6. ReadsCounted(t, c)
  BY <1>1, <1>2, NumTail DEF Settled, ReadsCounted
<1>7. GrabsCounted(t, p)
  BY <1>1, <1>2, NumTail DEF Settled, GrabsCounted
<1> QED
  BY <1>1, <1>3, <1>4, <1>5, <1>6, <1>7 DEF Settled

(* Frames go on: a command waits for what it has called, positions in lists *)
(* move, and windows are chosen.                                            *)
GoesOn(f, g, dead) ==
  /\ g.at = f.at \/ (f.at = "call" /\ g.at = "back")
  /\ g.own = f.own /\ g.fn = f.fn /\ g.regrab = f.regrab
  /\ g.fw = f.fw \/ g.fw \notin dead
  /\ ToSet(g.wins) \subseteq ToSet(f.wins)

Like(s, t, dead) ==
  /\ t \in Seq(Frame) /\ Len(t) = Len(s)
  /\ \A i \in DOMAIN s : GoesOn(s[i], t[i], dead)

LEMMA LikeCommands ==
  ASSUME NEW s \in Seq(Frame), NEW t, NEW dead, Like(s, t, dead),
         NEW d, NEW r, CommandsCounted(s, d, r)
  PROVE  CommandsCounted(t, d, r)
<1>1. t \in Seq(Frame) /\ Len(s) = Len(t) /\ \A i \in DOMAIN s : t[i] \in Frame /\ s[i] \in Frame
  BY DEF Like, GoesOn
<1>2. \A i \in DOMAIN s : s[i] \in Commands <=> t[i] \in Commands
  BY <1>1 DEF Like, GoesOn, Commands
<1>3. \A i \in DOMAIN s : s[i] \in Owners <=> t[i] \in Owners
  BY <1>2 DEF Like, GoesOn, Owners
<1>4. Num(s, Commands) = Num(t, Commands) /\ Num(s, Owners) = Num(t, Owners)
  BY <1>1, <1>2, <1>3, LowSame
<1> QED
  BY <1>4 DEF CommandsCounted

LEMMA LikeSettled ==
  ASSUME NEW s, NEW t, NEW fs, NEW d, NEW e, NEW p, NEW c, NEW dead,
         Settled(s, fs, d, e, p, c, dead), Like(s, t, dead)
  PROVE  Settled(t, fs, d, e, p, c, dead)
<1>1. /\ s \in Seq(Frame) /\ t \in Seq(Frame) /\ Len(s) = Len(t) /\ Len(s) \in Nat
      /\ DOMAIN s = 1 .. Len(s) /\ DOMAIN t = 1 .. Len(s)
      /\ \A i \in DOMAIN s : t[i] \in Frame /\ s[i] \in Frame
  BY DEF Like, GoesOn, Settled, Shaped
<1>2. \A i \in DOMAIN s : (s[i].at = "func" <=> t[i].at = "func")
                          /\ (s[i].at = "back" => t[i].at = "back") /\ t[i].fn = s[i].fn
  BY DEF Like, GoesOn
<1>3. \A i \in DOMAIN s : s[i] \in Activations <=> t[i] \in Activations
  BY <1>1, <1>2 DEF Activations
<1>4. \A i \in DOMAIN s : s[i] \in Regrabs <=> t[i] \in Regrabs
  BY <1>1 DEF Like, GoesOn, Regrabs
<1>5. \A i \in DOMAIN s : /\ s[i] \in Readers <=> t[i] \in Readers
                          /\ s[i] \in Streams <=> t[i] \in Streams
                          /\ s[i] \in Presses <=> t[i] \in Presses
  BY <1>1 DEF Like, GoesOn, Readers, Streams, Presses
<1>6. Shaped(t)
  <2>1. \A i \in DOMAIN t : t[i].at = "func" => i + 1 \in DOMAIN t /\ t[i + 1].at = "back"
    BY <1>1, <1>2 DEF Settled, Shaped
  <2>2. ASSUME NEW k \in 0 .. Len(t) PROVE Low(t, k, Regrabs) <= Low(t, k, Activations)
    <3>1. Low(t, k, Regrabs) = Low(s, k, Regrabs)
      BY <1>1, <1>4, LowSame
    <3>2. Low(t, k, Activations) = Low(s, k, Activations)
      BY <1>1, <1>3, LowSame
    <3> QED
      BY <1>1, <3>1, <3>2 DEF Settled, Shaped
  <2> QED
    BY <1>1, <2>1, <2>2 DEF Shaped
<1>7. Num(t, Activations) = Num(s, Activations) /\ Num(t, Regrabs) = Num(s, Regrabs)
  BY <1>1, <1>3, <1>4, LowSame
<1>8. /\ Num(t, Readers) = Num(s, Readers) /\ Num(t, Streams) = Num(s, Streams)
      /\ Num(t, Presses) = Num(s, Presses)
  BY <1>1, <1>5, LowSame
<1>9. FunctionsCounted(t, fs, d, e)
  <2>1. ASSUME NEW g \in DOMAIN fs PROVE Num(t, ActivationsOf(g)) = Num(s, ActivationsOf(g))
    <3>1. \A i \in DOMAIN s : s[i] \in ActivationsOf(g) <=> t[i] \in ActivationsOf(g)
      BY <1>2, <1>3 DEF ActivationsOf
    <3> QED
      BY <1>1, <3>1, LowSame
  <2>2. \A i \in DOMAIN t : t[i].at = "func" => t[i].fn \in DOMAIN fs
    BY <1>1, <1>2 DEF Settled, FunctionsCounted
  <2> QED
    BY <1>7, <2>1, <2>2 DEF Settled, FunctionsCounted
<1>10. ReadsCounted(t, c) /\ GrabsCounted(t, p)
  BY <1>7, <1>8 DEF Settled, ReadsCounted, GrabsCounted
<1>11. WindowsLive(t, dead)
  <2> SUFFICES ASSUME dead # {}, NEW j \in DOMAIN t, t[j].at = "func", NEW i \in 1 .. j
               PROVE  t[i].fw \notin dead /\ ToSet(t[i].wins) \cap dead = {}
    BY DEF WindowsLive
  <2>1. s[j].at = "func" /\ j \in DOMAIN s /\ i \in DOMAIN s
    BY <1>1, <1>2
  <2>2. s[i].fw \notin dead /\ ToSet(s[i].wins) \cap dead = {}
    BY <2>1 DEF Settled, WindowsLive
  <2> QED
    BY <2>1, <2>2 DEF Like, GoesOn
<1> QED
  BY <1>6, <1>9, <1>10, <1>11 DEF Settled
---------------------------------------------------------------------------
(* __execute_function *)

LEMMA NewFrame ==
  ASSUME NEW point \in {"call", "back", "func", "read", "pipe", "all", "wait", "press"},
         NEW fw \in Windows \cup {Nil}
  PROVE  /\ At(point, fw) \in Frame /\ At(point, fw).at = point /\ At(point, fw).fw = fw
         /\ At(point, fw).wins = <<>> /\ At(point, fw).own = FALSE /\ At(point, fw).fn = Nil
         /\ At(point, fw).regrab = FALSE /\ At(point, fw).passes = FALSE
BY DEF At, Frame

LEMMA NoWindows == \A dead : ToSet(<<>>) \cap dead = {}
BY DEF ToSet

LEMMA BreaksType == 0 \in Breaks /\ Breaks \subseteq Int
BY ExecutionAssumption DEF Breaks

LEMMA CommandPlain ==
  ASSUME NEW f \in Commands
  PROVE  f \in Plain
BY DEF Commands, Plain, Activations, Streams, Presses, Regrabs

LEMMA ExecuteKeeps ==
  ASSUME NEW s, NEW fs, NEW d, NEW e, NEW p, NEW c, NEW dead, Settled(s, fs, d, e, p, c, dead),
         CommandsCounted(s, func_depth, rcs), NEW fw \in Windows \cup {Nil}, Safe(fw, s, dead),
         NEW passes \in BOOLEAN, NEW keeps \in BOOLEAN, Execute(fw, passes, keeps, s)
  PROVE  /\ Settled(stack', fs, d, e, p, c, dead)
         /\ CommandsCounted(stack', func_depth', rcs')
<1>1. CASE func_depth = MAX_FUNCTION_DEPTH
  <2>1. stack' = s /\ func_depth' = func_depth /\ rcs' = rcs
    BY <1>1 DEF Execute
  <2> QED
    BY <2>1
<1>2. CASE func_depth # MAX_FUNCTION_DEPTH
  <2>1. PICK own \in BOOLEAN : own = (~passes \/ keeps)
    OBVIOUS
  <2>2. PICK f : f = [At("call", fw) EXCEPT !.own = own, !.passes = passes]
    OBVIOUS
  <2>3. /\ func_depth' = func_depth + 1 /\ stack' = <<f>> \o s
        /\ rcs' = IF own THEN Append(rcs, 0) ELSE rcs
    BY <1>2, <2>1, <2>2 DEF Execute
  <2>4. /\ f \in Frame /\ f.at = "call" /\ f.fw = fw /\ f.wins = <<>> /\ f.own = own
    <3>1. PICK a : a = At("call", fw)
      OBVIOUS
    <3>2. a \in Frame /\ a.at = "call" /\ a.fw = fw /\ a.wins = <<>>
      BY <3>1 DEF At, Frame
    <3>3. f = [a EXCEPT !.own = own, !.passes = passes]
      BY <2>2, <3>1
    <3> QED
      BY <3>2, <3>3 DEF Frame
  <2>5. f \in Commands /\ f \in Plain
    BY <2>4, CommandPlain DEF Commands
  <2>6. Settled(stack', fs, d, e, p, c, dead)
    BY <2>3, <2>4, <2>5, PlainPush, NoWindows
  <2>7. s \in Seq(Frame)
    BY DEF Settled, Shaped
  <2>8. Num(stack', Commands) = Num(s, Commands) + 1
    BY <2>3, <2>4, <2>5, <2>7, NumCons
  <2>9. func_depth' = Num(stack', Commands) /\ func_depth' <= MAX_FUNCTION_DEPTH
    <3>1. func_depth \in Nat /\ func_depth <= MAX_FUNCTION_DEPTH /\ func_depth = Num(s, Commands)
      BY <2>7, NumType DEF CommandsCounted
    <3> QED
      BY <1>2, <2>3, <2>8, <3>1, ExecutionAssumption
  <2>10. rcs' \in Seq(Breaks) /\ Len(rcs') = Num(stack', Owners)
    <3>1. rcs \in Seq(Breaks) /\ Len(rcs) = Num(s, Owners)
      BY DEF CommandsCounted
    <3>2. CASE own
      <4>1. f \in Owners
        BY <2>4, <2>5, <3>2 DEF Owners
      <4>2. Num(stack', Owners) = Num(s, Owners) + 1
        BY <2>3, <2>4, <2>7, <4>1, NumCons
      <4>3. Append(rcs, 0) \in Seq(Breaks) /\ Len(Append(rcs, 0)) = Len(rcs) + 1
        BY <3>1, BreaksType
      <4> QED
        BY <2>3, <3>1, <3>2, <4>2, <4>3
    <3>3. CASE ~own
      <4>1. f \notin Owners
        BY <2>4, <3>3 DEF Owners
      <4> QED
        BY <2>3, <2>4, <2>7, <3>1, <3>3, <4>1, NumCons
    <3> QED
      BY <3>2, <3>3
  <2> QED
    BY <2>6, <2>9, <2>10 DEF CommandsCounted
<1> QED
  BY <1>1, <1>2

LEMMA LastOf ==
  ASSUME NEW S, NEW r \in Seq(S), r # <<>>
  PROVE  /\ Front(r) \in Seq(S) /\ Len(Front(r)) = Len(r) - 1 /\ Last(r) \in S
         /\ DOMAIN Front(r) = 1 .. Len(r) - 1
<1>1. Len(r) \in Nat /\ Len(r) >= 1 /\ DOMAIN r = 1 .. Len(r)
  OBVIOUS
<1>2. Front(r) = SubSeq(r, 1, Len(r) - 1)
  BY DEF Front
<1>3. PICK n : n = Len(r) - 1
  OBVIOUS
<1>4. n \in Nat /\ n <= Len(r)
  BY <1>1, <1>3
<1>5. SubSeq(r, 1, n) \in Seq(S) /\ Len(SubSeq(r, 1, n)) = n
  BY <1>4, SubSeqProperties
<1> QED
  BY <1>1, <1>2, <1>3, <1>5 DEF Last

Overwrite(r, i, n) == [r EXCEPT ![i] = n]

LEMMA Overwritten ==
  ASSUME NEW S, NEW r \in Seq(S), NEW i, NEW n \in S
  PROVE  Overwrite(r, i, n) \in Seq(S) /\ Len(Overwrite(r, i, n)) = Len(r)
<1>1. PICK k \in Nat : r \in [1 .. k -> S] /\ Len(r) = k
  OBVIOUS
<1>2. Overwrite(r, i, n) \in [1 .. k -> S]
  BY <1>1 DEF Overwrite
<1> QED
  BY <1>1, <1>2

LEMMA ReturnKeeps ==
  ASSUME NEW fs, NEW d, NEW e, NEW p, NEW c, NEW dead, Settled(stack, fs, d, e, p, c, dead),
         NEW r, CommandsCounted(stack, func_depth, r), stack # <<>>, Top \in Commands, Return(r)
  PROVE  /\ Settled(stack', fs, d, e, p, c, dead)
         /\ CommandsCounted(stack', func_depth', rcs')
<1>1. stack \in Seq(Frame) /\ Top = stack[1] /\ stack' = Tail(stack)
  BY DEF Settled, Shaped, Top, Return
<1>2. Settled(stack', fs, d, e, p, c, dead)
  BY <1>1, CommandPlain, PlainPop
<1>3. /\ r \in Seq(Breaks) /\ Len(r) = Num(stack, Owners)
      /\ func_depth = Num(stack, Commands) /\ func_depth <= MAX_FUNCTION_DEPTH
  BY DEF CommandsCounted
<1>4. Num(stack', Commands) = Num(stack, Commands) - 1 /\ Num(stack, Commands) >= 1
      /\ Num(stack, Commands) \in Nat
  BY <1>1, NumTail, NumType
<1>5. func_depth' = func_depth - 1
  BY DEF Return
<1>6. rcs' \in Seq(Breaks) /\ Len(rcs') = Num(stack', Owners)
  <2>1. CASE Top.own
    <3>1. Top \in Owners
      BY <2>1 DEF Owners
    <3>2. Num(stack', Owners) = Num(stack, Owners) - 1 /\ Num(stack, Owners) >= 1
      BY <1>1, <3>1, NumTail
    <3>3. r # <<>>
      BY <1>3, <3>2
    <3>4. PICK q, b : q = Front(r) /\ b = Last(r)
      OBVIOUS
    <3>5. q \in Seq(Breaks) /\ Len(q) = Len(r) - 1 /\ b \in Breaks
      BY <1>3, <3>3, <3>4, LastOf
    <3>6. PICK i, x : i = Len(r) - 1 /\ x = Overwrite(q, i, b)
      OBVIOUS
    <3>7. x \in Seq(Breaks) /\ Len(x) = Len(q)
      BY <3>5, <3>6, Overwritten
    <3>8. rcs' = x \/ rcs' = q
      BY <2>1, <3>4, <3>6 DEF Return, Overwrite
    <3> QED
      BY <1>3, <3>2, <3>5, <3>7, <3>8
  <2>2. CASE ~Top.own
    <3>1. Top \notin Owners
      BY <2>2 DEF Owners
    <3>2. rcs' = r
      BY <2>2 DEF Return
    <3> QED
      BY <1>1, <1>3, <3>1, <3>2, NumTail
  <2> QED
    BY <2>1, <2>2
<1>7. func_depth' = Num(stack', Commands) /\ func_depth' <= MAX_FUNCTION_DEPTH
  BY <1>3, <1>4, <1>5, ExecutionAssumption
<1> QED
  BY <1>2, <1>6, <1>7 DEF CommandsCounted

LEMMA CleanedUpType ==
  ASSUME NEW s, NEW d, NEW r, CommandsCounted(s, d, r)
  PROVE  CommandsCounted(s, d, CleanedUp(r))
<1>1. r \in Seq(Breaks)
  BY DEF CommandsCounted
<1>2. CASE r = <<>>
  <2>1. [r EXCEPT ![Len(r)] = @ - 1] = r
    BY <1>2
  <2> QED
    BY <2>1 DEF CleanedUp
<1>3. CASE r # <<>> /\ Last(r) > 0
  <2>1. Last(r) \in Breaks /\ Last(r) = r[Len(r)]
    <3>1. Last(r) \in Breaks
      BY <1>1, <1>3, LastOf
    <3> QED
      BY <3>1 DEF Last
  <2>2. PICK i, n : i = Len(r) /\ n = r[Len(r)] - 1
    OBVIOUS
  <2>3. n \in Breaks
    BY <1>3, <2>1, <2>2, ExecutionAssumption DEF Breaks
  <2>4. CleanedUp(r) = Overwrite(r, i, n)
    BY <1>3, <2>2 DEF CleanedUp, Overwrite
  <2>5. CleanedUp(r) \in Seq(Breaks) /\ Len(CleanedUp(r)) = Len(r)
    BY <1>1, <2>3, <2>4, Overwritten
  <2> QED
    BY <2>5 DEF CommandsCounted
<1>4. CASE r # <<>> /\ ~(Last(r) > 0)
  BY <1>4 DEF CleanedUp
<1> QED
  BY <1>2, <1>3, <1>4
---------------------------------------------------------------------------
(* Frames that change, and what they mean for the invariant *)

LEMMA LikeTop ==
  ASSUME NEW s \in Seq(Frame), s # <<>>, NEW dead, NEW g \in Frame, GoesOn(s[1], g, dead)
  PROVE  Like(s, <<g>> \o Tail(s), dead) /\ (<<g>> \o Tail(s))[1] = g /\ <<g>> \o Tail(s) # <<>>
<1>1. PICK u, t : u = Tail(s) /\ t = <<g>> \o u
  OBVIOUS
<1>2. /\ u \in Seq(Frame) /\ Len(u) = Len(s) - 1 /\ Len(s) >= 1 /\ Len(s) \in Nat
      /\ \A i \in DOMAIN u : u[i] = s[i + 1]
  BY <1>1, PopAt
<1>3. /\ t \in Seq(Frame) /\ Len(t) = Len(s) /\ t[1] = g
      /\ \A i \in 2 .. Len(s) : i - 1 \in DOMAIN u /\ t[i] = u[i - 1]
  BY <1>1, <1>2, PushAt
<1>4. ASSUME NEW i \in DOMAIN s, i # 1 PROVE t[i] = s[i]
  <2>1. i \in 2 .. Len(s)
    BY <1>2, <1>4
  <2>2. i - 1 \in DOMAIN u /\ t[i] = u[i - 1]
    BY <1>3, <2>1
  <2>3. u[i - 1] = s[(i - 1) + 1] /\ (i - 1) + 1 = i
    BY <1>2, <2>1, <2>2
  <2> QED
    BY <2>2, <2>3
<1>5. Like(s, t, dead)
  <2>1. ASSUME NEW i \in DOMAIN s PROVE GoesOn(s[i], t[i], dead)
    <3>1. GoesOn(s[i], s[i], dead)
      BY DEF GoesOn
    <3> QED
      BY <1>3, <1>4, <3>1
  <2> QED
    BY <1>3, <2>1 DEF Like
<1>6. t # <<>>
  BY <1>2, <1>3
<1> QED
  BY <1>1, <1>3, <1>5, <1>6

(* what the steps of a command start from *)
LEMMA Start ==
  ASSUME IInv
  PROVE  /\ stack \in Seq(Frame) /\ Nil \notin freed
         /\ Settled(stack, functions, depth, is_executing_complex_function, pointer,
                    curr_read_depth, freed)
         /\ CommandsCounted(stack, func_depth, rcs)
         /\ depth \in Nat
BY ExecutionAssumption, NumType DEF IInv, Settled, Shaped, Scalars, FunctionsCounted

LEMMA TopFacts ==
  ASSUME IInv, stack # <<>>
  PROVE  Top \in Frame /\ Top = stack[1] /\ (Top.at \in {"call", "back"} => Top \in Commands)
BY Start, PopAt DEF Top, Commands

LEMMA CallerFacts ==
  ASSUME IInv, Command
  PROVE  /\ stack # <<>> /\ Top \in Commands /\ Top.at = "call" /\ ~undefined
         /\ Caller \in Frame /\ Caller.at = "back" /\ Caller.fw = Nil
         /\ Like(stack, <<Caller>> \o Tail(stack), freed)
         /\ (<<Caller>> \o Tail(stack))[1] = Caller /\ <<Caller>> \o Tail(stack) # <<>>
<1>1. stack # <<>> /\ Top \in Commands /\ Top.at = "call" /\ ~undefined /\ Top \in Frame
      /\ Top = stack[1]
  BY TopFacts DEF Command, Runs
<1>2. /\ Caller \in Frame /\ Caller.at = "back" /\ Caller.fw = Nil /\ Caller.own = Top.own
      /\ Caller.fn = Top.fn /\ Caller.regrab = Top.regrab /\ Caller.wins = Top.wins
  BY <1>1 DEF Caller, Frame
<1>3. GoesOn(stack[1], Caller, freed)
  BY <1>1, <1>2, Start DEF GoesOn
<1> QED
  BY <1>1, <1>2, <1>3, Start, LikeTop

LEMMA CallsKeep ==
  ASSUME IInv, Command
  PROVE  LET s == <<Caller>> \o Tail(stack)
         IN /\ Settled(s, functions, depth, is_executing_complex_function, pointer,
                       curr_read_depth, freed)
            /\ CommandsCounted(s, func_depth, rcs)
            /\ s \in Seq(Frame) /\ s # <<>> /\ s[1].at = "back"
            /\ \A f : Calls(f) = <<f>> \o s
<1>1. PICK s : s = <<Caller>> \o Tail(stack)
  OBVIOUS
<1>2. Like(stack, s, freed) /\ s # <<>> /\ s[1].at = "back"
  BY <1>1, CallerFacts
<1>3. s \in Seq(Frame)
  BY <1>2 DEF Like
<1>4. /\ Settled(s, functions, depth, is_executing_complex_function, pointer,
                 curr_read_depth, freed)
      /\ CommandsCounted(s, func_depth, rcs)
  BY <1>2, Start, LikeCommands, LikeSettled
<1>5. Tail(stack) \in Seq(Frame) /\ Caller \in Frame
  BY Start, PopAt, CallerFacts
<1>6. ASSUME NEW f PROVE Calls(f) = <<f>> \o s
  BY <1>1, <1>5 DEF Calls
<1> QED
  BY <1>1, <1>2, <1>3, <1>4, <1>6

LEMMA FinishKeeps ==
  ASSUME IInv, Runs({"call"}) \/ Runs({"back"}), NEW r, CommandsCounted(stack, func_depth, r),
         Return(r)
  PROVE  /\ Settled(stack', functions, depth, is_executing_complex_function, pointer,
                    curr_read_depth, freed)
         /\ CommandsCounted(stack', func_depth', rcs')
<1>1. stack # <<>> /\ Top \in Commands
  BY TopFacts DEF Runs
<1> QED
  BY <1>1, Start, ReturnKeeps

LEMMA PointerKeeps ==
  ASSUME NEW s, NEW fs, NEW d, NEW e, NEW p, NEW c, NEW dead, Settled(s, fs, d, e, p, c, dead),
         NEW q, Consistent(q), q.count["passive"] = p.count["passive"],
         q.count["normal"] <= p.count["normal"], q.read_depth <= p.read_depth
  PROVE  Settled(s, fs, d, e, q, c, dead)
<1>1. p \in Pointer /\ q \in Pointer /\ s \in Seq(Frame)
  BY DEF Settled, GrabsCounted, Consistent, Shaped
<1>2. /\ p.count["normal"] \in Nat /\ q.count["normal"] \in Nat
      /\ p.read_depth \in Nat /\ q.read_depth \in Nat
  BY <1>1 DEF Pointer, Contexts
<1>3. Num(s, Regrabs) \in Nat /\ Num(s, Activations) \in Nat /\ Num(s, Streams) \in Nat
  BY <1>1, NumType
<1>4. GrabsCounted(s, q)
  BY <1>2, <1>3 DEF Settled, GrabsCounted
<1> QED
  BY <1>4 DEF Settled

(* No window is freed while a function runs. *)
LEMMA DestroyKeeps ==
  ASSUME NEW s, NEW fs, NEW d, NEW p, NEW c,
         Settled(s, fs, d, is_executing_complex_function, p, c, freed),
         NEW w, Destroy(w)
  PROVE  Settled(s, fs, d, is_executing_complex_function, p, c, freed')
<1>1. CASE is_executing_complex_function
  BY <1>1 DEF Destroy
<1>2. CASE ~is_executing_complex_function
  <2>1. s \in Seq(Frame)
    BY DEF Settled, Shaped
  <2>2. Num(s, Activations) = 0
    <3>1. d = Num(s, Activations) /\ is_executing_complex_function = (d > 0)
      BY DEF Settled, FunctionsCounted
    <3>2. ~(d > 0)
      BY <1>2, <3>1
    <3> QED
      BY <2>1, <3>1, <3>2, NumType
  <2>3. \A j \in DOMAIN s : s[j] \in Frame /\ s[j] \notin Activations
    BY <2>1, <2>2, NumZero
  <2>4. WindowsLive(s, freed')
    BY <2>3 DEF WindowsLive, Activations
  <2> QED
    BY <2>4 DEF Settled
<1> QED
  BY <1>1, <1>2
---------------------------------------------------------------------------
(* Each action keeps the invariant. First the commands that call nothing. *)

LEMMA ExecReturnKeeps ==
  ASSUME IInv, ExecReturn
  PROVE  IInv'
<1>1. /\ Runs({"back"}) /\ Return(rcs)
      /\ UNCHANGED <<functions, last_added, depth, is_executing_complex_function, pointer,
                     busy_read, curr_read_depth, scheduled, freed, undefined>>
  BY DEF ExecReturn, windowVars
<1>2. /\ Settled(stack', functions, depth, is_executing_complex_function, pointer,
                 curr_read_depth, freed)
      /\ CommandsCounted(stack', func_depth', rcs')
  BY <1>1, Start, FinishKeeps
<1> QED
  BY <1>1, <1>2 DEF IInv, Scalars

LEMMA CmdBusyCursorKeeps ==
  ASSUME IInv, NEW on \in BOOLEAN, CmdBusyCursor(on)
  PROVE  IInv'
<1>1. /\ Runs({"call"}) /\ Return(rcs) /\ busy_read' \in BOOLEAN
      /\ UNCHANGED <<functions, last_added, depth, is_executing_complex_function, pointer,
                     curr_read_depth, scheduled, freed, undefined>>
  BY DEF CmdBusyCursor, Command, windowVars
<1>2. /\ Settled(stack', functions, depth, is_executing_complex_function, pointer,
                 curr_read_depth, freed)
      /\ CommandsCounted(stack', func_depth', rcs')
  BY <1>1, Start, FinishKeeps
<1> QED
  BY <1>1, <1>2 DEF IInv, Scalars

LEMMA CallFunctionRefusedKeeps ==
  ASSUME IInv, NEW f, CallFunctionRefused(f)
  PROVE  IInv'
<1>1. /\ Runs({"call"}) /\ Return(CleanedUp(rcs))
      /\ UNCHANGED <<functions, last_added, depth, is_executing_complex_function, pointer,
                     busy_read, curr_read_depth, scheduled, freed, undefined>>
  BY DEF CallFunctionRefused, Command, windowVars
<1>2. CommandsCounted(stack, func_depth, CleanedUp(rcs))
  BY Start, CleanedUpType
<1>3. /\ Settled(stack', functions, depth, is_executing_complex_function, pointer,
                 curr_read_depth, freed)
      /\ CommandsCounted(stack', func_depth', rcs')
  BY <1>1, <1>2, FinishKeeps
<1> QED
  BY <1>1, <1>3 DEF IInv, Scalars

LEMMA CmdDestroyKeeps ==
  ASSUME IInv, CmdDestroy
  PROVE  IInv'
<1>1. /\ Runs({"call"}) /\ Return(rcs) /\ Top.fw # Nil /\ Destroy(Top.fw)
      /\ UNCHANGED <<functions, last_added, depth, is_executing_complex_function, pointer,
                     busy_read, curr_read_depth, undefined>>
  BY DEF CmdDestroy, Command
<1>2. /\ Settled(stack', functions, depth, is_executing_complex_function, pointer,
                 curr_read_depth, freed)
      /\ CommandsCounted(stack', func_depth', rcs')
  BY <1>1, Start, FinishKeeps
<1>3. Settled(stack', functions, depth, is_executing_complex_function, pointer,
              curr_read_depth, freed')
  BY <1>1, <1>2, DestroyKeeps
<1>4. Top.fw \in Windows
  BY <1>1, TopFacts DEF Frame, Runs
<1>5. Scalars'
  BY <1>1, <1>4 DEF IInv, Scalars, Destroy
<1> QED
  BY <1>1, <1>2, <1>3, <1>5 DEF IInv

LEMMA HandleDestroyNotifyKeeps ==
  ASSUME IInv, NEW w \in Windows, HandleDestroyNotify(w)
  PROVE  IInv'
<1>1. /\ Destroy(w)
      /\ UNCHANGED <<functions, last_added, stack, rcs, func_depth, depth,
                     is_executing_complex_function, pointer, busy_read, curr_read_depth, undefined>>
  BY DEF HandleDestroyNotify, countVars
<1>2. Settled(stack, functions, depth, is_executing_complex_function, pointer,
              curr_read_depth, freed')
  BY <1>1, Start, DestroyKeeps
<1>3. Scalars'
  BY <1>1 DEF IInv, Scalars, Destroy
<1> QED
  BY <1>1, <1>2, <1>3 DEF IInv

LEMMA LoopTurnKeeps ==
  ASSUME IInv, LoopTurn
  PROVE  IInv'
<1>1. /\ stack = <<>> /\ scheduled' = {} /\ freed' = freed \cup scheduled
      /\ undefined' = (scheduled \cap freed # {})
      /\ UNCHANGED <<functions, last_added, stack, rcs, func_depth, depth,
                     is_executing_complex_function, pointer, busy_read, curr_read_depth>>
  BY DEF LoopTurn, countVars
<1>2. WindowsLive(stack, freed')
  BY <1>1 DEF WindowsLive
<1>3. Settled(stack, functions, depth, is_executing_complex_function, pointer,
              curr_read_depth, freed')
  BY <1>2, Start DEF Settled
<1>4. Scalars'
  BY <1>1 DEF IInv, Scalars
<1> QED
  BY <1>1, <1>3, <1>4 DEF IInv

LEMMA DanglingKeeps ==
  ASSUME IInv, Dangling
  PROVE  IInv'
<1>1. /\ undefined' = TRUE
      /\ UNCHANGED <<functions, last_added, stack, rcs, func_depth, depth,
                     is_executing_complex_function, pointer, busy_read, curr_read_depth,
                     scheduled, freed>>
  BY DEF Dangling, countVars, windowVars
<1> QED
  BY <1>1 DEF IInv, Scalars

LEMMA CmdFocusKeeps ==
  ASSUME IInv, CmdFocus
  PROVE  IInv'
<1>1. /\ Runs({"call"}) /\ Return(rcs) /\ pointer' = UngrabEm(pointer, "normal")
      /\ UNCHANGED <<functions, last_added, depth, is_executing_complex_function,
                     busy_read, curr_read_depth, scheduled, freed, undefined>>
  BY DEF CmdFocus, Command, windowVars
<1>2. /\ Settled(stack', functions, depth, is_executing_complex_function, pointer,
                 curr_read_depth, freed)
      /\ CommandsCounted(stack', func_depth', rcs')
  BY <1>1, Start, FinishKeeps
<1>3. Consistent(pointer) /\ pointer.count["normal"] \in Nat /\ pointer.read_depth \in Nat
  BY Start DEF Settled, GrabsCounted, Consistent, Pointer, Contexts
<1>4. /\ Added(pointer') /\ Others(pointer, pointer', "normal") /\ SameCursor(pointer, pointer')
      /\ pointer'.count["normal"]
           = IF pointer.count["normal"] > 0 THEN pointer.count["normal"] - 1 ELSE 0
  BY <1>1, <1>3, UngrabFacts
<1>5. /\ pointer'.count["busy"] = pointer.count["busy"]
      /\ pointer'.count["passive"] = pointer.count["passive"]
      /\ pointer'.count["normal"] <= pointer.count["normal"]
      /\ pointer'.read_depth <= pointer.read_depth
  BY <1>3, <1>4 DEF Others, SameCursor
<1>6. Consistent(pointer')
  BY <1>3, <1>4, <1>5, ConsistentAgain
<1>7. Settled(stack', functions, depth, is_executing_complex_function, pointer',
              curr_read_depth, freed)
  BY <1>2, <1>5, <1>6, PointerKeeps
<1> QED
  BY <1>1, <1>2, <1>7 DEF IInv, Scalars

LEMMA CmdReadFailsKeeps ==
  ASSUME IInv, CmdReadFails
  PROVE  IInv'
<1>1. /\ Runs({"call"}) /\ Return(rcs) /\ pointer' \in {BusyOff(p) : p \in BusyOn(pointer)}
      /\ UNCHANGED <<functions, last_added, depth, is_executing_complex_function,
                     busy_read, curr_read_depth, scheduled, freed, undefined>>
  BY DEF CmdReadFails, Command, windowVars
<1>2. /\ Settled(stack', functions, depth, is_executing_complex_function, pointer,
                 curr_read_depth, freed)
      /\ CommandsCounted(stack', func_depth', rcs')
  BY <1>1, Start, FinishKeeps
<1>3. PICK p \in BusyOn(pointer) : pointer' = BusyOff(p)
  BY <1>1
<1>4. Consistent(pointer) /\ pointer.count["normal"] \in Nat /\ pointer.read_depth \in Nat
  BY Start DEF Settled, GrabsCounted, Consistent, Pointer, Contexts
<1>5. /\ Consistent(p)
      /\ p.count["normal"] = pointer.count["normal"] /\ p.count["passive"] = pointer.count["passive"]
      /\ p.read_depth <= pointer.read_depth + 1
  BY <1>4, BusyOnFacts
<1>6. /\ Consistent(pointer')
      /\ pointer'.count["normal"] = p.count["normal"] /\ pointer'.count["passive"] = p.count["passive"]
      /\ pointer'.read_depth = 0 \/ pointer'.read_depth = p.read_depth - 1
  BY <1>3, <1>5, BusyOffFacts
<1>7. p.read_depth \in Nat
  BY <1>5 DEF Consistent, Pointer
<1>8. /\ pointer'.count["passive"] = pointer.count["passive"]
      /\ pointer'.count["normal"] <= pointer.count["normal"]
      /\ pointer'.read_depth <= pointer.read_depth
  BY <1>4, <1>5, <1>6, <1>7
<1>9. Settled(stack', functions, depth, is_executing_complex_function, pointer',
              curr_read_depth, freed)
  BY <1>2, <1>6, <1>8, PointerKeeps
<1> QED
  BY <1>1, <1>2, <1>9 DEF IInv, Scalars
---------------------------------------------------------------------------
(* The table of functions *)

LEMMA NumNone ==
  ASSUME NEW s \in Seq(Frame), NEW S, \A i \in DOMAIN s : s[i] \notin S
  PROVE  Num(s, S) = 0
<1>1. \A p \in 1 .. Len(s) : Len(s) + 1 - p \in DOMAIN s
  OBVIOUS
<1>2. {p \in 1 .. Len(s) : s[Len(s) + 1 - p] \in S} = {}
  BY <1>1
<1> QED
  BY <1>2, FS_EmptySet DEF Num, Low

LEMMA TableGrows ==
  ASSUME NEW s \in Seq(Frame), NEW fs, NEW d, NEW e, FunctionsCounted(s, fs, d, e), NEW gs,
         \A g \in DOMAIN fs : g \in DOMAIN gs /\ gs[g].use_depth = fs[g].use_depth,
         \A g \in DOMAIN gs \ DOMAIN fs : gs[g].use_depth = 0
  PROVE  FunctionsCounted(s, gs, d, e)
<1>1. ASSUME NEW g \in DOMAIN gs PROVE gs[g].use_depth = Num(s, ActivationsOf(g))
  <2>1. CASE g \in DOMAIN fs
    BY <2>1 DEF FunctionsCounted
  <2>2. CASE g \notin DOMAIN fs
    <3>1. \A i \in DOMAIN s : s[i] \notin ActivationsOf(g)
      BY <2>2 DEF FunctionsCounted, ActivationsOf, Activations
    <3> QED
      BY <2>2, <3>1, NumNone
  <2> QED
    BY <2>1, <2>2
<1> QED
  BY <1>1 DEF FunctionsCounted

LEMMA TableShrinks ==
  ASSUME NEW s \in Seq(Frame), NEW fs, NEW d, NEW e, FunctionsCounted(s, fs, d, e),
         NEW f \in DOMAIN fs, fs[f].use_depth = 0
  PROVE  FunctionsCounted(s, [g \in DOMAIN fs \ {f} |-> fs[g]], d, e)
<1>1. Num(s, ActivationsOf(f)) = 0
  BY DEF FunctionsCounted
<1>2. \A i \in DOMAIN s : s[i] \in Frame /\ s[i] \notin ActivationsOf(f)
  BY <1>1, NumZero
<1>3. ASSUME NEW i \in DOMAIN s, s[i].at = "func" PROVE s[i].fn \in DOMAIN fs \ {f}
  BY <1>2, <1>3 DEF FunctionsCounted, ActivationsOf, Activations
<1> QED
  BY <1>3 DEF FunctionsCounted

LEMMA AddedTo ==
  ASSUME NEW fs, FunctionType(fs), NEW f \in DOMAIN fs, NEW cond \in Conds \cup {Nil},
         cond # Nil => Len(fs[f].items) < MaxItems, NEW gs, gs = AddToFunction(fs, f, cond)
  PROVE  /\ FunctionType(gs) /\ DOMAIN gs = DOMAIN fs
         /\ \A g \in DOMAIN fs : gs[g].use_depth = fs[g].use_depth
<1>1. CASE cond = Nil
  BY <1>1 DEF AddToFunction
<1>2. CASE cond # Nil
  <2>1. PICK x : x = Append(fs[f].items, cond)
    OBVIOUS
  <2>2. gs = [fs EXCEPT ![f].items = x]
    BY <1>2, <2>1 DEF AddToFunction
  <2>3. fs[f] \in [items : Seq(Conds), use_depth : Nat] /\ Len(fs[f].items) < MaxItems
    BY <1>2 DEF FunctionType
  <2>4. x \in Seq(Conds) /\ Len(x) <= MaxItems
    BY <1>2, <2>1, <2>3, ExecutionAssumption
  <2>5. /\ DOMAIN gs = DOMAIN fs /\ \A g \in DOMAIN fs \ {f} : gs[g] = fs[g]
        /\ gs[f] = [fs[f] EXCEPT !.items = x]
    BY <2>2
  <2>6. /\ gs[f] \in [items : Seq(Conds), use_depth : Nat]
        /\ gs[f].items = x /\ gs[f].use_depth = fs[f].use_depth
    BY <2>3, <2>4, <2>5
  <2>7. FunctionType(gs)
    BY <2>4, <2>5, <2>6 DEF FunctionType
  <2> QED
    BY <2>5, <2>6, <2>7
<1> QED
  BY <1>1, <1>2

LEMMA CmdAddToFuncKeeps ==
  ASSUME IInv, NEW f \in Funcs, NEW cond \in Conds \cup {Nil}, CmdAddToFunc(f, cond)
  PROVE  IInv'
<1>1. PICK fs : fs = [g \in DOMAIN functions \cup {f} |->
                        IF g \in DOMAIN functions THEN functions[g] ELSE NewMvwmFunction]
  OBVIOUS
<1>2. /\ Runs({"call"}) /\ Return(rcs) /\ last_added' = f
      /\ cond # Nil => Len(fs[f].items) < MaxItems
      /\ functions' = AddToFunction(fs, f, cond)
      /\ UNCHANGED <<depth, is_executing_complex_function, pointer, busy_read,
                     curr_read_depth, scheduled, freed, undefined>>
  BY <1>1 DEF CmdAddToFunc, Command, windowVars
<1>3. /\ Settled(stack', functions, depth, is_executing_complex_function, pointer,
                 curr_read_depth, freed)
      /\ CommandsCounted(stack', func_depth', rcs')
  BY <1>2, Start, FinishKeeps
<1>4. NewMvwmFunction \in [items : Seq(Conds), use_depth : Nat] /\ NewMvwmFunction.use_depth = 0
      /\ Len(NewMvwmFunction.items) <= MaxItems
  BY ExecutionAssumption DEF NewMvwmFunction
<1>5. /\ f \in DOMAIN fs /\ DOMAIN functions \subseteq DOMAIN fs
      /\ \A g \in DOMAIN functions : fs[g] = functions[g]
      /\ \A g \in DOMAIN fs \ DOMAIN functions : fs[g] = NewMvwmFunction /\ g = f
  BY <1>1
<1>6. FunctionType(fs)
  BY <1>4, <1>5 DEF IInv, Scalars, FunctionType
<1>7. /\ FunctionType(functions') /\ DOMAIN functions' = DOMAIN fs
      /\ \A g \in DOMAIN fs : functions'[g].use_depth = fs[g].use_depth
  BY <1>2, <1>5, <1>6, AddedTo
<1>8. stack' \in Seq(Frame) /\ FunctionsCounted(stack', functions, depth, is_executing_complex_function)
  BY <1>3 DEF Settled, Shaped
<1>9. FunctionsCounted(stack', functions', depth, is_executing_complex_function)
  <2>1. \A g \in DOMAIN functions :
          g \in DOMAIN functions' /\ functions'[g].use_depth = functions[g].use_depth
    BY <1>5, <1>7
  <2>2. \A g \in DOMAIN functions' \ DOMAIN functions : functions'[g].use_depth = 0
    BY <1>4, <1>5, <1>7
  <2> QED
    BY <1>8, <2>1, <2>2, TableGrows
<1>10. Settled(stack', functions', depth, is_executing_complex_function, pointer,
               curr_read_depth, freed)
  BY <1>3, <1>9 DEF Settled
<1>11. Scalars'
  BY <1>2, <1>5, <1>7 DEF IInv, Scalars
<1> QED
  BY <1>2, <1>3, <1>10, <1>11 DEF IInv

LEMMA CmdPlusKeeps ==
  ASSUME IInv, NEW cond \in Conds, CmdPlus(cond)
  PROVE  IInv'
<1>1. /\ Runs({"call"}) /\ Return(rcs) /\ last_added # Nil
      /\ Len(functions[last_added].items) < MaxItems
      /\ functions' = AddToFunction(functions, last_added, cond)
      /\ UNCHANGED <<last_added, depth, is_executing_complex_function, pointer, busy_read,
                     curr_read_depth, scheduled, freed, undefined>>
  BY DEF CmdPlus, Command, windowVars
<1>2. /\ Settled(stack', functions, depth, is_executing_complex_function, pointer,
                 curr_read_depth, freed)
      /\ CommandsCounted(stack', func_depth', rcs')
  BY <1>1, Start, FinishKeeps
<1>3. /\ FunctionType(functions') /\ DOMAIN functions' = DOMAIN functions
      /\ \A g \in DOMAIN functions : functions'[g].use_depth = functions[g].use_depth
  <2>1. FunctionType(functions) /\ last_added \in DOMAIN functions
    BY <1>1 DEF IInv, Scalars
  <2> QED
    BY <1>1, <2>1, AddedTo
<1>4. stack' \in Seq(Frame) /\ FunctionsCounted(stack', functions, depth, is_executing_complex_function)
  BY <1>2 DEF Settled, Shaped
<1>5. FunctionsCounted(stack', functions', depth, is_executing_complex_function)
  BY <1>3, <1>4, TableGrows
<1>6. Settled(stack', functions', depth, is_executing_complex_function, pointer,
              curr_read_depth, freed)
  BY <1>2, <1>5 DEF Settled
<1>7. Scalars'
  BY <1>1, <1>3 DEF IInv, Scalars
<1> QED
  BY <1>1, <1>2, <1>6, <1>7 DEF IInv

LEMMA CmdDestroyFuncKeeps ==
  ASSUME IInv, NEW f, CmdDestroyFunc(f)
  PROVE  IInv'
<1>1. /\ Runs({"call"}) /\ Return(rcs) /\ f \in DOMAIN functions /\ last_added' = Nil
      /\ functions' = IF functions[f].use_depth # 0 THEN functions
                      ELSE [g \in DOMAIN functions \ {f} |-> functions[g]]
      /\ UNCHANGED <<depth, is_executing_complex_function, pointer, busy_read,
                     curr_read_depth, scheduled, freed, undefined>>
  BY DEF CmdDestroyFunc, Command, windowVars
<1>2. /\ Settled(stack', functions, depth, is_executing_complex_function, pointer,
                 curr_read_depth, freed)
      /\ CommandsCounted(stack', func_depth', rcs')
  BY <1>1, Start, FinishKeeps
<1>3. stack' \in Seq(Frame) /\ FunctionsCounted(stack', functions, depth, is_executing_complex_function)
  BY <1>2 DEF Settled, Shaped
<1>4. FunctionsCounted(stack', functions', depth, is_executing_complex_function)
  <2>1. CASE functions[f].use_depth # 0
    BY <1>1, <1>3, <2>1
  <2>2. CASE functions[f].use_depth = 0
    BY <1>1, <1>3, <2>2, TableShrinks
  <2> QED
    BY <2>1, <2>2
<1>5. Settled(stack', functions', depth, is_executing_complex_function, pointer,
              curr_read_depth, freed)
  BY <1>2, <1>4 DEF Settled
<1>6. FunctionType(functions')
  BY <1>1 DEF IInv, Scalars, FunctionType
<1>7. Scalars'
  BY <1>1, <1>6 DEF IInv, Scalars
<1> QED
  BY <1>1, <1>2, <1>5, <1>7 DEF IInv

LEMMA CmdBreakKeeps ==
  ASSUME IInv, NEW n \in {-1} \cup 1 .. MaxBreak, CmdBreak(n)
  PROVE  IInv'
<1>1. PICK s : s = [i \in DOMAIN stack |->
                      IF i \in LeftBy(n) THEN [stack[i] EXCEPT !.left = "yes"] ELSE stack[i]]
  OBVIOUS
<1>2. /\ Runs({"call"}) /\ func_depth' = func_depth - 1 /\ stack' = Tail(s)
      /\ rcs' = IF Top.own /\ Top.passes THEN [Front(rcs) EXCEPT ![Len(rcs) - 1] = n]
                ELSE IF Top.own THEN Front(rcs) ELSE [rcs EXCEPT ![Len(rcs)] = n]
      /\ UNCHANGED <<functions, last_added, depth, is_executing_complex_function, pointer,
                     busy_read, curr_read_depth, scheduled, freed, undefined>>
  BY <1>1 DEF CmdBreak, Command, otherVars, windowVars
<1>3. Like(stack, s, freed) /\ s \in Seq(Frame) /\ Len(s) = Len(stack)
  <2>1. PICK m \in Nat : stack \in [1 .. m -> Frame] /\ Len(stack) = m
    BY Start
  <2>2. ASSUME NEW f \in Frame PROVE [f EXCEPT !.left = "yes"] \in Frame
    BY DEF Frame
  <2>3. s \in [1 .. m -> Frame]
    BY <1>1, <2>1, <2>2
  <2>4. s \in Seq(Frame) /\ Len(s) = m
    BY <2>3
  <2>5. ASSUME NEW i \in DOMAIN stack
        PROVE  /\ s[i].at = stack[i].at /\ s[i].own = stack[i].own /\ s[i].fn = stack[i].fn
               /\ s[i].regrab = stack[i].regrab /\ s[i].fw = stack[i].fw
               /\ s[i].wins = stack[i].wins
    <3>1. stack[i] \in Frame
      BY <2>1
    <3>2. s[i] = [stack[i] EXCEPT !.left = "yes"] \/ s[i] = stack[i]
      BY <1>1
    <3> QED
      BY <3>1, <3>2 DEF Frame
  <2> QED
    BY <2>1, <2>4, <2>5 DEF Like, GoesOn
<1>4. stack # <<>> /\ Top \in Commands /\ Top.at = "call" /\ Top = stack[1] /\ 1 \in DOMAIN stack
  BY <1>2, Start, TopFacts DEF Runs
<1>5. s # <<>> /\ s[1].at \in {"call", "back"} /\ s[1].own = Top.own
  BY <1>3, <1>4, Start DEF Like, GoesOn
<1>6. s[1] \in Commands /\ s[1] \in Plain
  BY <1>3, <1>5, PopAt, CommandPlain DEF Commands
<1>7. /\ Settled(s, functions, depth, is_executing_complex_function, pointer,
                 curr_read_depth, freed)
      /\ CommandsCounted(s, func_depth, rcs)
  BY <1>3, Start, LikeSettled, LikeCommands
<1>8. Settled(stack', functions, depth, is_executing_complex_function, pointer,
              curr_read_depth, freed)
  BY <1>2, <1>5, <1>6, <1>7, PlainPop
<1>9. /\ rcs \in Seq(Breaks) /\ Len(rcs) = Num(s, Owners)
      /\ func_depth = Num(s, Commands) /\ func_depth <= MAX_FUNCTION_DEPTH
  BY <1>7 DEF CommandsCounted
<1>10. /\ Num(stack', Commands) = Num(s, Commands) - 1 /\ Num(s, Commands) >= 1
       /\ Num(s, Commands) \in Nat
  BY <1>2, <1>3, <1>5, <1>6, NumTail, NumType
<1>11. n \in Breaks
  BY ExecutionAssumption DEF Breaks
<1>12. rcs' \in Seq(Breaks) /\ Len(rcs') = Num(stack', Owners)
  <2>1. CASE Top.own
    <3>1. s[1] \in Owners
      BY <1>5, <1>6, <2>1 DEF Owners
    <3>2. Num(stack', Owners) = Num(s, Owners) - 1 /\ Num(s, Owners) >= 1
      BY <1>2, <1>3, <1>5, <3>1, NumTail
    <3>3. rcs # <<>>
      BY <1>9, <3>2
    <3>4. PICK q : q = Front(rcs)
      OBVIOUS
    <3>5. q \in Seq(Breaks) /\ Len(q) = Len(rcs) - 1
      BY <1>9, <3>3, <3>4, LastOf
    <3>6. PICK i, x : i = Len(rcs) - 1 /\ x = Overwrite(q, i, n)
      OBVIOUS
    <3>7. x \in Seq(Breaks) /\ Len(x) = Len(q)
      BY <1>11, <3>5, <3>6, Overwritten
    <3>8. rcs' = x \/ rcs' = q
      BY <1>2, <2>1, <3>4, <3>6 DEF Overwrite
    <3> QED
      BY <1>9, <3>2, <3>5, <3>7, <3>8
  <2>2. CASE ~Top.own
    <3>1. s[1] \notin Owners
      BY <1>5, <2>2 DEF Owners
    <3>2. PICK i, x : i = Len(rcs) /\ x = Overwrite(rcs, i, n)
      OBVIOUS
    <3>3. x \in Seq(Breaks) /\ Len(x) = Len(rcs)
      BY <1>9, <1>11, <3>2, Overwritten
    <3>4. rcs' = x
      BY <1>2, <2>2, <3>2 DEF Overwrite
    <3> QED
      BY <1>2, <1>3, <1>5, <1>9, <3>1, <3>3, <3>4, NumTail
  <2> QED
    BY <2>1, <2>2
<1>13. func_depth' = Num(stack', Commands) /\ func_depth' <= MAX_FUNCTION_DEPTH
  BY <1>2, <1>9, <1>10, ExecutionAssumption
<1> QED
  BY <1>2, <1>8, <1>12, <1>13 DEF IInv, CommandsCounted, Scalars
---------------------------------------------------------------------------
(* Commands that are executed *)

LEMMA InputCommandKeeps ==
  ASSUME IInv, NEW fw \in Windows \cup {Nil}, InputCommand(fw)
  PROVE  IInv'
<1>1. /\ fw \in Live \cup {Nil} /\ Execute(fw, FALSE, FALSE, stack)
      /\ UNCHANGED <<functions, last_added, depth, is_executing_complex_function, pointer,
                     busy_read, curr_read_depth, scheduled, freed, undefined>>
  BY DEF InputCommand, windowVars
<1>2. Safe(fw, stack, freed)
  BY <1>1, Start DEF Safe, Live
<1>3. /\ Settled(stack', functions, depth, is_executing_complex_function, pointer,
                 curr_read_depth, freed)
      /\ CommandsCounted(stack', func_depth', rcs')
  BY <1>1, <1>2, Start, ExecuteKeeps
<1> QED
  BY <1>1, <1>3 DEF IInv, Scalars

LEMMA CmdConditionalKeeps ==
  ASSUME IInv, NEW fw \in Windows \cup {Nil}, NEW keeps \in BOOLEAN, CmdConditional(fw, keeps)
  PROVE  IInv'
<1>1. PICK s : s = <<Caller>> \o Tail(stack)
  OBVIOUS
<1>2. /\ Command /\ fw \in Live \cup {Nil, Top.fw} /\ Execute(fw, TRUE, keeps, s)
      /\ UNCHANGED <<functions, last_added, depth, is_executing_complex_function, pointer,
                     busy_read, curr_read_depth, scheduled, freed, undefined>>
  BY <1>1 DEF CmdConditional, otherVars, windowVars
<1>3. Safe(fw, s, freed)
  BY <1>2, Start DEF Safe, Live, Command
<1>4. /\ Settled(s, functions, depth, is_executing_complex_function, pointer,
                 curr_read_depth, freed)
      /\ CommandsCounted(s, func_depth, rcs)
  BY <1>1, <1>2, CallsKeep
<1>5. /\ Settled(stack', functions, depth, is_executing_complex_function, pointer,
                 curr_read_depth, freed)
      /\ CommandsCounted(stack', func_depth', rcs')
  BY <1>2, <1>3, <1>4, ExecuteKeeps
<1> QED
  BY <1>2, <1>5 DEF IInv, Scalars

(* the window of a running function *)
LEMMA FunctionWindow ==
  ASSUME IInv, Runs({"func"})
  PROVE  /\ Top.fw \notin freed /\ Top.fw \in Windows \cup {Nil}
         /\ Top.fn \in DOMAIN functions /\ functions[Top.fn].items \in Seq(Conds)
<1>1. stack # <<>> /\ Top.at = "func" /\ Top \in Frame /\ Top = stack[1] /\ 1 \in DOMAIN stack
  BY TopFacts, Start DEF Runs
<1>2. Top.fw \notin freed
  BY <1>1, Start DEF Settled, WindowsLive
<1>3. Top.fn \in DOMAIN functions
  BY <1>1, Start DEF Settled, FunctionsCounted
<1>4. Top.fw \in Windows \cup {Nil}
  BY <1>1 DEF Frame
<1>5. functions[Top.fn].items \in Seq(Conds)
  BY <1>3 DEF IInv, Scalars, FunctionType
<1> QED
  BY <1>2, <1>3, <1>4, <1>5

LEMMA RunItemKeeps ==
  ASSUME IInv, NEW keeps \in BOOLEAN, RunItem(keeps)
  PROVE  IInv'
<1>1. PICK g, s : g = [Top EXCEPT !.n = Min(Remaining) + 1] /\ s = <<g>> \o Tail(stack)
  OBVIOUS
<1>2. /\ Runs({"func"}) /\ Remaining # {} /\ Execute(Top.fw, TRUE, keeps, s)
      /\ UNCHANGED <<functions, last_added, depth, is_executing_complex_function, pointer,
                     busy_read, curr_read_depth, scheduled, freed, undefined>>
  BY <1>1 DEF RunItem, otherVars, windowVars
<1>3. Top \in Frame /\ Top = stack[1] /\ stack # <<>>
  BY <1>2, TopFacts DEF Runs
<1>4. Min(Remaining) \in Nat
  <2>1. Items \in Seq(Conds) /\ Top.n \in Nat
    BY <1>2, <1>3, FunctionWindow DEF Items, Frame
  <2>2. Remaining \subseteq Nat
    BY <2>1 DEF Remaining
  <2> QED
    BY <1>2, <2>2, LeastOf
<1>5. /\ g \in Frame /\ g.at = Top.at /\ g.own = Top.own /\ g.fn = Top.fn
      /\ g.regrab = Top.regrab /\ g.fw = Top.fw /\ g.wins = Top.wins
  <2>1. PICK n \in Nat : n = Min(Remaining) + 1
    BY <1>4
  <2>2. g = [Top EXCEPT !.n = n]
    BY <1>1, <2>1
  <2> QED
    BY <1>3, <2>2 DEF Frame
<1>6. Like(stack, s, freed)
  <2>1. GoesOn(stack[1], g, freed)
    BY <1>3, <1>5 DEF GoesOn
  <2> QED
    BY <1>1, <1>3, <1>5, <2>1, Start, LikeTop
<1>7. /\ Settled(s, functions, depth, is_executing_complex_function, pointer,
                 curr_read_depth, freed)
      /\ CommandsCounted(s, func_depth, rcs)
  BY <1>6, Start, LikeSettled, LikeCommands
<1>8. Safe(Top.fw, s, freed) /\ Top.fw \in Windows \cup {Nil}
  BY <1>2, FunctionWindow DEF Safe
<1>9. /\ Settled(stack', functions, depth, is_executing_complex_function, pointer,
                 curr_read_depth, freed)
      /\ CommandsCounted(stack', func_depth', rcs')
  BY <1>2, <1>7, <1>8, ExecuteKeeps
<1> QED
  BY <1>2, <1>9 DEF IInv, Scalars

LEMMA NextPhaseKeeps ==
  ASSUME IInv, NEW type \in Conds, NEW fw \in Windows \cup {Nil}, NextPhase(type, fw)
  PROVE  IInv'
<1>1. PICK g, s : g = [Top EXCEPT !.phase = type, !.n = 1, !.fw = fw] /\ s = <<g>> \o Tail(stack)
  OBVIOUS
<1>2. /\ Runs({"func"}) /\ stack' = s
      /\ fw \in IF Top.fw = Nil THEN Live \cup {Nil} ELSE {Top.fw}
      /\ UNCHANGED <<rcs, func_depth, functions, last_added, depth,
                     is_executing_complex_function, pointer,
                     busy_read, curr_read_depth, scheduled, freed, undefined>>
  BY <1>1 DEF NextPhase, otherVars, windowVars
<1>3. Top \in Frame /\ Top = stack[1] /\ stack # <<>>
  BY <1>2, TopFacts DEF Runs
<1>4. /\ g \in Frame /\ g.at = Top.at /\ g.own = Top.own /\ g.fn = Top.fn
      /\ g.regrab = Top.regrab /\ g.fw = fw /\ g.wins = Top.wins
  BY <1>1, <1>3 DEF Frame
<1>5. fw = Top.fw \/ fw \notin freed
  BY <1>2, Start DEF Live
<1>6. Like(stack, s, freed)
  <2>1. GoesOn(stack[1], g, freed)
    BY <1>3, <1>4, <1>5 DEF GoesOn
  <2> QED
    BY <1>1, <1>3, <1>4, <2>1, Start, LikeTop
<1>7. /\ Settled(stack', functions, depth, is_executing_complex_function, pointer,
                 curr_read_depth, freed)
      /\ CommandsCounted(stack', func_depth, rcs)
  BY <1>2, <1>6, Start, LikeSettled, LikeCommands
<1> QED
  BY <1>2, <1>7 DEF IInv, Scalars

(* what a Break said of the functions is not part of the invariant *)
LEMMA UnsureLike ==
  ASSUME IInv, stack # <<>>
  PROVE  /\ Like(stack, Unsure, freed) /\ Unsure # <<>> /\ Unsure \in Seq(Frame)
         /\ Unsure[1].at = Top.at /\ Unsure[1].own = Top.own /\ Unsure[1].fn = Top.fn
         /\ Unsure[1].regrab = Top.regrab /\ Unsure[1].fw = Top.fw /\ Unsure[1].wins = Top.wins
<1>1. PICK m \in Nat : stack \in [1 .. m -> Frame] /\ Len(stack) = m
  BY Start
<1>2. ASSUME NEW f \in Frame PROVE [f EXCEPT !.left = "unsure"] \in Frame
  BY DEF Frame
<1>3. Unsure \in [1 .. m -> Frame]
  BY <1>1, <1>2 DEF Unsure
<1>4. Unsure \in Seq(Frame) /\ Len(Unsure) = m
  BY <1>3
<1>5. ASSUME NEW i \in DOMAIN stack
      PROVE  /\ Unsure[i].at = stack[i].at /\ Unsure[i].own = stack[i].own
             /\ Unsure[i].fn = stack[i].fn /\ Unsure[i].regrab = stack[i].regrab
             /\ Unsure[i].fw = stack[i].fw /\ Unsure[i].wins = stack[i].wins
  <2>1. stack[i] \in Frame
    BY <1>1
  <2>2. Unsure[i] = [stack[i] EXCEPT !.left = "unsure"] \/ Unsure[i] = stack[i]
    BY DEF Unsure
  <2> QED
    BY <2>1, <2>2 DEF Frame
<1>6. Like(stack, Unsure, freed)
  BY <1>1, <1>4, <1>5 DEF Like, GoesOn
<1>7. 1 \in DOMAIN stack /\ Top = stack[1] /\ m # 0
  BY <1>1, Start DEF Top
<1> QED
  BY <1>4, <1>5, <1>6, <1>7

LEMMA AllNextKeeps ==
  ASSUME IInv, AllNext
  PROVE  IInv'
<1>1. /\ Runs({"all"}) /\ Top.wins # <<>>
      /\ UNCHANGED <<functions, last_added, depth, is_executing_complex_function, pointer,
                     busy_read, curr_read_depth, scheduled, freed>>
  BY DEF AllNext, windowVars
<1>2. PICK w, g, s : /\ w = Head(Top.wins) /\ g = [Top EXCEPT !.wins = Tail(@)]
                     /\ s = <<g>> \o Tail(Unsure)
  OBVIOUS
<1>3. \/ undefined' = TRUE /\ UNCHANGED <<stack, rcs, func_depth>>
      \/ w \notin freed /\ Execute(w, TRUE, FALSE, s) /\ undefined' = undefined
  BY <1>2 DEF AllNext
<1>4. CASE undefined' = TRUE /\ UNCHANGED <<stack, rcs, func_depth>>
  BY <1>1, <1>4 DEF IInv, Scalars
<1>5. CASE w \notin freed /\ Execute(w, TRUE, FALSE, s) /\ undefined' = undefined
  <2>1. Top \in Frame /\ Top = stack[1] /\ stack # <<>>
    BY <1>1, TopFacts DEF Runs
  <2>2. PICK ws \in Seq(Windows) : ws = Top.wins
    BY <2>1 DEF Frame
  <2>3. /\ w \in Windows /\ Tail(ws) \in Seq(Windows)
        /\ \A i \in DOMAIN Tail(ws) : Tail(ws)[i] = ws[i + 1] /\ i + 1 \in DOMAIN ws
    BY <1>1, <1>2, <2>2
  <2>4. ToSet(Tail(ws)) \subseteq ToSet(ws)
    BY <2>3 DEF ToSet
  <2>5. PICK ts \in Seq(Windows) : ts = Tail(ws)
    BY <2>3
  <2>6. g = [Top EXCEPT !.wins = ts]
    BY <1>2, <2>2, <2>5
  <2>7. /\ g \in Frame /\ g.at = Top.at /\ g.own = Top.own /\ g.fn = Top.fn
        /\ g.regrab = Top.regrab /\ g.fw = Top.fw /\ g.wins = ts
    BY <2>1, <2>6 DEF Frame
  <2>8. Like(Unsure, s, freed)
    <3>1. GoesOn(Unsure[1], g, freed)
      BY <2>1, <2>2, <2>4, <2>5, <2>7, UnsureLike DEF GoesOn
    <3> QED
      BY <1>2, <2>1, <2>7, <3>1, UnsureLike, LikeTop
  <2>9. /\ Settled(Unsure, functions, depth, is_executing_complex_function, pointer,
                   curr_read_depth, freed)
        /\ CommandsCounted(Unsure, func_depth, rcs)
    BY <2>1, Start, UnsureLike, LikeSettled, LikeCommands
  <2>10. /\ Settled(s, functions, depth, is_executing_complex_function, pointer,
                    curr_read_depth, freed)
         /\ CommandsCounted(s, func_depth, rcs)
    BY <2>1, <2>8, <2>9, UnsureLike, LikeSettled, LikeCommands
  <2>11. Safe(w, s, freed)
    BY <1>5 DEF Safe
  <2>12. /\ Settled(stack', functions, depth, is_executing_complex_function, pointer,
                    curr_read_depth, freed)
         /\ CommandsCounted(stack', func_depth', rcs')
    BY <1>5, <2>3, <2>10, <2>11, ExecuteKeeps
  <2> QED
    BY <1>1, <1>5, <2>12 DEF IInv, Scalars
<1> QED
  BY <1>3, <1>4, <1>5

LEMMA StreamLineKeeps ==
  ASSUME IInv, StreamLine
  PROVE  IInv'
<1>1. PICK u, g, s, keeps : /\ u = (IF Top.at = "pipe" THEN Unsure ELSE stack)
                            /\ g = [Top EXCEPT !.n = @ - 1] /\ s = <<g>> \o Tail(u)
                            /\ keeps = (Top.at = "pipe")
  OBVIOUS
<1>2. /\ Runs({"read", "pipe"}) /\ Top.n > 0 /\ Execute(Top.fw, keeps, FALSE, s)
      /\ UNCHANGED <<functions, last_added, depth, is_executing_complex_function, pointer,
                     busy_read, curr_read_depth, scheduled, freed, undefined>>
  BY <1>1 DEF StreamLine, otherVars, windowVars
<1>3. Top \in Frame /\ Top = stack[1] /\ stack # <<>>
  BY <1>2, TopFacts DEF Runs
<1>4. /\ u \in Seq(Frame) /\ u # <<>>
      /\ u[1].at = Top.at /\ u[1].own = Top.own /\ u[1].fn = Top.fn
      /\ u[1].regrab = Top.regrab /\ u[1].fw = Top.fw /\ u[1].wins = Top.wins
  BY <1>1, <1>3, Start, UnsureLike
<1>5. /\ Settled(u, functions, depth, is_executing_complex_function, pointer,
                 curr_read_depth, freed)
      /\ CommandsCounted(u, func_depth, rcs)
  BY <1>1, <1>3, Start, UnsureLike, LikeSettled, LikeCommands
<1>6. /\ g \in Frame /\ g.at = Top.at /\ g.own = Top.own /\ g.fn = Top.fn
      /\ g.regrab = Top.regrab /\ g.fw = Top.fw /\ g.wins = Top.wins
  <2>1. PICK n \in Nat : n = Top.n - 1
    BY <1>2, <1>3 DEF Frame
  <2>2. g = [Top EXCEPT !.n = n]
    BY <1>1, <2>1
  <2> QED
    BY <1>3, <2>2 DEF Frame
<1>7. Like(u, s, freed) /\ s[1] = g /\ s # <<>>
  <2>1. GoesOn(u[1], g, freed)
    BY <1>4, <1>6 DEF GoesOn
  <2> QED
    BY <1>1, <1>4, <1>6, <2>1, LikeTop
<1>8. /\ Settled(s, functions, depth, is_executing_complex_function, pointer,
                 curr_read_depth, freed)
      /\ CommandsCounted(s, func_depth, rcs)
  BY <1>4, <1>5, <1>7, LikeSettled, LikeCommands
<1>9. Safe(Top.fw, s, freed) /\ Top.fw \in Windows \cup {Nil}
  BY <1>3, <1>6, <1>7 DEF Safe, Frame
<1>10. keeps \in BOOLEAN
  BY <1>1
<1>11. /\ Settled(stack', functions, depth, is_executing_complex_function, pointer,
                  curr_read_depth, freed)
       /\ CommandsCounted(stack', func_depth', rcs')
  BY <1>2, <1>8, <1>9, <1>10, ExecuteKeeps
<1> QED
  BY <1>2, <1>11 DEF IInv, Scalars
---------------------------------------------------------------------------
(* Frames that are counted *)

(* the parts of the invariant that a frame other than a function leaves alone *)
LEMMA OtherPush ==
  ASSUME NEW s, NEW fs, NEW d, NEW e, NEW p, NEW c, NEW dead, Settled(s, fs, d, e, p, c, dead),
         NEW dd, NEW r, CommandsCounted(s, dd, r),
         NEW f \in Frame, f.at \notin {"func", "call", "back"},
         f \in Regrabs => Num(s, Regrabs) + 1 <= Num(s, Activations),
         f.fw \notin dead, ToSet(f.wins) \cap dead = {}
  PROVE  /\ Shaped(<<f>> \o s) /\ FunctionsCounted(<<f>> \o s, fs, d, e)
         /\ WindowsLive(<<f>> \o s, dead) /\ CommandsCounted(<<f>> \o s, dd, r)
         /\ Num(<<f>> \o s, Activations) = Num(s, Activations)
<1>1. s \in Seq(Frame) /\ f \notin Activations /\ f \notin Commands /\ f \notin Owners
  BY DEF Settled, Shaped, Activations, Commands, Owners
<1>2. Shaped(<<f>> \o s)
  BY ShapedPush DEF Settled
<1>3. FunctionsCounted(<<f>> \o s, fs, d, e)
  BY <1>1, FunctionsPush DEF Settled
<1>4. WindowsLive(<<f>> \o s, dead)
  BY <1>1, WindowsPush DEF Settled, Safe
<1>5. Num(<<f>> \o s, Activations) = Num(s, Activations)
  BY <1>1, NumCons
<1>6. CommandsCounted(<<f>> \o s, dd, r)
  BY <1>1, NumCons DEF CommandsCounted
<1> QED
  BY <1>2, <1>3, <1>4, <1>5, <1>6

LEMMA OtherPop ==
  ASSUME NEW s, s # <<>>, NEW fs, NEW d, NEW e, NEW p, NEW c, NEW dead,
         Settled(s, fs, d, e, p, c, dead), NEW dd, NEW r, CommandsCounted(s, dd, r),
         s[1].at \notin {"func", "call", "back"}
  PROVE  /\ Shaped(Tail(s)) /\ FunctionsCounted(Tail(s), fs, d, e)
         /\ WindowsLive(Tail(s), dead) /\ CommandsCounted(Tail(s), dd, r)
         /\ Num(Tail(s), Activations) = Num(s, Activations)
         /\ Tail(s) \in Seq(Frame) /\ s[1] \in Frame
<1>1. s \in Seq(Frame) /\ s[1] \notin Activations /\ s[1] \notin Commands /\ s[1] \notin Owners
  BY DEF Settled, Shaped, Activations, Commands, Owners
<1>2. Shaped(Tail(s))
  BY ShapedPop DEF Settled
<1>3. FunctionsCounted(Tail(s), fs, d, e)
  BY <1>1, FunctionsPop DEF Settled
<1>4. WindowsLive(Tail(s), dead)
  BY <1>1, WindowsPop DEF Settled
<1>5. Num(Tail(s), Activations) = Num(s, Activations)
  BY <1>1, NumTail
<1>6. CommandsCounted(Tail(s), dd, r)
  BY <1>1, NumTail DEF CommandsCounted
<1>7. Tail(s) \in Seq(Frame) /\ s[1] \in Frame
  BY <1>1, PopAt
<1> QED
  BY <1>2, <1>3, <1>4, <1>5, <1>6, <1>7

(* the numbers in p *)
LEMMA PointerNumbers ==
  ASSUME NEW s, NEW p, Shaped(s), GrabsCounted(s, p)
  PROVE  /\ Consistent(p)
         /\ p.count["normal"] \in Nat /\ p.count["passive"] \in Nat /\ p.count["busy"] \in Nat
         /\ p.read_depth \in Nat
         /\ Num(s, Regrabs) \in Nat /\ Num(s, Activations) \in Nat /\ Num(s, Streams) \in Nat
         /\ Num(s, Presses) \in Nat
         /\ p.count["passive"] = Num(s, Presses)
         /\ p.count["normal"] + Num(s, Regrabs) <= Num(s, Activations)
         /\ p.read_depth <= Num(s, Streams)
BY NumType DEF GrabsCounted, Consistent, Pointer, Contexts, Shaped

LEMMA PressPush ==
  ASSUME IInv, NEW q, \E r \in GrabEm(pointer, "passive") : q = r[2],
         NEW s, s = <<At("press", Nil)>> \o stack
  PROVE  /\ Settled(s, functions, depth, is_executing_complex_function, q,
                    curr_read_depth, freed)
         /\ CommandsCounted(s, func_depth, rcs)
<1>1. PICK f : f = At("press", Nil)
  OBVIOUS
<1>2. f \in Frame /\ f.at = "press" /\ f.fw = Nil /\ f.wins = <<>>
  BY <1>1 DEF At, Frame
<1>3. f \notin Regrabs /\ f \notin Readers /\ f \notin Streams /\ f \in Presses
  BY <1>2 DEF Regrabs, Readers, Streams, Presses
<1>4. /\ Shaped(s) /\ FunctionsCounted(s, functions, depth, is_executing_complex_function)
      /\ WindowsLive(s, freed) /\ CommandsCounted(s, func_depth, rcs)
      /\ Num(s, Activations) = Num(stack, Activations)
  BY <1>1, <1>2, <1>3, Start, NoWindows, OtherPush
<1>5. /\ Num(s, Regrabs) = Num(stack, Regrabs) /\ Num(s, Readers) = Num(stack, Readers)
      /\ Num(s, Streams) = Num(stack, Streams) /\ Num(s, Presses) = Num(stack, Presses) + 1
  BY <1>1, <1>2, <1>3, Start, NumCons
<1>6. Shaped(stack) /\ GrabsCounted(stack, pointer) /\ ReadsCounted(stack, curr_read_depth)
  BY Start DEF Settled
<1>7. PICK r \in GrabEm(pointer, "passive") : q = r[2]
  OBVIOUS
<1>8. /\ Added(q) /\ Others(pointer, q, "passive") /\ SameCursor(pointer, q)
      /\ q.count["passive"] = pointer.count["passive"] + One(r[1]) /\ r[1]
  BY <1>6, <1>7, PointerNumbers, GrabFacts
<1>9. /\ q.count["busy"] = pointer.count["busy"] /\ q.count["normal"] = pointer.count["normal"]
      /\ q.count["passive"] = pointer.count["passive"] + 1
      /\ q.read_depth = pointer.read_depth
  BY <1>8 DEF Others, SameCursor, One
<1>10. Consistent(q)
  BY <1>6, <1>8, <1>9, PointerNumbers, ConsistentAgain
<1>11. GrabsCounted(s, q)
  BY <1>4, <1>5, <1>6, <1>9, <1>10 DEF GrabsCounted
<1>12. ReadsCounted(s, curr_read_depth)
  BY <1>5, <1>6 DEF ReadsCounted
<1> QED
  BY <1>4, <1>11, <1>12 DEF Settled

LEMMA HandleButtonPressKeeps ==
  ASSUME IInv, NEW fw \in Windows \cup {Nil}, HandleButtonPress(fw)
  PROVE  IInv'
<1>1. PICK s : s = <<At("press", Nil)>> \o stack
  OBVIOUS
<1>2. /\ fw \in Live \cup {Nil} /\ Execute(fw, FALSE, FALSE, s)
      /\ \E r \in GrabEm(pointer, "passive") : pointer' = r[2]
      /\ UNCHANGED <<functions, last_added, depth, is_executing_complex_function,
                     busy_read, curr_read_depth, scheduled, freed, undefined>>
  BY <1>1 DEF HandleButtonPress, windowVars
<1>3. Safe(fw, s, freed)
  BY <1>2, Start DEF Safe, Live
<1>4. /\ Settled(s, functions, depth, is_executing_complex_function, pointer',
                 curr_read_depth, freed)
      /\ CommandsCounted(s, func_depth, rcs)
  BY <1>1, <1>2, PressPush
<1>5. /\ Settled(stack', functions, depth, is_executing_complex_function, pointer',
                 curr_read_depth, freed)
      /\ CommandsCounted(stack', func_depth', rcs')
  BY <1>2, <1>3, <1>4, ExecuteKeeps
<1> QED
  BY <1>2, <1>5 DEF IInv, Scalars

LEMMA PressEndKeeps ==
  ASSUME IInv, PressEnd
  PROVE  IInv'
<1>1. /\ Runs({"press"}) /\ stack' = Tail(stack) /\ pointer' = UngrabEm(pointer, "passive")
      /\ UNCHANGED <<functions, last_added, rcs, func_depth, depth,
                     is_executing_complex_function,
                     busy_read, curr_read_depth, scheduled, freed, undefined>>
  BY DEF PressEnd, countVars, windowVars
<1>2. PICK f : f = stack[1]
  OBVIOUS
<1>3. stack # <<>> /\ f \in Frame /\ f.at = "press"
  BY <1>1, <1>2, TopFacts DEF Runs
<1>4. f \notin Regrabs /\ f \notin Readers /\ f \notin Streams /\ f \in Presses
  BY <1>3 DEF Regrabs, Readers, Streams, Presses
<1>5. /\ Shaped(stack') /\ WindowsLive(stack', freed) /\ CommandsCounted(stack', func_depth, rcs)
      /\ FunctionsCounted(stack', functions, depth, is_executing_complex_function)
      /\ Num(stack', Activations) = Num(stack, Activations)
  BY <1>1, <1>2, <1>3, Start, OtherPop
<1>6. /\ Num(stack', Regrabs) = Num(stack, Regrabs) /\ Num(stack', Readers) = Num(stack, Readers)
      /\ Num(stack', Streams) = Num(stack, Streams)
      /\ Num(stack', Presses) = Num(stack, Presses) - 1 /\ Num(stack, Presses) >= 1
  BY <1>1, <1>2, <1>3, <1>4, Start, NumTail
<1>7. Shaped(stack) /\ GrabsCounted(stack, pointer) /\ ReadsCounted(stack, curr_read_depth)
  BY Start DEF Settled
<1>8. /\ Added(pointer') /\ Others(pointer, pointer', "passive") /\ SameCursor(pointer, pointer')
      /\ pointer'.count["passive"]
           = IF pointer.count["passive"] > 0 THEN pointer.count["passive"] - 1 ELSE 0
  BY <1>1, <1>7, PointerNumbers, UngrabFacts
<1>9. /\ pointer'.count["busy"] = pointer.count["busy"]
      /\ pointer'.count["normal"] = pointer.count["normal"]
      /\ pointer'.read_depth = pointer.read_depth
  BY <1>8 DEF Others, SameCursor
<1>10. pointer'.count["passive"] = Num(stack', Presses)
  BY <1>6, <1>7, <1>8, PointerNumbers
<1>11. Consistent(pointer')
  BY <1>7, <1>8, <1>9, PointerNumbers, ConsistentAgain
<1>12. GrabsCounted(stack', pointer')
  BY <1>5, <1>6, <1>7, <1>9, <1>10, <1>11 DEF GrabsCounted
<1>13. ReadsCounted(stack', curr_read_depth)
  BY <1>6, <1>7 DEF ReadsCounted
<1> QED
  BY <1>1, <1>5, <1>12, <1>13 DEF IInv, Settled, Scalars

LEMMA CmdAllKeeps ==
  ASSUME IInv, NEW S \in SUBSET Windows, CmdAll(S)
  PROVE  IInv'
<1>1. /\ Command /\ S \subseteq Live
      /\ UNCHANGED <<rcs, func_depth, functions, last_added, depth,
                     is_executing_complex_function, pointer,
                     busy_read, curr_read_depth, scheduled, freed, undefined>>
  BY DEF CmdAll, otherVars, windowVars
<1>2. PICK wins \in SetToSeqs(S) : stack' = Calls([At("all", Nil) EXCEPT !.wins = wins])
  BY DEF CmdAll
<1>3. wins \in Seq(Windows) /\ ToSet(wins) \cap freed = {}
  <2>1. IsFiniteSet(S)
    BY ExecutionAssumption, FS_Subset
  <2>2. PICK n \in Nat : n = Cardinality(S)
    BY <2>1, FS_CardinalityType
  <2>3. wins \in [1 .. n -> S]
    BY <1>2, <2>2 DEF SetToSeqs
  <2>4. wins \in Seq(S)
    BY <2>3
  <2>5. \A i \in DOMAIN wins : wins[i] \notin freed
    BY <1>1, <2>3 DEF Live
  <2> QED
    BY <2>3, <2>4, <2>5 DEF ToSet
<1>4. PICK f : f = [At("all", Nil) EXCEPT !.wins = wins]
  OBVIOUS
<1>5. f \in Frame /\ f.at = "all" /\ f.fw = Nil /\ f.wins = wins
  <2>1. PICK a : a = At("all", Nil)
    OBVIOUS
  <2>2. a \in Frame /\ a.at = "all" /\ a.fw = Nil
    BY <2>1 DEF At, Frame
  <2>3. f = [a EXCEPT !.wins = wins]
    BY <1>4, <2>1
  <2> QED
    BY <1>3, <2>2, <2>3 DEF Frame
<1>6. f \in Plain /\ f \notin Commands /\ f \notin Owners
  BY <1>5 DEF Plain, Activations, Streams, Presses, Regrabs, Commands, Owners
<1>7. PICK s : s = <<Caller>> \o Tail(stack)
  OBVIOUS
<1>8. /\ Settled(s, functions, depth, is_executing_complex_function, pointer,
                 curr_read_depth, freed)
      /\ CommandsCounted(s, func_depth, rcs) /\ s \in Seq(Frame)
      /\ stack' = <<f>> \o s
  BY <1>1, <1>2, <1>4, <1>7, CallsKeep
<1>9. Safe(f.fw, s, freed) /\ ToSet(f.wins) \cap freed = {}
  BY <1>3, <1>5, Start DEF Safe
<1>10. Settled(stack', functions, depth, is_executing_complex_function, pointer,
               curr_read_depth, freed)
  BY <1>6, <1>8, <1>9, PlainPush
<1>11. CommandsCounted(stack', func_depth, rcs)
  BY <1>5, <1>6, <1>8, NumCons DEF CommandsCounted
<1> QED
  BY <1>1, <1>10, <1>11 DEF IInv, Scalars

LEMMA AllEndKeeps ==
  ASSUME IInv, AllEnd
  PROVE  IInv'
<1>1. /\ Runs({"all"}) /\ stack' = Tail(stack)
      /\ UNCHANGED <<rcs, func_depth, functions, last_added, depth,
                     is_executing_complex_function, pointer,
                     busy_read, curr_read_depth, scheduled, freed, undefined>>
  BY DEF AllEnd, otherVars, windowVars
<1>2. stack # <<>> /\ stack[1] \in Frame /\ stack[1].at = "all"
  BY <1>1, TopFacts DEF Runs
<1>3. stack[1] \in Plain /\ stack[1] \notin Commands /\ stack[1] \notin Owners
  BY <1>2 DEF Plain, Activations, Streams, Presses, Regrabs, Commands, Owners
<1>4. Settled(stack', functions, depth, is_executing_complex_function, pointer,
              curr_read_depth, freed)
  BY <1>1, <1>2, <1>3, Start, PlainPop
<1>5. CommandsCounted(stack', func_depth, rcs)
  BY <1>1, <1>2, <1>3, Start, NumTail DEF CommandsCounted
<1> QED
  BY <1>1, <1>4, <1>5 DEF IInv, Scalars
---------------------------------------------------------------------------
(* Files of commands, and Wait *)

LEMMA StreamPush ==
  ASSUME IInv, Command, NEW point \in {"read", "pipe"},
         pointer' \in BusyOn(pointer),
         NEW c, c = curr_read_depth + One(point = "read"), c <= MAX_READ_DEPTH,
         stack' = Calls([At(point, Top.fw) EXCEPT !.n = MaxLines])
  PROVE  /\ Settled(stack', functions, depth, is_executing_complex_function, pointer', c, freed)
         /\ CommandsCounted(stack', func_depth, rcs)
<1>1. PICK s, f : s = <<Caller>> \o Tail(stack) /\ f = [At(point, Top.fw) EXCEPT !.n = MaxLines]
  OBVIOUS
<1>2. /\ Settled(s, functions, depth, is_executing_complex_function, pointer,
                 curr_read_depth, freed)
      /\ CommandsCounted(s, func_depth, rcs) /\ s \in Seq(Frame)
      /\ stack' = <<f>> \o s
  BY <1>1, CallsKeep
<1>3. Top.fw \in Windows \cup {Nil} /\ Top.fw \notin freed
  <2>1. Top \in Frame
    BY TopFacts DEF Command, Runs
  <2> QED
    BY <2>1 DEF Frame, Command
<1>4. f \in Frame /\ f.at = point /\ f.fw = Top.fw /\ f.wins = <<>>
  <2>1. PICK a : a = At(point, Top.fw)
    OBVIOUS
  <2>2. a \in Frame /\ a.at = point /\ a.fw = Top.fw /\ a.wins = <<>>
    BY <1>3, <2>1 DEF At, Frame
  <2>3. f = [a EXCEPT !.n = MaxLines]
    BY <1>1, <2>1
  <2> QED
    BY <2>2, <2>3, ExecutionAssumption DEF Frame
<1>5. /\ f \notin Regrabs /\ f \notin Presses /\ f \in Streams
      /\ f \in Readers <=> point = "read"
  BY <1>4 DEF Regrabs, Readers, Streams, Presses
<1>6. /\ Shaped(stack') /\ WindowsLive(stack', freed) /\ CommandsCounted(stack', func_depth, rcs)
      /\ FunctionsCounted(stack', functions, depth, is_executing_complex_function)
      /\ Num(stack', Activations) = Num(s, Activations)
  <2>1. f.at \notin {"func", "call", "back"} /\ f.fw \notin freed /\ ToSet(f.wins) \cap freed = {}
    BY <1>3, <1>4, NoWindows
  <2>2. f \in Regrabs => Num(s, Regrabs) + 1 <= Num(s, Activations)
    BY <1>5
  <2> QED
    BY ONLY <1>2, <1>4, <2>1, <2>2, OtherPush
<1>7. /\ Num(stack', Regrabs) = Num(s, Regrabs) /\ Num(stack', Presses) = Num(s, Presses)
      /\ Num(stack', Streams) = Num(s, Streams) + 1
      /\ Num(stack', Readers) = Num(s, Readers) + One(point = "read")
  <2>1. Num(s, Readers) \in Nat
    BY <1>2, NumType
  <2>2. /\ point = "read" => Num(stack', Readers) = Num(s, Readers) + 1
        /\ point # "read" => Num(stack', Readers) = Num(s, Readers)
    BY ONLY <1>2, <1>4, <1>5, NumCons
  <2>3. /\ Num(stack', Regrabs) = Num(s, Regrabs) /\ Num(stack', Presses) = Num(s, Presses)
        /\ Num(stack', Streams) = Num(s, Streams) + 1
    BY ONLY <1>2, <1>4, <1>5, NumCons
  <2> QED
    BY <2>1, <2>2, <2>3 DEF One
<1>8. Shaped(s) /\ GrabsCounted(s, pointer) /\ ReadsCounted(s, curr_read_depth)
  BY <1>2 DEF Settled
<1>9. Consistent(pointer)
  BY <1>8, PointerNumbers
<1>10. PICK q : q = pointer'
  OBVIOUS
<1>11. /\ Consistent(q)
       /\ q.count["normal"] = pointer.count["normal"] /\ q.count["passive"] = pointer.count["passive"]
       /\ q.read_depth <= pointer.read_depth + 1 /\ q.read_depth \in Nat
  BY <1>9, <1>10, BusyOnFacts DEF Consistent, Pointer
<1>12. GrabsCounted(stack', q)
  <2>1. pointer.read_depth <= Num(s, Streams) /\ pointer.read_depth \in Nat /\ Num(s, Streams) \in Nat
    BY <1>8, PointerNumbers
  <2>2. q.read_depth <= Num(stack', Streams)
    BY <1>7, <1>11, <2>1
  <2> QED
    BY <1>6, <1>7, <1>8, <1>11, <2>2 DEF GrabsCounted
<1>13. ReadsCounted(stack', c)
  BY <1>7, <1>8 DEF ReadsCounted
<1> QED
  BY <1>6, <1>10, <1>12, <1>13 DEF Settled

LEMMA CmdReadKeeps ==
  ASSUME IInv, CmdRead
  PROVE  IInv'
<1>1. /\ Command /\ curr_read_depth < MAX_READ_DEPTH /\ curr_read_depth' = curr_read_depth + 1
      /\ pointer' \in BusyOn(pointer)
      /\ stack' = Calls([At("read", Top.fw) EXCEPT !.n = MaxLines])
      /\ UNCHANGED <<functions, last_added, rcs, func_depth, depth,
                     is_executing_complex_function, busy_read, scheduled, freed, undefined>>
  BY DEF CmdRead, countVars, windowVars
<1>2. curr_read_depth \in Nat
  BY Start, NumType DEF Settled, ReadsCounted
<1>3. PICK point, c : point \in {"read", "pipe"} /\ point = "read" /\ c = curr_read_depth + 1
  OBVIOUS
<1>4. c = curr_read_depth + One(point = "read") /\ c <= MAX_READ_DEPTH
  BY <1>1, <1>2, <1>3, ExecutionAssumption DEF One
<1>5. /\ Settled(stack', functions, depth, is_executing_complex_function, pointer', c, freed)
      /\ CommandsCounted(stack', func_depth, rcs)
  BY <1>1, <1>3, <1>4, StreamPush
<1> QED
  BY <1>1, <1>3, <1>5 DEF IInv, Scalars

LEMMA CmdPipeReadKeeps ==
  ASSUME IInv, CmdPipeRead
  PROVE  IInv'
<1>1. /\ Command /\ pointer' \in BusyOn(pointer)
      /\ stack' = Calls([At("pipe", Top.fw) EXCEPT !.n = MaxLines])
      /\ UNCHANGED <<functions, last_added, rcs, func_depth, depth,
                     is_executing_complex_function, busy_read, curr_read_depth,
                     scheduled, freed, undefined>>
  BY DEF CmdPipeRead, countVars, windowVars
<1>2. curr_read_depth \in Nat /\ curr_read_depth <= MAX_READ_DEPTH
  BY Start, NumType DEF Settled, ReadsCounted
<1>3. PICK point \in {"read", "pipe"} : point = "pipe"
  OBVIOUS
<1>4. curr_read_depth = curr_read_depth + One(point = "read")
  BY <1>2, <1>3 DEF One
<1>5. /\ Settled(stack', functions, depth, is_executing_complex_function, pointer',
                 curr_read_depth, freed)
      /\ CommandsCounted(stack', func_depth, rcs)
  BY <1>1, <1>2, <1>3, <1>4, StreamPush
<1> QED
  BY <1>1, <1>5 DEF IInv, Scalars

LEMMA StreamEndKeeps ==
  ASSUME IInv, StreamEnd
  PROVE  IInv'
<1>1. /\ Runs({"read", "pipe"}) /\ stack' = Tail(stack) /\ pointer' = BusyOff(pointer)
      /\ curr_read_depth' = curr_read_depth - (IF Top.at = "read" THEN 1 ELSE 0)
      /\ UNCHANGED <<functions, last_added, rcs, func_depth, depth,
                     is_executing_complex_function, busy_read, scheduled, freed, undefined>>
  BY DEF StreamEnd, countVars, windowVars
<1>2. PICK f : f = stack[1]
  OBVIOUS
<1>3. stack # <<>> /\ f \in Frame /\ f = Top /\ f.at \in {"read", "pipe"}
  BY <1>1, <1>2, TopFacts DEF Runs
<1>4. /\ f \notin Regrabs /\ f \notin Presses /\ f \in Streams
      /\ f \in Readers <=> f.at = "read"
  BY <1>3 DEF Regrabs, Readers, Streams, Presses
<1>5. /\ Shaped(stack') /\ WindowsLive(stack', freed) /\ CommandsCounted(stack', func_depth, rcs)
      /\ FunctionsCounted(stack', functions, depth, is_executing_complex_function)
      /\ Num(stack', Activations) = Num(stack, Activations) /\ stack' \in Seq(Frame)
  BY <1>1, <1>2, <1>3, Start, OtherPop
<1>6. /\ Num(stack', Regrabs) = Num(stack, Regrabs) /\ Num(stack', Presses) = Num(stack, Presses)
      /\ Num(stack', Streams) = Num(stack, Streams) - 1 /\ Num(stack, Streams) >= 1
      /\ f.at = "read" => Num(stack', Readers) = Num(stack, Readers) - 1
      /\ f.at # "read" => Num(stack', Readers) = Num(stack, Readers)
  BY <1>1, <1>2, <1>3, <1>4, Start, NumTail
<1>7. Shaped(stack) /\ GrabsCounted(stack, pointer) /\ ReadsCounted(stack, curr_read_depth)
  BY Start DEF Settled
<1>8. Consistent(pointer) /\ pointer.read_depth <= Num(stack, Streams) /\ pointer.read_depth \in Nat
  BY <1>7, PointerNumbers
<1>9. PICK q : q = pointer'
  OBVIOUS
<1>10. /\ Consistent(q)
       /\ q.count["normal"] = pointer.count["normal"] /\ q.count["passive"] = pointer.count["passive"]
       /\ q.read_depth = 0 \/ q.read_depth = pointer.read_depth - 1
  BY <1>1, <1>8, <1>9, BusyOffFacts
<1>11. q.read_depth <= Num(stack', Streams)
  <2>1. Num(stack', Streams) \in Nat /\ Num(stack, Streams) \in Nat
    BY <1>5, Start, NumType
  <2> QED
    BY <1>6, <1>8, <1>10, <2>1
<1>12. GrabsCounted(stack', q)
  BY <1>5, <1>6, <1>7, <1>10, <1>11 DEF GrabsCounted
<1>13. ReadsCounted(stack', curr_read_depth')
  <2>1. curr_read_depth = Num(stack, Readers) /\ curr_read_depth <= MAX_READ_DEPTH
        /\ Num(stack, Readers) \in Nat
    BY <1>7, Start, NumType DEF ReadsCounted
  <2> QED
    BY <1>1, <1>3, <1>6, <2>1, ExecutionAssumption DEF ReadsCounted
<1> QED
  BY <1>1, <1>5, <1>9, <1>12, <1>13 DEF IInv, Settled, Scalars

LEMMA CmdWaitKeeps ==
  ASSUME IInv, CmdWait
  PROVE  IInv'
<1>1. PICK b : b = IsGrabbed(pointer, "normal")
  OBVIOUS
<1>2. PICK f, s : f = [At("wait", Nil) EXCEPT !.regrab = b] /\ s = <<Caller>> \o Tail(stack)
  OBVIOUS
<1>3. /\ Command /\ pointer' = UngrabEm(pointer, "normal") /\ stack' = Calls(f)
      /\ UNCHANGED <<functions, last_added, rcs, func_depth, depth,
                     is_executing_complex_function, busy_read, curr_read_depth,
                     scheduled, freed, undefined>>
  BY <1>1, <1>2 DEF CmdWait, countVars, windowVars
<1>4. /\ Settled(s, functions, depth, is_executing_complex_function, pointer,
                 curr_read_depth, freed)
      /\ CommandsCounted(s, func_depth, rcs) /\ s \in Seq(Frame)
      /\ stack' = <<f>> \o s
  BY <1>2, <1>3, CallsKeep
<1>5. Shaped(s) /\ GrabsCounted(s, pointer) /\ ReadsCounted(s, curr_read_depth)
  BY <1>4 DEF Settled
<1>6. /\ Consistent(pointer)
      /\ pointer.count["normal"] \in Nat /\ pointer.read_depth \in Nat
      /\ Num(s, Regrabs) \in Nat /\ Num(s, Activations) \in Nat
      /\ pointer.count["normal"] + Num(s, Regrabs) <= Num(s, Activations)
  BY <1>5, PointerNumbers
<1>7. b \in BOOLEAN /\ (b <=> pointer.count["normal"] > 0)
  <2>1. pointer.count["normal"] > 0 => pointer.count["all"] > 0
    BY <1>6 DEF Consistent, Pointer, Contexts
  <2>2. b <=> (pointer.count["normal"] > 0 /\ pointer.count["all"] > 0)
    BY <1>1 DEF IsGrabbed
  <2>3. b \in BOOLEAN
    BY <1>1 DEF IsGrabbed
  <2> QED
    BY <2>1, <2>2, <2>3
<1>8. f \in Frame /\ f.at = "wait" /\ f.fw = Nil /\ f.wins = <<>> /\ f.regrab = b
  <2>1. PICK a : a = At("wait", Nil)
    OBVIOUS
  <2>2. a \in Frame /\ a.at = "wait" /\ a.fw = Nil /\ a.wins = <<>>
    BY <2>1 DEF At, Frame
  <2>3. f = [a EXCEPT !.regrab = b]
    BY <1>2, <2>1
  <2> QED
    BY <1>7, <2>2, <2>3 DEF Frame
<1>9. /\ f \notin Presses /\ f \notin Streams /\ f \notin Readers
      /\ f \in Regrabs <=> b
  BY <1>8 DEF Regrabs, Readers, Streams, Presses
<1>10. /\ Shaped(stack') /\ WindowsLive(stack', freed) /\ CommandsCounted(stack', func_depth, rcs)
       /\ FunctionsCounted(stack', functions, depth, is_executing_complex_function)
       /\ Num(stack', Activations) = Num(s, Activations)
  <2>1. /\ f.at \notin {"func", "call", "back"} /\ f.fw \notin freed
        /\ ToSet(f.wins) \cap freed = {}
    BY <1>8, Start, NoWindows
  <2>2. f \in Regrabs => Num(s, Regrabs) + 1 <= Num(s, Activations)
    BY <1>6, <1>7, <1>9
  <2> QED
    BY <1>4, <1>8, <2>1, <2>2, OtherPush
<1>11. /\ Num(stack', Presses) = Num(s, Presses) /\ Num(stack', Streams) = Num(s, Streams)
       /\ Num(stack', Readers) = Num(s, Readers)
       /\ b => Num(stack', Regrabs) = Num(s, Regrabs) + 1
       /\ ~b => Num(stack', Regrabs) = Num(s, Regrabs)
  BY <1>4, <1>8, <1>9, NumCons
<1>12. PICK q : q = pointer'
  OBVIOUS
<1>13. /\ Added(q) /\ Others(pointer, q, "normal") /\ SameCursor(pointer, q)
       /\ q.count["normal"]
            = IF pointer.count["normal"] > 0 THEN pointer.count["normal"] - 1 ELSE 0
  BY <1>3, <1>6, <1>12, UngrabFacts
<1>14. /\ q.count["busy"] = pointer.count["busy"] /\ q.count["passive"] = pointer.count["passive"]
       /\ q.read_depth = pointer.read_depth
  BY <1>13 DEF Others, SameCursor
<1>15. Consistent(q)
  BY <1>6, <1>13, <1>14, ConsistentAgain
<1>16. q.count["normal"] + Num(stack', Regrabs) <= Num(stack', Activations)
  BY <1>6, <1>7, <1>10, <1>11, <1>13
<1>17. GrabsCounted(stack', q)
  BY <1>5, <1>11, <1>14, <1>15, <1>16 DEF GrabsCounted
<1>18. ReadsCounted(stack', curr_read_depth)
  BY <1>5, <1>11 DEF ReadsCounted
<1> QED
  BY <1>3, <1>10, <1>12, <1>17, <1>18 DEF IInv, Settled, Scalars

LEMMA WaitEndKeeps ==
  ASSUME IInv, WaitEnd
  PROVE  IInv'
<1>1. /\ Runs({"wait"}) /\ stack' = Tail(stack)
      /\ IF Top.regrab THEN \E r \in GrabEm(pointer, "normal") : pointer' = r[2]
         ELSE pointer' = pointer
      /\ UNCHANGED <<functions, last_added, rcs, func_depth, depth,
                     is_executing_complex_function, busy_read, curr_read_depth,
                     scheduled, freed, undefined>>
  BY DEF WaitEnd, countVars, windowVars
<1>2. PICK f : f = stack[1]
  OBVIOUS
<1>3. stack # <<>> /\ f \in Frame /\ f = Top /\ f.at = "wait"
  BY <1>1, <1>2, TopFacts DEF Runs
<1>4. /\ f \notin Streams /\ f \notin Presses /\ f \notin Readers
      /\ f \in Regrabs <=> f.regrab
  BY <1>3 DEF Regrabs, Readers, Streams, Presses
<1>5. /\ Shaped(stack') /\ WindowsLive(stack', freed) /\ CommandsCounted(stack', func_depth, rcs)
      /\ FunctionsCounted(stack', functions, depth, is_executing_complex_function)
      /\ Num(stack', Activations) = Num(stack, Activations) /\ stack' \in Seq(Frame)
  BY <1>1, <1>2, <1>3, Start, OtherPop
<1>6. /\ Num(stack', Presses) = Num(stack, Presses) /\ Num(stack', Streams) = Num(stack, Streams)
      /\ Num(stack', Readers) = Num(stack, Readers)
      /\ f.regrab => Num(stack', Regrabs) = Num(stack, Regrabs) - 1
      /\ ~f.regrab => Num(stack', Regrabs) = Num(stack, Regrabs)
  BY <1>1, <1>2, <1>3, <1>4, Start, NumTail
<1>7. Shaped(stack) /\ GrabsCounted(stack, pointer) /\ ReadsCounted(stack, curr_read_depth)
  BY Start DEF Settled
<1>8. /\ Consistent(pointer)
      /\ pointer.count["normal"] \in Nat /\ pointer.read_depth \in Nat
      /\ Num(stack, Regrabs) \in Nat /\ Num(stack, Activations) \in Nat
      /\ pointer.count["normal"] + Num(stack, Regrabs) <= Num(stack, Activations)
  BY <1>7, PointerNumbers
<1>9. ReadsCounted(stack', curr_read_depth)
  BY <1>6, <1>7 DEF ReadsCounted
<1>10. GrabsCounted(stack', pointer')
  <2>1. CASE Top.regrab
    <3>1. PICK r \in GrabEm(pointer, "normal") : pointer' = r[2]
      BY <1>1, <2>1
    <3>2. PICK q : q = pointer'
      OBVIOUS
    <3>3. /\ Added(q) /\ r[1] \in BOOLEAN
          /\ Others(pointer, q, "normal") /\ SameCursor(pointer, q)
          /\ q.count["normal"] = pointer.count["normal"] + One(r[1])
      BY <1>8, <3>1, <3>2, GrabFacts
    <3>4. /\ q.count["busy"] = pointer.count["busy"]
          /\ q.count["passive"] = pointer.count["passive"]
          /\ q.read_depth = pointer.read_depth
      BY <3>3 DEF Others, SameCursor
    <3>5. Consistent(q)
      BY <1>8, <3>3, <3>4, ConsistentAgain
    <3>6. q.count["normal"] <= pointer.count["normal"] + 1 /\ q.count["normal"] \in Nat
      BY <1>8, <3>3 DEF One
    <3>7. q.count["normal"] + Num(stack', Regrabs) <= Num(stack', Activations)
      BY <1>3, <1>5, <1>6, <1>8, <2>1, <3>6, SMTT(30)
    <3>8. GrabsCounted(stack', q)
      BY <1>6, <1>7, <3>4, <3>5, <3>7 DEF GrabsCounted
    <3> QED
      BY <3>2, <3>8
  <2>2. CASE ~Top.regrab
    <3>1. pointer' = pointer
      BY <1>1, <2>2
    <3>2. GrabsCounted(stack', pointer)
      BY <1>3, <1>5, <1>6, <1>7, <2>2 DEF GrabsCounted
    <3> QED
      BY <3>1, <3>2
  <2> QED
    BY <2>1, <2>2
<1> QED
  BY <1>1, <1>5, <1>9, <1>10 DEF IInv, Settled, Scalars
---------------------------------------------------------------------------
(* execute_complex_function *)

WithUse(fs, f, n) == [fs EXCEPT ![f].use_depth = n]

LEMMA UseChanges ==
  ASSUME NEW fs, FunctionType(fs), NEW f \in DOMAIN fs, NEW n \in Nat, NEW gs,
         gs = WithUse(fs, f, n)
  PROVE  /\ FunctionType(gs) /\ DOMAIN gs = DOMAIN fs /\ gs[f].use_depth = n
         /\ \A g \in DOMAIN fs \ {f} : gs[g] = fs[g]
<1>1. fs[f] \in [items : Seq(Conds), use_depth : Nat]
  BY DEF FunctionType
<1>2. /\ DOMAIN gs = DOMAIN fs /\ \A g \in DOMAIN fs \ {f} : gs[g] = fs[g]
      /\ gs[f] = [fs[f] EXCEPT !.use_depth = n]
  BY DEF WithUse
<1>3. /\ gs[f] \in [items : Seq(Conds), use_depth : Nat] /\ gs[f].use_depth = n
      /\ gs[f].items = fs[f].items
  BY <1>1, <1>2
<1> QED
  BY <1>2, <1>3 DEF FunctionType

LEMMA CallFunctionKeeps ==
  ASSUME IInv, NEW fn \in Funcs, NEW fw \in Windows \cup {Nil}, CallFunction(fn, fw)
  PROVE  IInv'
<1>1. PICK left : left = IF break_levels = 0 THEN "no" ELSE "unsure"
  OBVIOUS
<1>2. PICK f, s : /\ f = [At("func", fw) EXCEPT !.fn = fn, !.phase = "i", !.n = 1, !.left = left]
                  /\ s = <<Caller>> \o Tail(stack)
  OBVIOUS
<1>3. /\ Command /\ fn \in DOMAIN functions
      /\ fw \in IF Top.fw = Nil THEN Live \cup {Nil} ELSE {Top.fw}
      /\ \E r \in GrabEm(pointer, "normal") : r[1] /\ pointer' = r[2]
      /\ depth' = depth + 1 /\ is_executing_complex_function' = TRUE
      /\ functions' = [functions EXCEPT ![fn].use_depth = @ + 1]
      /\ stack' = Calls(f)
      /\ UNCHANGED <<last_added, rcs, func_depth, busy_read, curr_read_depth,
                     scheduled, freed, undefined>>
  BY <1>1, <1>2 DEF CallFunction, windowVars
<1>4. /\ Settled(s, functions, depth, is_executing_complex_function, pointer,
                 curr_read_depth, freed)
      /\ CommandsCounted(s, func_depth, rcs) /\ s \in Seq(Frame) /\ s # <<>> /\ s[1].at = "back"
      /\ stack' = <<f>> \o s
  BY <1>2, <1>3, CallsKeep
<1>5. /\ Shaped(s) /\ GrabsCounted(s, pointer) /\ ReadsCounted(s, curr_read_depth)
      /\ FunctionsCounted(s, functions, depth, is_executing_complex_function)
      /\ WindowsLive(s, freed)
  BY <1>4 DEF Settled
<1>6. fw \notin freed
  BY <1>3, Start DEF Live, Command
<1>7. f \in Frame /\ f.at = "func" /\ f.fw = fw /\ f.wins = <<>> /\ f.fn = fn
  <2>1. PICK a : a = At("func", fw)
    OBVIOUS
  <2>2. a \in Frame /\ a.at = "func" /\ a.fw = fw /\ a.wins = <<>>
    BY <2>1 DEF At, Frame
  <2>3. f = [a EXCEPT !.fn = fn, !.phase = "i", !.n = 1, !.left = left]
    BY <1>2, <2>1
  <2>4. left \in {"no", "yes", "unsure"}
    BY <1>1
  <2> QED
    BY <2>2, <2>3, <2>4, ExecutionAssumption DEF Frame
<1>8. /\ f \notin Presses /\ f \notin Streams /\ f \notin Readers /\ f \notin Regrabs
      /\ f \notin Commands /\ f \notin Owners
      /\ f \in Activations /\ \A g : f \in ActivationsOf(g) <=> g = fn
  BY <1>7 DEF Regrabs, Readers, Streams, Presses, Commands, Owners, Activations, ActivationsOf
<1>9. /\ Num(stack', Presses) = Num(s, Presses) /\ Num(stack', Streams) = Num(s, Streams)
      /\ Num(stack', Readers) = Num(s, Readers) /\ Num(stack', Regrabs) = Num(s, Regrabs)
      /\ Num(stack', Commands) = Num(s, Commands) /\ Num(stack', Owners) = Num(s, Owners)
      /\ Num(stack', Activations) = Num(s, Activations) + 1
      /\ Num(stack', ActivationsOf(fn)) = Num(s, ActivationsOf(fn)) + 1
      /\ \A g : g # fn => Num(stack', ActivationsOf(g)) = Num(s, ActivationsOf(g))
  BY ONLY <1>4, <1>7, <1>8, NumCons
<1>10. CommandsCounted(stack', func_depth, rcs)
  BY <1>4, <1>9 DEF CommandsCounted
<1>11. Shaped(stack')
  BY ONLY <1>4, <1>5, <1>7, <1>8, ShapedPush
<1>12. WindowsLive(stack', freed)
  BY <1>4, <1>5, <1>6, <1>7, NoWindows, WindowsPush DEF Safe
<1>13. PICK n : n = functions[fn].use_depth + 1
  OBVIOUS
<1>14. /\ functions' = WithUse(functions, fn, n) /\ n \in Nat /\ FunctionType(functions)
       /\ functions[fn].use_depth = Num(s, ActivationsOf(fn))
  BY <1>3, <1>5, <1>13 DEF WithUse, IInv, Scalars, FunctionType, FunctionsCounted
<1>15. /\ FunctionType(functions') /\ DOMAIN functions' = DOMAIN functions
       /\ functions'[fn].use_depth = n
       /\ \A g \in DOMAIN functions \ {fn} : functions'[g] = functions[g]
  <2>1. fn \in DOMAIN functions
    BY <1>3
  <2> QED
    BY ONLY <1>14, <2>1, UseChanges
<1>16. FunctionsCounted(stack', functions', depth', is_executing_complex_function')
  <2>1. depth' = Num(stack', Activations)
    BY <1>3, <1>5, <1>9 DEF FunctionsCounted
  <2>2. is_executing_complex_function' = (depth' > 0)
    <3>1. depth' > 0
      BY <1>3, Start
    <3> QED
      BY <1>3, <3>1
  <2>3. ASSUME NEW g \in DOMAIN functions'
        PROVE  functions'[g].use_depth = Num(stack', ActivationsOf(g))
    <3>1. CASE g = fn
      BY <1>9, <1>13, <1>14, <1>15, <3>1
    <3>2. CASE g # fn
      BY <1>5, <1>9, <1>15, <3>2 DEF FunctionsCounted
    <3> QED
      BY <3>1, <3>2
  <2>4. ASSUME NEW i \in DOMAIN stack', stack'[i].at = "func"
        PROVE  stack'[i].fn \in DOMAIN functions'
    <3>1. /\ DOMAIN stack' = 1 .. Len(s) + 1 /\ stack'[1] = f
          /\ \A j \in 2 .. Len(s) + 1 : j - 1 \in DOMAIN s /\ stack'[j] = s[j - 1]
      BY ONLY <1>4, <1>7, PushAt
    <3>2. CASE i = 1
      BY <1>3, <1>7, <1>15, <3>1, <3>2
    <3>3. CASE i # 1
      <4>1. i \in 2 .. Len(s) + 1
        BY <1>4, <3>1, <3>3
      <4> QED
        BY <1>5, <1>15, <2>4, <3>1, <4>1 DEF FunctionsCounted
    <3> QED
      BY <3>2, <3>3
  <2> QED
    BY <2>1, <2>2, <2>3, <2>4 DEF FunctionsCounted
<1>17. GrabsCounted(stack', pointer')
  <2>1. PICK r \in GrabEm(pointer, "normal") : r[1] /\ pointer' = r[2]
    BY <1>3
  <2>2. PICK q : q = pointer'
    OBVIOUS
  <2>3. Consistent(pointer)
    BY <1>5, PointerNumbers
  <2>4. /\ Added(q) /\ Others(pointer, q, "normal") /\ SameCursor(pointer, q)
        /\ q.count["normal"] = pointer.count["normal"] + One(r[1])
    BY <2>1, <2>2, <2>3, GrabFacts
  <2>5. /\ q.count["busy"] = pointer.count["busy"]
        /\ q.count["passive"] = pointer.count["passive"]
        /\ q.read_depth = pointer.read_depth
        /\ q.count["normal"] = pointer.count["normal"] + 1
    BY <2>1, <2>4 DEF Others, SameCursor, One
  <2>6. Consistent(q)
    BY <2>3, <2>4, <2>5, ConsistentAgain
  <2>7. q.count["normal"] + Num(stack', Regrabs) <= Num(stack', Activations)
    <3>1. /\ pointer.count["normal"] \in Nat /\ Num(s, Regrabs) \in Nat /\ Num(s, Activations) \in Nat
          /\ pointer.count["normal"] + Num(s, Regrabs) <= Num(s, Activations)
      BY <1>5, PointerNumbers
    <3> QED
      BY <1>9, <2>5, <3>1
  <2>8. GrabsCounted(stack', q)
    BY <1>5, <1>9, <2>5, <2>6, <2>7 DEF GrabsCounted
  <2> QED
    BY <2>2, <2>8
<1>18. ReadsCounted(stack', curr_read_depth)
  BY <1>5, <1>9 DEF ReadsCounted
<1>19. Scalars'
  BY <1>3, <1>15 DEF IInv, Scalars
<1> QED
  BY <1>3, <1>10, <1>11, <1>12, <1>16, <1>17, <1>18, <1>19 DEF IInv, Settled

LEMMA FunctionEndKeeps ==
  ASSUME IInv, FunctionEnd
  PROVE  IInv'
<1>1. PICK f, fn : f = Top /\ fn = f.fn
  OBVIOUS
<1>2. /\ Runs({"func"}) /\ stack' = Tail(stack) /\ rcs' = CleanedUp(rcs)
      /\ functions' = [functions EXCEPT ![fn].use_depth = @ - 1]
      /\ depth' = depth - 1 /\ is_executing_complex_function' = (depth > 1)
      /\ pointer' = UngrabEm(pointer, "normal")
      /\ UNCHANGED <<last_added, func_depth, busy_read, curr_read_depth,
                     scheduled, freed, undefined>>
  BY <1>1 DEF FunctionEnd, Leave, windowVars
<1>3. stack # <<>> /\ f \in Frame /\ f = stack[1] /\ f.at = "func" /\ fn \in DOMAIN functions
  BY <1>1, <1>2, TopFacts, FunctionWindow DEF Runs
<1>4. /\ Shaped(stack) /\ GrabsCounted(stack, pointer) /\ ReadsCounted(stack, curr_read_depth)
      /\ FunctionsCounted(stack, functions, depth, is_executing_complex_function)
      /\ WindowsLive(stack, freed) /\ stack \in Seq(Frame)
  BY Start DEF Settled
<1>5. /\ f \notin Presses /\ f \notin Streams /\ f \notin Readers /\ f \notin Regrabs
      /\ f \notin Commands /\ f \notin Owners
      /\ f \in Activations /\ \A g : f \in ActivationsOf(g) <=> g = fn
  BY <1>1, <1>3 DEF Regrabs, Readers, Streams, Presses, Commands, Owners, Activations, ActivationsOf
<1>6. PICK t : t = Tail(stack)
  OBVIOUS
<1>7. /\ Num(t, Presses) = Num(stack, Presses) /\ Num(t, Streams) = Num(stack, Streams)
      /\ Num(t, Readers) = Num(stack, Readers) /\ Num(t, Regrabs) = Num(stack, Regrabs)
      /\ Num(t, Commands) = Num(stack, Commands) /\ Num(t, Owners) = Num(stack, Owners)
      /\ Num(t, Activations) = Num(stack, Activations) - 1
      /\ Num(t, ActivationsOf(fn)) = Num(stack, ActivationsOf(fn)) - 1
      /\ Num(stack, ActivationsOf(fn)) >= 1
      /\ \A g : g # fn => Num(t, ActivationsOf(g)) = Num(stack, ActivationsOf(g))
  BY ONLY <1>3, <1>4, <1>5, <1>6, NumTail
<1>8. Shaped(t) /\ WindowsLive(t, freed)
  BY <1>3, <1>4, <1>6, ShapedPop, WindowsPop
<1>9. CommandsCounted(t, func_depth, rcs')
  <2>1. CommandsCounted(t, func_depth, rcs)
    BY <1>7, Start DEF CommandsCounted
  <2> QED
    BY <1>2, <2>1, CleanedUpType
<1>10. PICK n : n = functions[fn].use_depth - 1
  OBVIOUS
<1>11. /\ functions' = WithUse(functions, fn, n) /\ FunctionType(functions)
       /\ functions[fn].use_depth = Num(stack, ActivationsOf(fn))
  BY <1>2, <1>3, <1>4, <1>10 DEF WithUse, IInv, Scalars, FunctionsCounted
<1>12. n \in Nat
  BY <1>4, <1>7, <1>10, <1>11, NumType
<1>13. /\ FunctionType(functions') /\ DOMAIN functions' = DOMAIN functions
       /\ functions'[fn].use_depth = n
       /\ \A g \in DOMAIN functions \ {fn} : functions'[g] = functions[g]
  BY <1>3, <1>11, <1>12, UseChanges
<1>14. FunctionsCounted(t, functions', depth', is_executing_complex_function')
  <2>1. depth' = Num(t, Activations) /\ depth \in Nat
    BY <1>2, <1>4, <1>7, Start DEF FunctionsCounted
  <2>2. is_executing_complex_function' = (depth' > 0)
    <3>1. (depth > 1) <=> (depth' > 0)
      BY <1>2, <2>1
    <3> QED
      BY <1>2, <3>1
  <2>3. ASSUME NEW g \in DOMAIN functions'
        PROVE  functions'[g].use_depth = Num(t, ActivationsOf(g))
    <3>1. CASE g = fn
      BY <1>7, <1>10, <1>11, <1>13, <3>1
    <3>2. CASE g # fn
      BY <1>4, <1>7, <1>13, <3>2 DEF FunctionsCounted
    <3> QED
      BY <3>1, <3>2
  <2>4. ASSUME NEW i \in DOMAIN t, t[i].at = "func"
        PROVE  t[i].fn \in DOMAIN functions'
    <3>1. t[i] = stack[i + 1] /\ i + 1 \in DOMAIN stack
      BY <1>3, <1>4, <1>6, PopAt
    <3> QED
      BY <1>4, <1>13, <2>4, <3>1 DEF FunctionsCounted
  <2> QED
    BY <2>1, <2>2, <2>3, <2>4 DEF FunctionsCounted
<1>15. GrabsCounted(t, pointer')
  <2>1. PICK q : q = pointer'
    OBVIOUS
  <2>2. /\ Consistent(pointer) /\ pointer.count["normal"] \in Nat
        /\ Num(stack, Regrabs) \in Nat /\ Num(stack, Activations) \in Nat
        /\ pointer.count["normal"] + Num(stack, Regrabs) <= Num(stack, Activations)
    BY <1>4, PointerNumbers
  <2>3. /\ Added(q) /\ Others(pointer, q, "normal") /\ SameCursor(pointer, q)
        /\ q.count["normal"]
             = IF pointer.count["normal"] > 0 THEN pointer.count["normal"] - 1 ELSE 0
    BY <1>2, <2>1, <2>2, UngrabFacts
  <2>4. /\ q.count["busy"] = pointer.count["busy"]
        /\ q.count["passive"] = pointer.count["passive"]
        /\ q.read_depth = pointer.read_depth
    BY <2>3 DEF Others, SameCursor
  <2>5. Consistent(q)
    BY <2>2, <2>3, <2>4, ConsistentAgain
  <2>6. Num(t, Regrabs) <= Num(t, Activations)
    BY <1>8 DEF Shaped, Num
  <2>7. q.count["normal"] + Num(t, Regrabs) <= Num(t, Activations)
    BY <1>7, <2>2, <2>3, <2>6
  <2>8. GrabsCounted(t, q)
    BY <1>4, <1>7, <2>4, <2>5, <2>7 DEF GrabsCounted
  <2> QED
    BY <2>1, <2>8
<1>16. ReadsCounted(t, curr_read_depth)
  BY <1>4, <1>7 DEF ReadsCounted
<1>17. Scalars'
  BY <1>2, <1>13 DEF IInv, Scalars
<1> QED
  BY <1>2, <1>6, <1>8, <1>9, <1>14, <1>15, <1>16, <1>17 DEF IInv, Settled
---------------------------------------------------------------------------
LEMMA InitHolds == Init => IInv
<1> SUFFICES ASSUME Init PROVE IInv
  OBVIOUS
<1>1. stack = <<>> /\ stack \in Seq(Frame) /\ rcs = <<>> /\ functions = <<>>
  BY DEF Init
<1>2. \A S : Num(stack, S) = 0
  BY <1>1, NumEmpty
<1>3. Shaped(stack)
  <2>1. ASSUME NEW k \in 0 .. Len(stack) PROVE Low(stack, k, Regrabs) <= Low(stack, k, Activations)
    <3>1. k = Len(stack)
      BY <1>1
    <3> QED
      BY <1>2, <3>1 DEF Num
  <2> QED
    BY <1>1, <2>1 DEF Shaped
<1>4. CommandsCounted(stack, func_depth, rcs)
  BY <1>1, <1>2, ExecutionAssumption DEF Init, CommandsCounted
<1>5. FunctionsCounted(stack, functions, depth, is_executing_complex_function)
  <2>1. depth = 0 /\ is_executing_complex_function = FALSE
    BY DEF Init
  <2>2. is_executing_complex_function = (depth > 0)
    <3>1. PICK d \in Nat : d = depth
      BY <2>1
    <3>2. (d > 0) = FALSE
      BY <2>1, <3>1
    <3> QED
      BY <2>1, <3>1, <3>2
  <2> QED
    BY <1>1, <1>2, <2>1, <2>2 DEF FunctionsCounted
<1>6. ReadsCounted(stack, curr_read_depth)
  BY <1>2, ExecutionAssumption DEF Init, ReadsCounted
<1>7. GrabsCounted(stack, pointer)
  <2>1. PICK k : k = [c \in Contexts |-> 0]
    OBVIOUS
  <2>2. /\ k \in [Contexts -> Nat] /\ k["all"] = 0 /\ k["normal"] = 0 /\ k["busy"] = 0
        /\ k["passive"] = 0
    BY <2>1 DEF Contexts
  <2>3. pointer = [count |-> k, held |-> FALSE, read_depth |-> 0, need_ungrab |-> FALSE]
    BY <2>1 DEF Init
  <2>4. Consistent(pointer)
    BY <2>2, <2>3 DEF Consistent, Pointer, One
  <2> QED
    BY <1>2, <2>2, <2>3, <2>4 DEF GrabsCounted
<1>8. WindowsLive(stack, freed)
  BY <1>1 DEF WindowsLive
<1>9. Scalars
  <2>1. FunctionType(functions)
    BY <1>1 DEF FunctionType
  <2>2. /\ last_added = Nil /\ busy_read = FALSE /\ undefined = FALSE
        /\ scheduled = {} /\ freed = {}
    BY DEF Init
  <2> QED
    BY <2>1, <2>2 DEF Scalars
<1> QED
  BY <1>3, <1>4, <1>5, <1>6, <1>7, <1>8, <1>9 DEF IInv, Settled

LEMMA StepKeeps == IInv /\ [Next]_vars => IInv'
<1> SUFFICES ASSUME IInv, [Next]_vars PROVE IInv'
  OBVIOUS
<1>1. CASE Events
  <2>1. CASE LoopTurn \/ PressEnd
    BY <2>1, LoopTurnKeeps, PressEndKeeps
  <2>2. CASE \E fw \in Windows \cup {Nil} : InputCommand(fw) \/ HandleButtonPress(fw)
    BY <2>2, InputCommandKeeps, HandleButtonPressKeeps
  <2>3. CASE \E w \in Windows : HandleDestroyNotify(w)
    BY <2>3, HandleDestroyNotifyKeeps
  <2> QED
    BY <1>1, <2>1, <2>2, <2>3 DEF Events
<1>2. CASE Simple
  <2>1. CASE \E n \in {-1} \cup 1 .. MaxBreak : CmdBreak(n)
    BY <2>1, CmdBreakKeeps
  <2>2. CASE \E f \in Funcs, cond \in Conds \cup {Nil} : CmdAddToFunc(f, cond)
    BY <2>2, CmdAddToFuncKeeps
  <2>3. CASE \E cond \in Conds : CmdPlus(cond)
    BY <2>3, CmdPlusKeeps
  <2>4. CASE \E f \in Funcs : CmdDestroyFunc(f)
    BY <2>4, CmdDestroyFuncKeeps
  <2>5. CASE \E on \in BOOLEAN : CmdBusyCursor(on)
    BY <2>5, CmdBusyCursorKeeps
  <2>6. CASE CmdDestroy \/ CmdFocus \/ Dangling \/ ExecReturn
    BY <2>6, CmdDestroyKeeps, CmdFocusKeeps, DanglingKeeps, ExecReturnKeeps
  <2> QED
    BY <1>2, <2>1, <2>2, <2>3, <2>4, <2>5, <2>6 DEF Simple
<1>3. CASE Nesting
  <2>1. CASE \E f \in Funcs, fw \in Windows \cup {Nil} : CallFunction(f, fw)
    BY <2>1, CallFunctionKeeps
  <2>2. CASE \E f \in Funcs : CallFunctionRefused(f)
    BY <2>2, CallFunctionRefusedKeeps
  <2>3. CASE \E keeps \in BOOLEAN : RunItem(keeps)
    BY <2>3, RunItemKeeps
  <2>4. CASE \E type \in Conds, fw \in Windows \cup {Nil} : NextPhase(type, fw)
    BY <2>4, NextPhaseKeeps
  <2>5. CASE FunctionEnd
    BY <2>5, FunctionEndKeeps
  <2>6. CASE \E fw \in Windows \cup {Nil}, keeps \in BOOLEAN : CmdConditional(fw, keeps)
    BY <2>6, CmdConditionalKeeps
  <2>7. CASE \E S \in SUBSET Windows : CmdAll(S)
    BY <2>7, CmdAllKeeps
  <2>8. CASE AllNext \/ AllEnd
    BY <2>8, AllNextKeeps, AllEndKeeps
  <2>9. CASE CmdRead \/ CmdPipeRead \/ CmdReadFails \/ StreamLine \/ StreamEnd
    BY <2>9, CmdReadKeeps, CmdPipeReadKeeps, CmdReadFailsKeeps, StreamLineKeeps, StreamEndKeeps
  <2>10. CASE CmdWait \/ WaitEnd
    BY <2>10, CmdWaitKeeps, WaitEndKeeps
  <2> QED
    BY <1>3, <2>1, <2>2, <2>3, <2>4, <2>5, <2>6, <2>7, <2>8, <2>9, <2>10 DEF Nesting
<1>4. CASE UNCHANGED vars
  BY <1>4 DEF vars, countVars, IInv, Scalars
<1> QED
  BY <1>1, <1>2, <1>3, <1>4 DEF Next

LEMMA Invariance == Spec => []IInv
BY InitHolds, StepKeeps, PTL DEF Spec

LEMMA DepthBound ==
  ASSUME IInv
  PROVE  /\ depth \in 0 .. MAX_FUNCTION_DEPTH /\ func_depth \in 0 .. MAX_FUNCTION_DEPTH
         /\ \A f \in DOMAIN functions : functions[f].use_depth \in 0 .. MAX_FUNCTION_DEPTH
<1>1. /\ stack \in Seq(Frame) /\ depth = Num(stack, Activations) /\ func_depth = Num(stack, Commands)
      /\ func_depth <= MAX_FUNCTION_DEPTH
      /\ \A f \in DOMAIN functions : functions[f].use_depth = Num(stack, ActivationsOf(f))
  BY Start DEF Settled, FunctionsCounted, CommandsCounted
<1>2. Num(stack, Activations) <= Num(stack, Commands)
  <2>1. ASSUME NEW i \in DOMAIN stack, stack[i] \in Activations
        PROVE  i + 1 \in DOMAIN stack /\ stack[i + 1] \in Commands
    <3>1. i + 1 \in DOMAIN stack /\ stack[i + 1].at = "back"
      BY <2>1, Start DEF Settled, Shaped, Activations
    <3>2. stack[i + 1] \in Frame
      BY <1>1, <3>1
    <3> QED
      BY <3>1, <3>2 DEF Commands
  <2> QED
    BY <1>1, <2>1, NumAbove
<1>3. ASSUME NEW f \in DOMAIN functions
      PROVE  Num(stack, ActivationsOf(f)) <= Num(stack, Activations)
  <2>1. \A i \in DOMAIN stack : stack[i] \in ActivationsOf(f) => stack[i] \in Activations
    BY DEF ActivationsOf
  <2> QED
    BY <1>1, <2>1, NumLess
<1>4. \A S : Num(stack, S) \in Nat
  BY <1>1, NumType
<1>5. ASSUME NEW f \in DOMAIN functions
      PROVE  functions[f].use_depth \in 0 .. MAX_FUNCTION_DEPTH
  <2>1. Num(stack, ActivationsOf(f)) \in Nat /\ Num(stack, Activations) \in Nat
        /\ Num(stack, Commands) \in Nat
    BY <1>4
  <2> QED
    BY <1>1, <1>2, <1>3, <2>1, ExecutionAssumption
<1>6. Num(stack, Activations) \in Nat /\ Num(stack, Commands) \in Nat
  BY <1>4
<1> QED
  BY <1>1, <1>2, <1>5, <1>6, ExecutionAssumption

(* The counters of misc.c, read.c and functions.c stay within their limits,  *)
(* MAX_FUNCTION_DEPTH and MAX_READ_DEPTH, and are never negative, for any    *)
(* nesting of functions, files, conditional commands and Waits.              *)
THEOREM TypeCorrect == Spec => []TypeOK
<1>1. IInv => TypeOK
  <2> SUFFICES ASSUME IInv PROVE TypeOK
    OBVIOUS
  <2>1. \A f \in DOMAIN functions :
          /\ f \in Funcs /\ functions[f].use_depth \in 0 .. MAX_FUNCTION_DEPTH
          /\ functions[f].items \in Seq(Conds) /\ Len(functions[f].items) <= MaxItems
    BY DepthBound DEF IInv, Scalars, FunctionType
  <2>2. last_added \in Funcs \cup {Nil}
    BY DEF IInv, Scalars, FunctionType
  <2>3. \A i \in DOMAIN stack : stack[i] \in Frame
    BY Start
  <2>4. \A i \in DOMAIN rcs : rcs[i] \in -1 .. MaxBreak
    <3>1. rcs \in Seq(Breaks)
      BY Start DEF CommandsCounted
    <3>2. \A i \in DOMAIN rcs : rcs[i] \in Breaks
      BY <3>1
    <3> QED
      BY <3>2 DEF Breaks
  <2>5. func_depth \in 0 .. MAX_FUNCTION_DEPTH /\ depth \in 0 .. MAX_FUNCTION_DEPTH
    BY DepthBound
  <2>6. curr_read_depth \in 0 .. MAX_READ_DEPTH
    BY Start, NumType, ExecutionAssumption DEF Settled, ReadsCounted
  <2>7. pointer \in Pointer
    BY Start DEF Settled, GrabsCounted, Consistent
  <2>8. is_executing_complex_function \in BOOLEAN
    <3>1. is_executing_complex_function = (depth > 0)
      BY Start DEF Settled, FunctionsCounted
    <3> QED
      BY <3>1
  <2>9. scheduled \cup freed \subseteq Windows /\ busy_read \in BOOLEAN /\ undefined \in BOOLEAN
    BY DEF IInv, Scalars
  <2> QED
    BY <2>1, <2>2, <2>3, <2>4, <2>5, <2>6, <2>7, <2>8, <2>9 DEF TypeOK, Pointer
<1> QED
  BY <1>1, Invariance, PTL

(* Every grab of the pointer, level of nesting and use of a function is      *)
(* given back exactly once: when the last command of an event has returned,  *)
(* nothing of it is left over; and grab_count tells whether the server has   *)
(* grabbed the pointer.                                                      *)
THEOREM Balanced == Spec => []GrabsBalanced
<1>1. IInv => GrabsBalanced
  <2> SUFFICES ASSUME IInv PROVE GrabsBalanced
    OBVIOUS
  <2>1. Shaped(stack) /\ GrabsCounted(stack, pointer)
    BY Start DEF Settled
  <2>2. /\ Consistent(pointer)
        /\ pointer.count["normal"] \in Nat /\ pointer.count["passive"] \in Nat
        /\ pointer.count["busy"] \in Nat /\ pointer.read_depth \in Nat
        /\ pointer.count["passive"] = Num(stack, Presses)
        /\ Num(stack, Regrabs) \in Nat
        /\ pointer.count["normal"] + Num(stack, Regrabs) <= Num(stack, Activations)
        /\ pointer.read_depth <= Num(stack, Streams)
    BY <2>1, PointerNumbers
  <2>3. GrabIsReal
    BY <2>2 DEF GrabIsReal, Consistent
  <2>4. ASSUME stack = <<>> PROVE ReleasedWhenIdle
    <3>1. \A S : Num(stack, S) = 0
      BY <2>4, NumEmpty
    <3>2. func_depth = 0 /\ rcs = <<>>
      BY <3>1, Start DEF CommandsCounted
    <3>3. depth = 0 /\ is_executing_complex_function = (depth > 0)
          /\ \A f \in DOMAIN functions : functions[f].use_depth = 0
      BY <3>1, Start DEF Settled, FunctionsCounted
    <3>4. ~is_executing_complex_function
      <4>1. ~(depth > 0)
        BY <3>3
      <4> QED
        BY <3>3, <4>1
    <3>5. curr_read_depth = 0
      BY <3>1, Start DEF Settled, ReadsCounted
    <3>6. pointer.count["passive"] = 0 /\ pointer.count["normal"] = 0 /\ pointer.read_depth = 0
      <4>1. /\ Num(stack, Activations) = 0 /\ Num(stack, Presses) = 0 /\ Num(stack, Streams) = 0
            /\ Num(stack, Regrabs) = 0
        BY <3>1
      <4> QED
        BY <2>2, <4>1
    <3>7. ~pointer.need_ungrab /\ pointer.count["busy"] = 0
      BY <2>2, <3>6 DEF Consistent, One
    <3>8. pointer.count["all"] = 0 /\ ~pointer.held
      BY <2>2, <3>6, <3>7 DEF Consistent
    <3>9. \A c \in Contexts : pointer.count[c] = 0
      BY <3>6, <3>7, <3>8 DEF Contexts
    <3> QED
      BY <3>2, <3>3, <3>4, <3>5, <3>6, <3>7, <3>8, <3>9 DEF ReleasedWhenIdle
  <2> QED
    BY <2>3, <2>4 DEF GrabsBalanced, ReleasedWhenIdle
<1> QED
  BY <1>1, Invariance, PTL

(* What a running function refers to exists: its entry in the table of       *)
(* functions, though DestroyFunc may be executed inside it, and the windows  *)
(* of its context and of the lists that All made inside it, though they may  *)
(* be destroyed meanwhile. use_depth counts the activations.                 *)
THEOREM KeptAlive == Spec => []ContextsLive
<1>1. IInv => ContextsLive
  <2> SUFFICES ASSUME IInv PROVE ContextsLive
    OBVIOUS
  <2>1. /\ stack \in Seq(Frame) /\ WindowsLive(stack, freed)
        /\ FunctionsCounted(stack, functions, depth, is_executing_complex_function)
    BY Start DEF Settled
  <2>2. ASSUME NEW f \in DOMAIN functions
        PROVE  functions[f].use_depth = Cardinality({i \in Frames("func") : stack[i].fn = f})
    <3>1. Num(stack, ActivationsOf(f)) = Cardinality({i \in DOMAIN stack : stack[i] \in ActivationsOf(f)})
      BY <2>1, NumIs
    <3>2. \A i \in DOMAIN stack : stack[i] \in Frame
      BY <2>1
    <3>3. {i \in DOMAIN stack : stack[i] \in ActivationsOf(f)}
            = {i \in Frames("func") : stack[i].fn = f}
      BY <3>2 DEF ActivationsOf, Activations, Frames
    <3> QED
      BY <2>1, <3>1, <3>3 DEF FunctionsCounted
  <2>3. FunctionsInUse
    <3>1. \A i \in Frames("func") : stack[i].fn \in DOMAIN functions
      BY <2>1 DEF Frames, FunctionsCounted
    <3>2. last_added \in DOMAIN functions \cup {Nil}
      BY DEF IInv, Scalars
    <3> QED
      BY <2>2, <3>1, <3>2 DEF FunctionsInUse
  <2>4. FunctionWindowsLive
    BY <2>1 DEF FunctionWindowsLive, WindowsLive, Frames
  <2> QED
    BY <2>3, <2>4 DEF ContextsLive
<1> QED
  BY <1>1, Invariance, PTL
---------------------------------------------------------------------------
(* Break. The commands that pass the conditional return code in use on link *)
(* the functions below and above them to a chain; a Barrier begins another. *)
(* Only the topmost return code of a chain counts: that of a command with   *)
(* KeepRc is copied down when it returns. By it a function in the chain is  *)
(* left exactly if fewer functions than break_levels lie above it, which is *)
(* an invariant of every chain on the stack, not only of the one on top: a  *)
(* chain under a Barrier goes on when the Barrier returns.                  *)
Barriers == {f \in Commands : ~f.passes}
FromBelow(s, p) == s[Len(s) + 1 - p]

(* the function at position k has the return code of position t *)
Linked(s, k, t) ==
  /\ FromBelow(s, k) \in Activations
  /\ \A p \in k + 1 .. t : FromBelow(s, p) \notin Barriers

(* how many functions lie in between *)
Above(s, k, t) == Low(s, t, Activations) - Low(s, k, Activations)

(* a function with c others above it is left when b levels are *)
Leaves(b, c) == b = -1 \/ b > c

Chain(s, t, b) ==
  \A k \in 1 .. t : Linked(s, k, t) =>
    /\ FromBelow(s, k).left = "yes" => Leaves(b, Above(s, k, t))
    /\ Leaves(b, Above(s, k, t)) => FromBelow(s, k).left # "no"

NoneLeft(s, t) == \A k \in 1 .. t : Linked(s, k, t) => FromBelow(s, k).left # "yes"

(* for the functions below each barrier, and for those on top *)
Levels(s, r) ==
  \A t \in 0 .. Len(s) - 1 :
    FromBelow(s, t + 1) \in Barriers /\ Low(s, t, Owners) > 0 => Chain(s, t, r[Low(s, t, Owners)])
Current(s, r) == r # <<>> => Chain(s, Len(s), r[Len(r)])

(* where the conditional return codes are *)
Rooted(s) == \A p \in 1 .. Len(s) : FromBelow(s, p) \notin Presses => Low(s, p, Owners) > 0
Answers(s) ==
  /\ \A i \in DOMAIN s : s[i] \in Barriers => s[i].own
  /\ \A i \in 2 .. Len(s) : s[i].at # "call"

Broken(s, r) == Levels(s, r) /\ Current(s, r) /\ Rooted(s) /\ Answers(s)
(* a command does not begin while a function that it could run in is left    *)
BInv == Broken(stack, rcs) /\ (stack # <<>> /\ Top.at = "call" => NoneLeft(stack, Len(stack)))

LEMMA Position ==
  ASSUME NEW F, NEW s \in Seq(F), NEW p \in 1 .. Len(s)
  PROVE  FromBelow(s, p) \in F /\ Len(s) + 1 - p \in DOMAIN s
BY DEF FromBelow

LEMMA AtPush ==
  ASSUME NEW F, NEW s \in Seq(F), NEW f \in F
  PROVE  /\ \A p \in 1 .. Len(s) : FromBelow(<<f>> \o s, p) = FromBelow(s, p)
         /\ FromBelow(<<f>> \o s, Len(s) + 1) = f
<1>1. PICK t : t = <<f>> \o s
  OBVIOUS
<1>2. Len(t) = Len(s) + 1 /\ t[1] = f /\ \A i \in 2 .. Len(s) + 1 : t[i] = s[i - 1]
  BY <1>1, PushAt
<1>3. Len(s) \in Nat
  OBVIOUS
<1>4. ASSUME NEW p \in 1 .. Len(s) PROVE FromBelow(t, p) = FromBelow(s, p)
  <2>1. Len(t) + 1 - p \in 2 .. Len(s) + 1 /\ (Len(t) + 1 - p) - 1 = Len(s) + 1 - p
    BY <1>2, <1>3
  <2> QED
    BY <1>2, <2>1 DEF FromBelow
<1>5. Len(t) + 1 - (Len(s) + 1) = 1
  BY <1>2, <1>3
<1> QED
  BY <1>1, <1>2, <1>4, <1>5 DEF FromBelow

LEMMA LowStep ==
  ASSUME NEW F, NEW s \in Seq(F), NEW t \in 0 .. Len(s) - 1, NEW S
  PROVE  /\ FromBelow(s, t + 1) \in S => Low(s, t + 1, S) = Low(s, t, S) + 1
         /\ FromBelow(s, t + 1) \notin S => Low(s, t + 1, S) = Low(s, t, S)
<1>1. PICK P : P = {p \in 1 .. t : s[Len(s) + 1 - p] \in S}
  OBVIOUS
<1>2. IsFiniteSet(P)
  <2>1. IsFiniteSet(1 .. t)
    BY FS_Interval
  <2> QED
    BY <1>1, <2>1, FS_Subset
<1>3. {p \in 1 .. t + 1 : s[Len(s) + 1 - p] \in S} = IF FromBelow(s, t + 1) \in S THEN P \cup {t + 1} ELSE P
  <2>1. 1 .. t + 1 = (1 .. t) \cup {t + 1}
    OBVIOUS
  <2> QED
    BY <1>1, <2>1 DEF FromBelow
<1>4. t + 1 \notin P
  BY <1>1
<1>5. Cardinality(P \cup {t + 1}) = Cardinality(P) + 1
  BY <1>2, <1>4, FS_AddElement
<1> QED
  BY <1>1, <1>3, <1>5 DEF Low

LEMMA LowMono ==
  ASSUME NEW F, NEW s \in Seq(F), NEW t \in 0 .. Len(s), NEW k \in 0 .. t, NEW S
  PROVE  Low(s, k, S) \in Nat /\ Low(s, t, S) \in Nat /\ Low(s, k, S) <= Low(s, t, S)
<1> DEFINE P == {p \in 1 .. k : s[Len(s) + 1 - p] \in S}
           Q == {p \in 1 .. t : s[Len(s) + 1 - p] \in S}
<1>1. P \subseteq Q
  OBVIOUS
<1>2. IsFiniteSet(Q)
  <2>1. IsFiniteSet(1 .. t)
    BY FS_Interval
  <2> QED
    BY <2>1, FS_Subset
<1>3. Cardinality(P) <= Cardinality(Q)
  BY <1>1, <1>2, FS_Subset
<1>4. Low(s, k, S) \in Nat /\ Low(s, t, S) \in Nat
  BY LowType
<1> QED
  BY <1>3, <1>4 DEF Low

LEMMA LinkedPush ==
  ASSUME NEW s \in Seq(Frame), NEW f \in Frame, NEW t \in 0 .. Len(s), NEW k \in 1 .. t
  PROVE  /\ FromBelow(<<f>> \o s, k) = FromBelow(s, k)
         /\ Linked(<<f>> \o s, k, t) <=> Linked(s, k, t)
         /\ Above(<<f>> \o s, k, t) = Above(s, k, t)
<1>1. PICK u : u = <<f>> \o s
  OBVIOUS
<1>2. \A p \in 1 .. t : FromBelow(u, p) = FromBelow(s, p)
  BY <1>1, AtPush
<1>3. \A p \in k + 1 .. t : FromBelow(u, p) = FromBelow(s, p)
  BY <1>2
<1>4. Linked(u, k, t) <=> Linked(s, k, t)
  BY <1>2, <1>3, Zenon DEF Linked
<1>5. Low(u, t, Activations) = Low(s, t, Activations) /\ Low(u, k, Activations) = Low(s, k, Activations)
  <2>1. k \in 0 .. Len(s)
    OBVIOUS
  <2>2. \A j \in 0 .. Len(s) : Low(u, j, Activations) = Low(s, j, Activations)
    BY <1>1, LowPush
  <2> QED
    BY <2>1, <2>2
<1>6. Above(u, k, t) = Above(s, k, t)
  BY <1>5 DEF Above
<1>7. k \in 1 .. t /\ FromBelow(u, k) = FromBelow(s, k)
  BY <1>2
<1> QED
  BY <1>1, <1>4, <1>6, <1>7, Zenon

LEMMA ChainPush ==
  ASSUME NEW s \in Seq(Frame), NEW f \in Frame, NEW t \in 0 .. Len(s), NEW b
  PROVE  /\ Chain(<<f>> \o s, t, b) <=> Chain(s, t, b)
         /\ NoneLeft(<<f>> \o s, t) <=> NoneLeft(s, t)
<1>1. PICK u : u = <<f>> \o s
  OBVIOUS
<1>2. ASSUME NEW k \in 1 .. t
      PROVE  /\ FromBelow(u, k) = FromBelow(s, k) /\ (Linked(u, k, t) <=> Linked(s, k, t))
             /\ Above(u, k, t) = Above(s, k, t)
  BY <1>1, LinkedPush
<1>3. Chain(u, t, b) <=> Chain(s, t, b)
  BY <1>2, Zenon DEF Chain
<1>4. NoneLeft(u, t) <=> NoneLeft(s, t)
  BY <1>2, Zenon DEF NoneLeft
<1> QED
  BY <1>1, <1>3, <1>4

LEMMA Sorts ==
  /\ Barriers \cap Activations = {} /\ Commands \cap Activations = {}
  /\ Barriers \subseteq Commands /\ Owners \subseteq Commands /\ Presses \cap Commands = {}
  /\ Presses \cap Activations = {}
BY DEF Barriers, Commands, Activations, Owners, Presses

(* one frame more *)
LEMMA LinkedNext ==
  ASSUME NEW s \in Seq(Frame), NEW t \in 0 .. Len(s) - 1, NEW k \in 1 .. t
  PROVE  /\ Linked(s, k, t + 1) <=> Linked(s, k, t) /\ FromBelow(s, t + 1) \notin Barriers
         /\ Above(s, k, t) \in Nat
         /\ FromBelow(s, t + 1) \in Activations => Above(s, k, t + 1) = Above(s, k, t) + 1
         /\ FromBelow(s, t + 1) \notin Activations => Above(s, k, t + 1) = Above(s, k, t)
<1>1. k + 1 .. t + 1 = (k + 1 .. t) \cup {t + 1}
  OBVIOUS
<1>2. Linked(s, k, t + 1) <=> Linked(s, k, t) /\ FromBelow(s, t + 1) \notin Barriers
  BY <1>1 DEF Linked
<1>3. /\ Low(s, k, Activations) \in Nat /\ Low(s, t, Activations) \in Nat
      /\ Low(s, k, Activations) <= Low(s, t, Activations)
  BY LowMono
<1>4. /\ FromBelow(s, t + 1) \in Activations => Low(s, t + 1, Activations) = Low(s, t, Activations) + 1
      /\ FromBelow(s, t + 1) \notin Activations => Low(s, t + 1, Activations) = Low(s, t, Activations)
  BY LowStep
<1> QED
  BY <1>2, <1>3, <1>4 DEF Above

LEMMA ChainNext ==
  ASSUME NEW s \in Seq(Frame), NEW t \in 0 .. Len(s) - 1, NEW b,
         FromBelow(s, t + 1) \notin Activations, FromBelow(s, t + 1) \notin Barriers
  PROVE  (Chain(s, t + 1, b) <=> Chain(s, t, b)) /\ (NoneLeft(s, t + 1) <=> NoneLeft(s, t))
<1>1. \A k \in 1 .. t : /\ Linked(s, k, t + 1) <=> Linked(s, k, t)
                        /\ Above(s, k, t + 1) = Above(s, k, t)
  BY LinkedNext
<1>2. ~Linked(s, t + 1, t + 1)
  BY DEF Linked
<1>3. 1 .. t + 1 = (1 .. t) \cup {t + 1}
  OBVIOUS
<1> QED
  BY <1>1, <1>2, <1>3, Zenon DEF Chain, NoneLeft

LEMMA ChainBarrier ==
  ASSUME NEW s \in Seq(Frame), NEW t \in 0 .. Len(s) - 1, FromBelow(s, t + 1) \in Barriers
  PROVE  NoneLeft(s, t + 1) /\ \A b : Chain(s, t + 1, b)
<1>1. ASSUME NEW k \in 1 .. t PROVE ~Linked(s, k, t + 1)
  BY LinkedNext
<1>2. ~Linked(s, t + 1, t + 1)
  BY Sorts DEF Linked
<1>3. 1 .. t + 1 = (1 .. t) \cup {t + 1}
  OBVIOUS
<1> QED
  BY <1>1, <1>2, <1>3, Zenon DEF Chain, NoneLeft

Reduced(b) == IF b > 0 THEN b - 1 ELSE b

LEMMA BreakRange ==
  ASSUME NEW b \in Breaks
  PROVE  b \in Int /\ b >= -1 /\ Reduced(b) \in Breaks
         /\ ~Leaves(0, 0) /\ (b # 0 <=> Leaves(b, 0))
         /\ \A c \in Nat : /\ Leaves(Reduced(b), c) <=> Leaves(b, c + 1)
                           /\ Leaves(b, c + 1) => Leaves(b, c)
                           /\ ~Leaves(0, c)
BY ExecutionAssumption DEF Breaks, Reduced, Leaves

LEMMA ChainLeave ==
  ASSUME NEW s \in Seq(Frame), NEW t \in 0 .. Len(s) - 1, NEW b \in Breaks,
         FromBelow(s, t + 1) \in Activations, Chain(s, t + 1, b)
  PROVE  Chain(s, t, Reduced(b))
<1>1. ASSUME NEW k \in 1 .. t, Linked(s, k, t)
      PROVE  /\ FromBelow(s, k).left = "yes" => Leaves(Reduced(b), Above(s, k, t))
             /\ Leaves(Reduced(b), Above(s, k, t)) => FromBelow(s, k).left # "no"
  <2>1. Linked(s, k, t + 1) /\ Above(s, k, t) \in Nat /\ Above(s, k, t + 1) = Above(s, k, t) + 1
    BY <1>1, LinkedNext, Sorts
  <2>2. k \in 1 .. t + 1
    OBVIOUS
  <2>3. /\ FromBelow(s, k).left = "yes" => Leaves(b, Above(s, k, t) + 1)
        /\ Leaves(b, Above(s, k, t) + 1) => FromBelow(s, k).left # "no"
    BY <2>1, <2>2 DEF Chain
  <2>4. Leaves(Reduced(b), Above(s, k, t)) <=> Leaves(b, Above(s, k, t) + 1)
    BY <2>1, BreakRange
  <2> QED
    BY <2>3, <2>4
<1> QED
  BY <1>1 DEF Chain

LEMMA ChainEnter ==
  ASSUME NEW s \in Seq(Frame), NEW t \in 0 .. Len(s) - 1, NEW b \in Breaks,
         FromBelow(s, t + 1) \in Activations, Chain(s, t, b), NoneLeft(s, t),
         FromBelow(s, t + 1).left # "yes", b # 0 => FromBelow(s, t + 1).left # "no"
  PROVE  Chain(s, t + 1, b)
<1>1. ASSUME NEW k \in 1 .. t, Linked(s, k, t + 1)
      PROVE  /\ FromBelow(s, k).left = "yes" => Leaves(b, Above(s, k, t + 1))
             /\ Leaves(b, Above(s, k, t + 1)) => FromBelow(s, k).left # "no"
  <2>1. Linked(s, k, t) /\ Above(s, k, t) \in Nat /\ Above(s, k, t + 1) = Above(s, k, t) + 1
    BY <1>1, LinkedNext
  <2>2. FromBelow(s, k).left # "yes" /\ (Leaves(b, Above(s, k, t)) => FromBelow(s, k).left # "no")
    BY <2>1 DEF Chain, NoneLeft
  <2>3. Leaves(b, Above(s, k, t) + 1) => Leaves(b, Above(s, k, t))
    BY <2>1, BreakRange
  <2> QED
    BY <2>1, <2>2, <2>3
<1>2. Above(s, t + 1, t + 1) = 0
  <2>1. Low(s, t + 1, Activations) \in Nat
    BY LowType
  <2> QED
    BY <2>1 DEF Above
<1>3. ASSUME NEW k \in 1 .. t + 1, Linked(s, k, t + 1)
      PROVE  /\ FromBelow(s, k).left = "yes" => Leaves(b, Above(s, k, t + 1))
             /\ Leaves(b, Above(s, k, t + 1)) => FromBelow(s, k).left # "no"
  <2>1. CASE k = t + 1
    BY <1>2, <2>1, BreakRange
  <2>2. CASE k # t + 1
    <3>1. k \in 1 .. t
      BY <2>2
    <3> QED
      BY <1>1, <1>3, <3>1
  <2> QED
    BY <2>1, <2>2
<1> QED
  BY <1>3 DEF Chain

(* a barrier lies above fewer commands that have a conditional return code  *)
(* of their own than there are up to any place above it                     *)
LEMMA BarrierLow ==
  ASSUME NEW s \in Seq(Frame), Answers(s), NEW k \in 0 .. Len(s), NEW t \in 0 .. k - 1,
         FromBelow(s, t + 1) \in Barriers
  PROVE  /\ Low(s, t, Owners) \in Nat /\ Low(s, k, Owners) \in Nat
         /\ Low(s, t, Owners) + 1 <= Low(s, k, Owners)
<1>1. FromBelow(s, t + 1) \in Owners
  <2>1. t + 1 \in 1 .. Len(s)
    OBVIOUS
  <2>2. Len(s) + 1 - (t + 1) \in DOMAIN s
    BY <2>1, Position
  <2>3. FromBelow(s, t + 1).own
    BY <2>2 DEF Answers, FromBelow
  <2> QED
    BY <2>3 DEF Owners, Barriers
<1>2. Low(s, t + 1, Owners) = Low(s, t, Owners) + 1
  <2>1. t \in 0 .. Len(s) - 1
    OBVIOUS
  <2> QED
    BY <1>1, <2>1, LowStep
<1>3. Low(s, t + 1, Owners) <= Low(s, k, Owners) /\ Low(s, k, Owners) \in Nat
  <2>1. t + 1 \in 0 .. k
    OBVIOUS
  <2> QED
    BY <2>1, LowMono
<1>4. Low(s, t, Owners) \in Nat
  <2>1. t \in 0 .. Len(s)
    OBVIOUS
  <2> QED
    BY <2>1, LowType
<1> QED
  BY <1>2, <1>3, <1>4

LEMMA LevelsPush ==
  ASSUME NEW s \in Seq(Frame), NEW f \in Frame, NEW r, Levels(s, r), Answers(s),
         Len(r) = Num(s, Owners),
         NEW r2, \A j \in 1 .. Len(r) : r2[j] = r[j],
         f \in Barriers => (r # <<>> => Chain(s, Len(s), r[Len(r)])),
         r = <<>> <=> Len(r) = 0
  PROVE  Levels(<<f>> \o s, r2)
<1>1. PICK u : u = <<f>> \o s
  OBVIOUS
<1>2. Len(u) = Len(s) + 1 /\ Len(s) \in Nat
  BY <1>1, PushAt
<1>3. /\ \A p \in 1 .. Len(s) : FromBelow(u, p) = FromBelow(s, p)
      /\ FromBelow(u, Len(s) + 1) = f
  BY <1>1, AtPush
<1>4. \A k \in 0 .. Len(s) : Low(u, k, Owners) = Low(s, k, Owners)
  BY <1>1, LowPush
<1>5. \A t \in 0 .. Len(s) : \A b : Chain(u, t, b) <=> Chain(s, t, b)
  BY <1>1, ChainPush
<1>6. ASSUME NEW t \in 0 .. Len(s), FromBelow(u, t + 1) \in Barriers, Low(u, t, Owners) > 0
      PROVE  Chain(u, t, r2[Low(u, t, Owners)])
  <2>1. Low(u, t, Owners) = Low(s, t, Owners) /\ Low(s, t, Owners) \in Nat
    BY <1>4, LowType
  <2>2. CASE t = Len(s)
    <3>1. Low(s, t, Owners) = Len(r) /\ f \in Barriers
      BY <1>3, <1>6, <2>2 DEF Num
    <3>2. Len(r) > 0 /\ Len(r) \in Nat /\ r # <<>>
      BY <1>6, <2>1, <3>1
    <3>3. Chain(s, t, r[Len(r)]) /\ r2[Len(r)] = r[Len(r)]
      BY <2>2, <3>1, <3>2
    <3>4. Chain(s, t, r2[Low(u, t, Owners)])
      BY <2>1, <3>1, <3>3
    <3> QED
      BY <1>5, <3>4
  <2>3. CASE t # Len(s)
    <3>1. t \in 0 .. Len(s) - 1 /\ t + 1 \in 1 .. Len(s)
      BY <1>2, <2>3
    <3>2. FromBelow(s, t + 1) \in Barriers /\ Low(s, t, Owners) > 0
      BY <1>3, <1>6, <2>1, <3>1
    <3>3. Chain(s, t, r[Low(s, t, Owners)])
      BY <3>1, <3>2 DEF Levels
    <3>4. Low(s, t, Owners) + 1 <= Len(r) /\ Len(r) \in Nat
      <4>1. Len(s) \in 0 .. Len(s)
        BY <1>2
      <4> QED
        BY <3>1, <3>2, <4>1, BarrierLow DEF Num
    <3>5. Low(s, t, Owners) \in 1 .. Len(r)
      BY <2>1, <3>2, <3>4
    <3>6. Chain(s, t, r2[Low(u, t, Owners)])
      BY <2>1, <3>3, <3>5
    <3> QED
      BY <1>5, <3>6
  <2> QED
    BY <2>2, <2>3
<1>7. 0 .. Len(u) - 1 = 0 .. Len(s)
  BY <1>2
<1>8. Levels(u, r2)
  BY <1>6, <1>7 DEF Levels
<1> QED
  BY <1>1, <1>8

LEMMA RootedPush ==
  ASSUME NEW s \in Seq(Frame), NEW f \in Frame, Rooted(s),
         f \in Presses \/ f \in Owners \/ (s # <<>> /\ s[1] \notin Presses)
  PROVE  Rooted(<<f>> \o s)
<1>1. PICK u : u = <<f>> \o s
  OBVIOUS
<1>2. Len(u) = Len(s) + 1 /\ Len(s) \in Nat /\ u \in Seq(Frame)
  BY <1>1, PushAt
<1>3. /\ \A p \in 1 .. Len(s) : FromBelow(u, p) = FromBelow(s, p)
      /\ FromBelow(u, Len(s) + 1) = f
  BY <1>1, AtPush
<1>4. \A k \in 0 .. Len(s) : Low(u, k, Owners) = Low(s, k, Owners) /\ Low(s, k, Owners) \in Nat
  BY <1>1, LowPush, LowType
<1>5. ASSUME NEW p \in 1 .. Len(s), FromBelow(u, p) \notin Presses PROVE Low(u, p, Owners) > 0
  <2>1. p \in 0 .. Len(s)
    OBVIOUS
  <2> QED
    BY <1>3, <1>4, <1>5, <2>1 DEF Rooted
<1>6. ASSUME f \notin Presses PROVE Low(u, Len(s) + 1, Owners) > 0
  <2>1. Len(s) \in 0 .. Len(u) - 1 /\ Len(s) \in 0 .. Len(s)
    BY <1>2
  <2>2. /\ f \in Owners => Low(u, Len(s) + 1, Owners) = Low(u, Len(s), Owners) + 1
        /\ f \notin Owners => Low(u, Len(s) + 1, Owners) = Low(u, Len(s), Owners)
    BY <1>2, <1>3, <2>1, LowStep
  <2>3. Low(u, Len(s), Owners) = Low(s, Len(s), Owners) /\ Low(s, Len(s), Owners) \in Nat
    BY <1>4, <2>1
  <2>4. CASE f \in Owners
    BY <2>2, <2>3, <2>4
  <2>5. CASE f \notin Owners
    <3>1. s # <<>> /\ s[1] \notin Presses
      BY <1>6, <2>5
    <3>2. Len(s) \in 1 .. Len(s) /\ FromBelow(s, Len(s)) = s[1]
      BY <1>2, <3>1 DEF FromBelow
    <3>3. Low(s, Len(s), Owners) > 0
      BY <3>1, <3>2 DEF Rooted
    <3> QED
      BY <2>2, <2>3, <2>5, <3>3
  <2> QED
    BY <2>4, <2>5
<1>7. 1 .. Len(u) = (1 .. Len(s)) \cup {Len(s) + 1}
  BY <1>2
<1>8. Rooted(u)
  BY <1>3, <1>5, <1>6, <1>7 DEF Rooted
<1> QED
  BY <1>1, <1>8

LEMMA AnswersPush ==
  ASSUME NEW s \in Seq(Frame), NEW f \in Frame, Answers(s), f \in Barriers => f.own,
         s # <<>> => s[1].at # "call"
  PROVE  Answers(<<f>> \o s)
<1>1. PICK u : u = <<f>> \o s
  OBVIOUS
<1>2. /\ Len(s) \in Nat /\ DOMAIN u = 1 .. Len(s) + 1 /\ Len(u) = Len(s) + 1 /\ u[1] = f
      /\ \A i \in 2 .. Len(s) + 1 : i - 1 \in DOMAIN s /\ u[i] = s[i - 1]
  BY <1>1, PushAt
<1>3. ASSUME NEW i \in 2 .. Len(s) + 1 PROVE (u[i] \in Barriers => u[i].own) /\ u[i].at # "call"
  <2>1. i - 1 \in DOMAIN s /\ u[i] = s[i - 1]
    BY <1>2
  <2>2. s[i - 1] \in Barriers => s[i - 1].own
    BY <2>1 DEF Answers
  <2>3. s[i - 1].at # "call"
    <3>1. CASE i - 1 = 1
      <4>1. s # <<>>
        BY <2>1
      <4> QED
        BY <3>1, <4>1
    <3>2. CASE i - 1 # 1
      <4>1. i - 1 \in 2 .. Len(s)
        BY <1>2, <3>2
      <4> QED
        BY <4>1 DEF Answers
    <3> QED
      BY <3>1, <3>2
  <2> QED
    BY <2>1, <2>2, <2>3
<1>4. DOMAIN u = {1} \cup (2 .. Len(s) + 1)
  BY <1>2
<1>5. \A i \in DOMAIN u : u[i] \in Barriers => u[i].own
  BY <1>2, <1>3, <1>4
<1>6. \A i \in 2 .. Len(u) : u[i].at # "call"
  BY <1>2, <1>3
<1> QED
  BY <1>1, <1>5, <1>6 DEF Answers

(* the stack under the frame on top *)
LEMMA AnswersPop ==
  ASSUME NEW s \in Seq(Frame), s # <<>>, Answers(s)
  PROVE  Answers(Tail(s)) /\ (Tail(s) # <<>> => Tail(s)[1].at # "call")
<1>1. PICK u : u = Tail(s)
  OBVIOUS
<1>2. /\ u \in Seq(Frame) /\ Len(u) = Len(s) - 1 /\ Len(s) \in Nat /\ Len(s) >= 1
      /\ DOMAIN u = 1 .. Len(s) - 1 /\ \A i \in DOMAIN u : u[i] = s[i + 1] /\ i + 1 \in DOMAIN s
  BY <1>1, PopAt
<1>3. ASSUME NEW i \in DOMAIN u PROVE (u[i] \in Barriers => u[i].own) /\ u[i].at # "call"
  <2>1. u[i] = s[i + 1] /\ i + 1 \in DOMAIN s
    BY <1>2
  <2>2. i + 1 \in 2 .. Len(s)
    BY <1>2
  <2> QED
    BY <2>1, <2>2 DEF Answers
<1>4. \A i \in 2 .. Len(u) : i \in DOMAIN u
  BY <1>2
<1>5. u # <<>> => 1 \in DOMAIN u
  BY <1>2
<1> QED
  BY <1>1, <1>3, <1>4, <1>5 DEF Answers

LEMMA AtPop ==
  ASSUME NEW s \in Seq(Frame), s # <<>>
  PROVE  /\ Len(Tail(s)) = Len(s) - 1 /\ Len(s) \in Nat /\ Len(s) >= 1
         /\ \A p \in 1 .. Len(s) - 1 : FromBelow(Tail(s), p) = FromBelow(s, p)
         /\ FromBelow(s, Len(s)) = s[1]
         /\ \A k \in 0 .. Len(s) - 1 : Low(Tail(s), k, Owners) = Low(s, k, Owners)
<1>1. PICK u, f : u = Tail(s) /\ f = s[1]
  OBVIOUS
<1>2. u \in Seq(Frame) /\ f \in Frame /\ s = <<f>> \o u /\ Len(u) = Len(s) - 1
      /\ Len(s) \in Nat /\ Len(s) >= 1
  BY <1>1, PopAt
<1>3. \A p \in 1 .. Len(u) : FromBelow(s, p) = FromBelow(u, p)
  BY <1>2, AtPush
<1>4. \A k \in 0 .. Len(s) - 1 : Low(u, k, Owners) = Low(s, k, Owners)
  BY <1>1, NumPop
<1>5. FromBelow(s, Len(s)) = s[1]
  BY <1>2 DEF FromBelow
<1>6. \A p \in 1 .. Len(s) - 1 : FromBelow(u, p) = FromBelow(s, p)
  BY <1>2, <1>3
<1> QED
  BY <1>1, <1>2, <1>4, <1>5, <1>6

LEMMA ChainPop ==
  ASSUME NEW s \in Seq(Frame), s # <<>>, NEW t \in 0 .. Len(s) - 1, NEW b
  PROVE  /\ Chain(Tail(s), t, b) <=> Chain(s, t, b)
         /\ NoneLeft(Tail(s), t) <=> NoneLeft(s, t)
<1>1. PICK u, f : u = Tail(s) /\ f = s[1]
  OBVIOUS
<1>2. u \in Seq(Frame) /\ f \in Frame /\ s = <<f>> \o u /\ t \in 0 .. Len(u)
  BY <1>1, PopAt
<1>3. (Chain(<<f>> \o u, t, b) <=> Chain(u, t, b)) /\ (NoneLeft(<<f>> \o u, t) <=> NoneLeft(u, t))
  BY <1>2, ChainPush
<1> QED
  BY <1>1, <1>2, <1>3

LEMMA LevelsPop ==
  ASSUME NEW s \in Seq(Frame), s # <<>>, NEW r, Levels(s, r), Answers(s),
         NEW r2, \A j \in 1 .. Num(Tail(s), Owners) - 1 : r2[j] = r[j]
  PROVE  Levels(Tail(s), r2)
<1>1. PICK u : u = Tail(s)
  OBVIOUS
<1>2. /\ Len(u) = Len(s) - 1 /\ Len(s) \in Nat /\ Len(s) >= 1
      /\ \A p \in 1 .. Len(s) - 1 : FromBelow(u, p) = FromBelow(s, p)
      /\ \A k \in 0 .. Len(s) - 1 : Low(u, k, Owners) = Low(s, k, Owners)
  BY <1>1, AtPop
<1>3. ASSUME NEW t \in 0 .. Len(u) - 1, FromBelow(u, t + 1) \in Barriers, Low(u, t, Owners) > 0
      PROVE  Chain(u, t, r2[Low(u, t, Owners)])
  <2>1. t \in 0 .. Len(s) - 1 /\ t + 1 \in 1 .. Len(s) - 1 /\ Len(s) - 1 \in 0 .. Len(s)
        /\ t \in 0 .. (Len(s) - 1) - 1
    BY <1>2
  <2>2. FromBelow(s, t + 1) \in Barriers /\ Low(s, t, Owners) = Low(u, t, Owners)
    BY <1>2, <1>3, <2>1
  <2>3. Chain(s, t, r[Low(s, t, Owners)])
    BY <1>3, <2>1, <2>2 DEF Levels
  <2>4. /\ Low(s, t, Owners) \in Nat /\ Low(s, Len(s) - 1, Owners) \in Nat
        /\ Low(s, t, Owners) + 1 <= Low(s, Len(s) - 1, Owners)
    BY <2>1, <2>2, BarrierLow
  <2>5. Num(u, Owners) = Low(s, Len(s) - 1, Owners)
    BY <1>2, <2>1 DEF Num
  <2>6. Low(u, t, Owners) \in 1 .. Num(u, Owners) - 1
    BY <1>3, <2>2, <2>4, <2>5
  <2>7. r2[Low(u, t, Owners)] = r[Low(u, t, Owners)]
    BY <1>1, <2>6
  <2>8. Chain(s, t, r2[Low(u, t, Owners)])
    BY <2>2, <2>3, <2>7
  <2> QED
    BY <1>1, <2>1, <2>8, ChainPop
<1>4. Levels(u, r2)
  BY <1>3 DEF Levels
<1> QED
  BY <1>1, <1>4

LEMMA RootedPop ==
  ASSUME NEW s \in Seq(Frame), s # <<>>, Rooted(s)
  PROVE  Rooted(Tail(s))
<1>1. PICK u : u = Tail(s)
  OBVIOUS
<1>2. /\ Len(u) = Len(s) - 1 /\ Len(s) \in Nat /\ Len(s) >= 1
      /\ \A p \in 1 .. Len(s) - 1 : FromBelow(u, p) = FromBelow(s, p)
      /\ \A k \in 0 .. Len(s) - 1 : Low(u, k, Owners) = Low(s, k, Owners)
  BY <1>1, AtPop
<1>3. ASSUME NEW p \in 1 .. Len(u), FromBelow(u, p) \notin Presses PROVE Low(u, p, Owners) > 0
  <2>1. p \in 1 .. Len(s) - 1 /\ p \in 0 .. Len(s) - 1 /\ p \in 1 .. Len(s)
    BY <1>2
  <2>2. FromBelow(s, p) \notin Presses
    BY <1>2, <1>3, <2>1
  <2>3. Low(s, p, Owners) > 0
    BY <2>1, <2>2 DEF Rooted
  <2> QED
    BY <1>2, <2>1, <2>3
<1> QED
  BY <1>1, <1>3 DEF Rooted

LEMMA AboveType ==
  ASSUME NEW s \in Seq(Frame), NEW t \in 0 .. Len(s), NEW k \in 1 .. t
  PROVE  Above(s, k, t) \in Nat
<1>1. k \in 0 .. t
  OBVIOUS
<1>2. /\ Low(s, k, Activations) \in Nat /\ Low(s, t, Activations) \in Nat
      /\ Low(s, k, Activations) <= Low(s, t, Activations)
  BY <1>1, LowMono
<1> QED
  BY <1>2 DEF Above

LEMMA ChainZero ==
  ASSUME NEW s \in Seq(Frame), NEW t \in 0 .. Len(s), NoneLeft(s, t)
  PROVE  Chain(s, t, 0)
<1>1. ASSUME NEW k \in 1 .. t PROVE ~Leaves(0, Above(s, k, t))
  BY AboveType, BreakRange, BreaksType
<1> QED
  BY <1>1 DEF NoneLeft, Chain

LEMMA NoBreak ==
  ASSUME NEW s \in Seq(Frame), NEW t \in 0 .. Len(s), Chain(s, t, 0)
  PROVE  NoneLeft(s, t)
<1>1. ASSUME NEW k \in 1 .. t PROVE ~Leaves(0, Above(s, k, t))
  BY AboveType, BreakRange, BreaksType
<1> QED
  BY <1>1 DEF NoneLeft, Chain

LEMMA CleanedUpIs ==
  ASSUME NEW r \in Seq(Breaks)
  PROVE  /\ CleanedUp(r) \in Seq(Breaks) /\ Len(CleanedUp(r)) = Len(r)
         /\ r # <<>> => CleanedUp(r)[Len(r)] = Reduced(r[Len(r)])
         /\ \A j \in 1 .. Len(r) - 1 : CleanedUp(r)[j] = r[j]
         /\ r = <<>> => CleanedUp(r) = <<>>
<1>1. Len(r) \in Nat /\ (r # <<>> <=> Len(r) > 0) /\ DOMAIN r = 1 .. Len(r)
  OBVIOUS
<1>2. CASE r = <<>>
  <2>1. [r EXCEPT ![Len(r)] = @ - 1] = r
    BY <1>2
  <2>2. CleanedUp(r) = r
    BY <2>1 DEF CleanedUp
  <2> QED
    BY <1>2, <2>2
<1>3. CASE r # <<>>
  <2>1. PICK i, b : i = Len(r) /\ b = r[i]
    OBVIOUS
  <2>2. b \in Breaks /\ Last(r) = b /\ i \in DOMAIN r
    BY <1>1, <1>3, <2>1 DEF Last
  <2>3. Reduced(b) \in Breaks
    BY <2>2, BreakRange
  <2>4. CleanedUp(r) = Overwrite(r, i, Reduced(b))
    <3>1. CASE b > 0
      BY <2>1, <2>2, <3>1 DEF CleanedUp, Overwrite, Reduced
    <3>2. CASE ~(b > 0)
      <4>1. CleanedUp(r) = r /\ Reduced(b) = b
        BY <2>2, <3>2 DEF CleanedUp, Reduced
      <4>2. Overwrite(r, i, b) = r
        BY <2>1, <2>2 DEF Overwrite
      <4> QED
        BY <4>1, <4>2
    <3> QED
      BY <3>1, <3>2
  <2>5. Overwrite(r, i, Reduced(b)) \in Seq(Breaks) /\ Len(Overwrite(r, i, Reduced(b))) = Len(r)
    BY <2>3, Overwritten
  <2>6. /\ Overwrite(r, i, Reduced(b))[i] = Reduced(b)
        /\ \A j \in 1 .. Len(r) - 1 : Overwrite(r, i, Reduced(b))[j] = r[j]
    BY <1>1, <2>1, <2>2 DEF Overwrite
  <2> QED
    BY <1>1, <1>3, <2>1, <2>4, <2>5, <2>6
<1> QED
  BY <1>2, <1>3

LEMMA BrokenPushSame ==
  ASSUME NEW s \in Seq(Frame), NEW r \in Seq(Breaks), Len(r) = Num(s, Owners), Broken(s, r),
         NEW f \in Frame, f \notin Barriers, f \notin Activations,
         f \in Presses \/ (s # <<>> /\ s[1] \notin Presses), s # <<>> => s[1].at # "call"
  PROVE  /\ Broken(<<f>> \o s, r)
         /\ NoneLeft(s, Len(s)) => NoneLeft(<<f>> \o s, Len(<<f>> \o s))
<1>1. PICK u : u = <<f>> \o s
  OBVIOUS
<1>2. Len(s) \in Nat /\ u \in Seq(Frame) /\ Len(u) = Len(s) + 1
  BY <1>1, PushAt
<1>3. Levels(u, r)
  BY <1>1, LevelsPush DEF Broken
<1>4. Rooted(u)
  BY <1>1, RootedPush DEF Broken
<1>5. Answers(u)
  BY <1>1, AnswersPush DEF Broken
<1>6. FromBelow(u, Len(s) + 1) = f /\ Len(s) \in 0 .. Len(u) - 1 /\ Len(s) \in 0 .. Len(s)
  BY <1>1, <1>2, AtPush
<1>7. ASSUME NEW b
      PROVE  /\ Chain(u, Len(u), b) <=> Chain(s, Len(s), b)
             /\ NoneLeft(u, Len(u)) <=> NoneLeft(s, Len(s))
  <2>1. /\ Chain(u, Len(s) + 1, b) <=> Chain(u, Len(s), b)
        /\ NoneLeft(u, Len(s) + 1) <=> NoneLeft(u, Len(s))
    BY <1>2, <1>6, ChainNext
  <2>2. /\ Chain(u, Len(s), b) <=> Chain(s, Len(s), b)
        /\ NoneLeft(u, Len(s)) <=> NoneLeft(s, Len(s))
    BY <1>1, <1>6, ChainPush
  <2> QED
    BY <1>2, <2>1, <2>2
<1>8. Current(u, r)
  BY <1>7 DEF Broken, Current
<1> QED
  BY <1>1, <1>3, <1>4, <1>5, <1>7, <1>8 DEF Broken

LEMMA BrokenPushOwner ==
  ASSUME NEW s \in Seq(Frame), NEW r \in Seq(Breaks), Len(r) = Num(s, Owners), Broken(s, r),
         NEW f \in Owners, f \in Barriers \/ NoneLeft(s, Len(s)), s # <<>> => s[1].at # "call"
  PROVE  Broken(<<f>> \o s, Append(r, 0)) /\ NoneLeft(<<f>> \o s, Len(<<f>> \o s))
<1>1. PICK u, q : u = <<f>> \o s /\ q = Append(r, 0)
  OBVIOUS
<1>2. /\ f \in Frame /\ f \in Commands /\ f.own /\ f \notin Activations
      /\ Len(s) \in Nat /\ u \in Seq(Frame) /\ Len(u) = Len(s) + 1
  BY <1>1, PushAt DEF Owners, Commands, Activations
<1>3. /\ Len(q) = Len(r) + 1 /\ q[Len(q)] = 0 /\ Len(r) \in Nat
      /\ \A j \in 1 .. Len(r) : q[j] = r[j]
  BY <1>1, BreaksType
<1>4. Levels(u, q)
  <2>1. Levels(s, r) /\ Answers(s) /\ (r # <<>> => Chain(s, Len(s), r[Len(r)]))
    BY DEF Broken, Current
  <2>2. r = <<>> <=> Len(r) = 0
    OBVIOUS
  <2>3. f \in Barriers => (r # <<>> => Chain(s, Len(s), r[Len(r)]))
    BY <2>1
  <2>4. \A j \in 1 .. Len(r) : q[j] = r[j]
    BY <1>3
  <2>5. Levels(<<f>> \o s, q)
    BY <1>2, <2>1, <2>2, <2>3, <2>4, LevelsPush
  <2> QED
    BY <1>1, <2>5
<1>5. Rooted(u)
  BY <1>1, <1>2, RootedPush DEF Broken
<1>6. Answers(u)
  BY <1>1, <1>2, AnswersPush DEF Broken
<1>7. FromBelow(u, Len(s) + 1) = f /\ Len(s) \in 0 .. Len(u) - 1 /\ Len(s) \in 0 .. Len(s)
  BY <1>1, <1>2, AtPush
<1>8. Chain(u, Len(u), 0) /\ NoneLeft(u, Len(u))
  <2>1. CASE f \in Barriers
    BY <1>2, <1>7, <2>1, ChainBarrier
  <2>2. CASE f \notin Barriers
    <3>1. NoneLeft(s, Len(s)) /\ Chain(s, Len(s), 0)
      BY <1>7, <2>2, ChainZero
    <3>2. NoneLeft(u, Len(s)) /\ Chain(u, Len(s), 0)
      BY <1>1, <1>2, <1>7, <3>1, ChainPush
    <3>3. /\ Chain(u, Len(s) + 1, 0) <=> Chain(u, Len(s), 0)
          /\ NoneLeft(u, Len(s) + 1) <=> NoneLeft(u, Len(s))
      BY <1>2, <1>7, <2>2, ChainNext
    <3> QED
      BY <1>2, <3>2, <3>3
  <2> QED
    BY <2>1, <2>2
<1>9. Current(u, q)
  BY <1>3, <1>8 DEF Current
<1> QED
  BY <1>1, <1>4, <1>5, <1>6, <1>8, <1>9 DEF Broken

LEMMA BrokenPushFunction ==
  ASSUME NEW s \in Seq(Frame), NEW r \in Seq(Breaks), Len(r) = Num(s, Owners), Broken(s, r),
         NEW f \in Activations, NoneLeft(s, Len(s)), s # <<>>, s[1] \notin Presses, s[1].at # "call",
         f.left # "yes", f.left = "no" => Last(r) = 0
  PROVE  Broken(<<f>> \o s, r)
<1>1. PICK u : u = <<f>> \o s
  OBVIOUS
<1>2. /\ f \in Frame /\ f \notin Barriers /\ f \notin Commands
      /\ Len(s) \in Nat /\ u \in Seq(Frame) /\ Len(u) = Len(s) + 1
  BY <1>1, PushAt, Sorts DEF Activations
<1>3. Levels(u, r)
  BY <1>1, <1>2, LevelsPush DEF Broken
<1>4. Rooted(u)
  BY <1>1, <1>2, RootedPush DEF Broken
<1>5. Answers(u)
  BY <1>1, <1>2, AnswersPush DEF Broken
<1>6. FromBelow(u, Len(s) + 1) = f /\ Len(s) \in 0 .. Len(u) - 1 /\ Len(s) \in 0 .. Len(s)
  BY <1>1, <1>2, AtPush
<1>7. ASSUME r # <<>> PROVE Chain(u, Len(u), r[Len(r)])
  <2>1. PICK b : b = r[Len(r)]
    OBVIOUS
  <2>2. b \in Breaks /\ b = Last(r)
    BY <1>7, <2>1 DEF Last
  <2>3. Chain(s, Len(s), b)
    BY <1>7, <2>1 DEF Broken, Current
  <2>4. Chain(u, Len(s), b) /\ NoneLeft(u, Len(s))
    BY <1>1, <1>2, <1>6, <2>3, ChainPush
  <2>5. Chain(u, Len(s) + 1, b)
    BY <1>2, <1>6, <2>2, <2>4, ChainEnter
  <2> QED
    BY <1>2, <2>1, <2>5
<1> QED
  BY <1>1, <1>3, <1>4, <1>5, <1>7 DEF Broken, Current
---------------------------------------------------------------------------
LEMMA BrokenPopSame ==
  ASSUME NEW s \in Seq(Frame), s # <<>>, NEW r \in Seq(Breaks), Broken(s, r),
         s[1] \notin Barriers, s[1] \notin Activations
  PROVE  Broken(Tail(s), r) /\ (Tail(s) # <<>> => Tail(s)[1].at # "call")
<1>1. PICK u : u = Tail(s)
  OBVIOUS
<1>2. Len(u) = Len(s) - 1 /\ Len(s) \in Nat /\ Len(s) >= 1 /\ FromBelow(s, Len(s)) = s[1]
  BY <1>1, AtPop
<1>3. Levels(u, r)
  BY <1>1, LevelsPop DEF Broken
<1>4. Rooted(u) /\ Answers(u) /\ (u # <<>> => u[1].at # "call")
  BY <1>1, RootedPop, AnswersPop DEF Broken
<1>5. ASSUME NEW b, Chain(s, Len(s), b) PROVE Chain(u, Len(u), b)
  <2>1. Len(u) \in 0 .. Len(s) - 1 /\ Len(u) + 1 = Len(s)
    BY <1>2
  <2>2. Chain(s, Len(u), b)
    BY <1>2, <1>5, <2>1, ChainNext
  <2> QED
    BY <1>1, <2>1, <2>2, ChainPop
<1> QED
  BY <1>1, <1>3, <1>4, <1>5 DEF Broken, Current

LEMMA BrokenPopFunction ==
  ASSUME NEW s \in Seq(Frame), s # <<>>, NEW r \in Seq(Breaks), Len(r) = Num(s, Owners),
         Broken(s, r), s[1] \in Activations
  PROVE  Broken(Tail(s), CleanedUp(r)) /\ (Tail(s) # <<>> => Tail(s)[1].at # "call")
<1>1. PICK u, q : u = Tail(s) /\ q = CleanedUp(r)
  OBVIOUS
<1>2. Len(u) = Len(s) - 1 /\ Len(s) \in Nat /\ Len(s) >= 1 /\ FromBelow(s, Len(s)) = s[1]
  BY <1>1, AtPop
<1>3. /\ Len(q) = Len(r) /\ Len(r) \in Nat /\ \A j \in 1 .. Len(r) - 1 : q[j] = r[j]
      /\ r # <<>> => q[Len(r)] = Reduced(r[Len(r)])
      /\ r = <<>> => q = <<>>
  <2>1. Len(q) = Len(r) /\ Len(r) \in Nat /\ \A j \in 1 .. Len(r) - 1 : q[j] = r[j]
    BY <1>1, CleanedUpIs
  <2>2. r # <<>> => q[Len(r)] = Reduced(r[Len(r)])
    BY <1>1, CleanedUpIs
  <2>3. r = <<>> => q = <<>>
    BY <2>1, <1>1, CleanedUpIs
  <2> QED
    BY <2>1, <2>2, <2>3
<1>4. Num(u, Owners) = Len(r)
  BY <1>1, NumTail, Sorts
<1>5. Levels(u, q)
  BY <1>1, <1>3, <1>4, LevelsPop DEF Broken
<1>6. Rooted(u) /\ Answers(u) /\ (u # <<>> => u[1].at # "call")
  BY <1>1, RootedPop, AnswersPop DEF Broken
<1>7. ASSUME q # <<>> PROVE Chain(u, Len(u), q[Len(q)])
  <2>1. PICK b : b = r[Len(r)]
    OBVIOUS
  <2>2. b \in Breaks /\ q[Len(q)] = Reduced(b) /\ Chain(s, Len(s), b)
    BY <1>3, <1>7, <2>1 DEF Broken, Current
  <2>3. Len(u) \in 0 .. Len(s) - 1 /\ Len(u) + 1 = Len(s)
    BY <1>2
  <2>4. Chain(s, Len(u), Reduced(b))
    BY <1>2, <2>2, <2>3, ChainLeave
  <2>5. Chain(u, Len(u), Reduced(b))
    BY <1>1, <2>3, <2>4, ChainPop
  <2> QED
    BY <2>2, <2>5
<1> QED
  BY <1>1, <1>5, <1>6, <1>7 DEF Broken, Current

(* what a command leaves of the conditional return codes *)
Returned(f, r) ==
  IF ~f.own THEN r
  ELSE IF f.passes THEN [Front(r) EXCEPT ![Len(r) - 1] = Last(r)]
  ELSE Front(r)

LEMMA FrontAt ==
  ASSUME NEW S, NEW r \in Seq(S), r # <<>>
  PROVE  /\ Len(Front(r)) = Len(r) - 1 /\ Front(r) \in Seq(S)
         /\ \A j \in 1 .. Len(r) - 1 : Front(r)[j] = r[j]
<1>1. Len(r) \in Nat /\ Len(r) >= 1
  OBVIOUS
<1>2. \A j \in 1 .. Len(r) - 1 : SubSeq(r, 1, Len(r) - 1)[j] = r[j]
  BY <1>1
<1> QED
  BY <1>2, LastOf DEF Front

LEMMA BrokenReturn ==
  ASSUME NEW s \in Seq(Frame), s # <<>>, NEW r \in Seq(Breaks), Len(r) = Num(s, Owners),
         Broken(s, r), s[1] \in Commands
  PROVE  Broken(Tail(s), Returned(s[1], r)) /\ (Tail(s) # <<>> => Tail(s)[1].at # "call")
<1>1. PICK u, f : u = Tail(s) /\ f = s[1]
  OBVIOUS
<1>2. Len(u) = Len(s) - 1 /\ Len(s) \in Nat /\ Len(s) >= 1 /\ FromBelow(s, Len(s)) = f
  BY <1>1, AtPop
<1>3. Rooted(u) /\ Answers(u) /\ (u # <<>> => u[1].at # "call")
  BY <1>1, RootedPop, AnswersPop DEF Broken
<1>4. f \in Commands /\ f \notin Activations /\ (f \in Barriers => f.own) /\ f \in Frame
  <2>1. 1 \in DOMAIN s
    BY <1>2
  <2> QED
    BY <1>1, <2>1, Sorts DEF Broken, Answers, Commands
<1>5. CASE ~f.own
  BY <1>1, <1>4, <1>5, BrokenPopSame DEF Returned
<1>6. CASE f.own
  <2>1. f \in Owners
    BY <1>4, <1>6 DEF Owners
  <2>2. Num(u, Owners) = Len(r) - 1 /\ Len(r) >= 1 /\ Len(r) \in Nat /\ r # <<>>
    BY <1>1, <2>1, NumTail
  <2>3. PICK p : p = Front(r)
    OBVIOUS
  <2>4. p \in Seq(Breaks) /\ Len(p) = Len(r) - 1 /\ \A j \in 1 .. Len(r) - 1 : p[j] = r[j]
    BY <2>2, <2>3, FrontAt
  <2>5. Len(u) \in 0 .. Len(s) - 1 /\ Len(u) + 1 = Len(s)
    BY <1>2
  <2>6. CASE f \in Barriers
    <3>1. Returned(f, r) = p
      BY <1>6, <2>3, <2>6 DEF Returned, Barriers
    <3>2. Levels(u, p)
      <4>1. \A j \in 1 .. Num(u, Owners) - 1 : p[j] = r[j]
        BY <2>2, <2>4
      <4> QED
        BY <1>1, <4>1, LevelsPop DEF Broken
    <3>3. ASSUME p # <<>> PROVE Chain(u, Len(u), p[Len(p)])
      <4>1. Low(s, Len(u), Owners) = Len(p)
        <5>1. Low(u, Len(u), Owners) = Low(s, Len(u), Owners)
          BY <1>1, <2>5, AtPop
        <5> QED
          BY <2>2, <2>4, <5>1 DEF Num
      <4>2. Len(p) > 0 /\ p[Len(p)] = r[Len(p)]
        BY <2>2, <2>4, <3>3
      <4>3. Chain(s, Len(u), r[Len(p)])
        BY <1>2, <2>5, <2>6, <4>1, <4>2 DEF Broken, Levels
      <4> QED
        BY <1>1, <2>5, <4>2, <4>3, ChainPop
    <3> QED
      BY <1>1, <1>3, <3>1, <3>2, <3>3 DEF Broken, Current
  <2>7. CASE f \notin Barriers
    <3>1. PICK i, b, q : i = Len(r) - 1 /\ b = Last(r) /\ q = Overwrite(p, i, b)
      OBVIOUS
    <3>2. Returned(f, r) = q
      BY <1>4, <1>6, <2>3, <2>7, <3>1 DEF Returned, Barriers, Overwrite
    <3>3. b \in Breaks /\ b = r[Len(r)]
      BY <2>2, <3>1, LastOf DEF Last
    <3>4. q \in Seq(Breaks) /\ Len(q) = Len(p)
      BY <2>4, <3>1, <3>3, Overwritten
    <3>5. \A j \in 1 .. Num(u, Owners) - 1 : q[j] = r[j]
      BY <2>2, <2>4, <3>1 DEF Overwrite
    <3>6. Levels(u, q)
      BY <1>1, <3>5, LevelsPop DEF Broken
    <3>7. ASSUME q # <<>> PROVE q[Len(q)] = b
      BY <2>2, <2>4, <3>1, <3>4, <3>7 DEF Overwrite
    <3>8. Chain(u, Len(u), b)
      <4>1. Chain(s, Len(s), b)
        BY <2>2, <3>3 DEF Broken, Current
      <4>2. Chain(s, Len(u), b)
        BY <1>2, <1>4, <2>5, <2>7, <4>1, ChainNext
      <4> QED
        BY <1>1, <2>5, <4>2, ChainPop
    <3> QED
      BY <1>1, <1>3, <3>2, <3>6, <3>7, <3>8 DEF Broken, Current
  <2> QED
    BY <2>6, <2>7
<1> QED
  BY <1>5, <1>6
---------------------------------------------------------------------------
(* Frames that change, but not what they are *)
Shape(f, g) ==
  /\ f \in Activations <=> g \in Activations
  /\ f \in Barriers <=> g \in Barriers
  /\ f \in Owners <=> g \in Owners
  /\ f \in Presses <=> g \in Presses
  /\ g.own = f.own /\ (g.at = "call" => f.at = "call")

SameShape(s, u) ==
  /\ s \in Seq(Frame) /\ u \in Seq(Frame) /\ Len(u) = Len(s)
  /\ \A i \in DOMAIN s : Shape(s[i], u[i])

LEMMA ShapeAt ==
  ASSUME NEW s, NEW u, SameShape(s, u), NEW p \in 1 .. Len(s)
  PROVE  Shape(FromBelow(s, p), FromBelow(u, p))
<1>1. Len(s) + 1 - p \in DOMAIN s
  BY DEF SameShape
<1> QED
  BY <1>1 DEF SameShape, FromBelow

LEMMA ShapeLow ==
  ASSUME NEW s, NEW u, SameShape(s, u), NEW k \in 0 .. Len(s)
  PROVE  /\ Low(s, k, Owners) = Low(u, k, Owners)
         /\ Low(s, k, Activations) = Low(u, k, Activations)
<1>1. s \in Seq(Frame) /\ u \in Seq(Frame) /\ Len(s) = Len(u)
  BY DEF SameShape
<1>2. \A i \in DOMAIN s : s[i] \in Owners <=> u[i] \in Owners
  BY DEF SameShape, Shape
<1>3. \A i \in DOMAIN s : s[i] \in Activations <=> u[i] \in Activations
  BY DEF SameShape, Shape
<1>4. Low(s, k, Owners) = Low(u, k, Owners)
  BY <1>1, <1>2, LowSame
<1>5. Low(s, k, Activations) = Low(u, k, Activations)
  BY <1>1, <1>3, LowSame
<1> QED
  BY <1>4, <1>5

LEMMA ShapeLinked ==
  ASSUME NEW s, NEW u, SameShape(s, u), NEW t \in 0 .. Len(s), NEW k \in 1 .. t
  PROVE  (Linked(s, k, t) <=> Linked(u, k, t)) /\ Above(s, k, t) = Above(u, k, t)
<1>1. Len(s) \in Nat
  BY DEF SameShape
<1>2. ASSUME NEW p \in k .. t
      PROVE  /\ FromBelow(s, p) \in Activations <=> FromBelow(u, p) \in Activations
             /\ FromBelow(s, p) \in Barriers <=> FromBelow(u, p) \in Barriers
  <2>1. p \in 1 .. Len(s)
    BY <1>1
  <2> QED
    BY <2>1, ShapeAt DEF Shape
<1>3. \A p \in k + 1 .. t : FromBelow(s, p) \in Barriers <=> FromBelow(u, p) \in Barriers
  <2>1. k + 1 .. t \subseteq k .. t
    OBVIOUS
  <2> QED
    BY <1>2, <2>1
<1>4. FromBelow(s, k) \in Activations <=> FromBelow(u, k) \in Activations
  <2>1. k \in k .. t
    OBVIOUS
  <2> QED
    BY <1>2, <2>1
<1>5. Linked(s, k, t) <=> Linked(u, k, t)
  BY <1>3, <1>4, Zenon DEF Linked
<1>6. k \in 0 .. Len(s) /\ t \in 0 .. Len(s)
  BY <1>1
<1>7. Above(s, k, t) = Above(u, k, t)
  BY <1>6, ShapeLow DEF Above
<1> QED
  BY <1>5, <1>7, Zenon

LEMMA ShapeChain ==
  ASSUME NEW s, NEW u, SameShape(s, u), NEW t \in 0 .. Len(s),
         \A k \in 1 .. t : Linked(s, k, t) => FromBelow(u, k).left = FromBelow(s, k).left
  PROVE  \A b : (Chain(s, t, b) <=> Chain(u, t, b)) /\ (NoneLeft(s, t) <=> NoneLeft(u, t))
<1>1. ASSUME NEW k \in 1 .. t
      PROVE  (Linked(s, k, t) <=> Linked(u, k, t)) /\ Above(s, k, t) = Above(u, k, t)
  BY ShapeLinked
<1>2. ASSUME NEW b PROVE Chain(s, t, b) <=> Chain(u, t, b)
  BY <1>1, Zenon DEF Chain
<1>3. NoneLeft(s, t) <=> NoneLeft(u, t)
  BY <1>1, Zenon DEF NoneLeft
<1> QED
  BY <1>2, <1>3, Zenon

LEMMA Remarked ==
  ASSUME NEW s, NEW u, SameShape(s, u), NEW r \in Seq(Breaks), Len(r) = Num(s, Owners),
         Broken(s, r), NEW q, \A j \in 1 .. Len(r) - 1 : q[j] = r[j],
         \A k \in 1 .. Len(s) : Linked(s, k, Len(s)) \/ FromBelow(u, k).left = FromBelow(s, k).left,
         Current(u, q)
  PROVE  Broken(u, q)
<1>1. s \in Seq(Frame) /\ u \in Seq(Frame) /\ Len(s) = Len(u) /\ Len(s) \in Nat
      /\ DOMAIN s = DOMAIN u
  BY DEF SameShape
<1>2. ASSUME NEW t \in 0 .. Len(s) - 1, FromBelow(u, t + 1) \in Barriers, Low(u, t, Owners) > 0
      PROVE  Chain(u, t, q[Low(u, t, Owners)])
  <2>1. t \in 0 .. Len(s) /\ t + 1 \in 1 .. Len(s) /\ Len(s) \in 0 .. Len(s)
    BY <1>1
  <2>2. FromBelow(s, t + 1) \in Barriers /\ Low(s, t, Owners) = Low(u, t, Owners)
    <3>1. Shape(FromBelow(s, t + 1), FromBelow(u, t + 1))
      BY <2>1, ShapeAt
    <3>2. Low(s, t, Owners) = Low(u, t, Owners)
      BY <2>1, ShapeLow
    <3> QED
      BY <1>2, <3>1, <3>2 DEF Shape
  <2>3. Chain(s, t, r[Low(s, t, Owners)])
    BY <1>2, <2>2 DEF Broken, Levels
  <2>4. Low(s, t, Owners) \in 1 .. Len(r) - 1
    <3>1. Low(s, t, Owners) \in Nat /\ Low(s, t, Owners) + 1 <= Low(s, Len(s), Owners)
          /\ Low(s, Len(s), Owners) \in Nat
      BY <1>1, <2>1, <2>2, BarrierLow DEF Broken
    <3> QED
      BY <1>2, <2>2, <3>1 DEF Num
  <2>5. ASSUME NEW k \in 1 .. t, Linked(s, k, t) PROVE FromBelow(u, k).left = FromBelow(s, k).left
    <3>1. k \in 1 .. Len(s) /\ t + 1 \in k + 1 .. Len(s)
      BY <1>1
    <3>2. ~Linked(s, k, Len(s))
      BY <2>2, <3>1 DEF Linked
    <3> QED
      BY <3>1, <3>2
  <2>6. \A b : (Chain(s, t, b) <=> Chain(u, t, b))
    BY <2>1, <2>5, ShapeChain
  <2>7. q[Low(u, t, Owners)] = r[Low(s, t, Owners)]
    BY <2>2, <2>4
  <2>8. PICK b : b = r[Low(s, t, Owners)]
    OBVIOUS
  <2> QED
    BY <2>3, <2>6, <2>7, <2>8
<1>3. Levels(u, q)
  BY <1>1, <1>2 DEF Levels
<1>4. Rooted(u)
  <2>1. ASSUME NEW p \in 1 .. Len(u), FromBelow(u, p) \notin Presses PROVE Low(u, p, Owners) > 0
    <3>1. p \in 1 .. Len(s) /\ p \in 0 .. Len(s)
      BY <1>1
    <3>2. FromBelow(s, p) \notin Presses
      BY <2>1, <3>1, ShapeAt DEF Shape
    <3>3. Low(s, p, Owners) = Low(u, p, Owners)
      BY <3>1, ShapeLow
    <3> QED
      BY <3>1, <3>2, <3>3 DEF Broken, Rooted
  <2> QED
    BY <2>1 DEF Rooted
<1>5. Answers(u)
  <2>1. ASSUME NEW i \in DOMAIN u, u[i] \in Barriers PROVE u[i].own
    BY <1>1, <2>1 DEF SameShape, Shape, Broken, Answers
  <2>2. ASSUME NEW i \in 2 .. Len(u) PROVE u[i].at # "call"
    <3>1. i \in DOMAIN s /\ i \in 2 .. Len(s)
      BY <1>1
    <3> QED
      BY <3>1 DEF SameShape, Shape, Broken, Answers
  <2> QED
    BY <2>1, <2>2 DEF Answers
<1> QED
  BY <1>3, <1>4, <1>5 DEF Broken

LEMMA SameMarks ==
  ASSUME NEW s, NEW u, SameShape(s, u), \A i \in DOMAIN s : u[i].left = s[i].left,
         NEW r \in Seq(Breaks), Len(r) = Num(s, Owners), Broken(s, r)
  PROVE  Broken(u, r) /\ (NoneLeft(s, Len(s)) <=> NoneLeft(u, Len(u)))
<1>1. s \in Seq(Frame) /\ u \in Seq(Frame) /\ Len(s) = Len(u) /\ Len(s) \in Nat
      /\ Len(s) \in 0 .. Len(s)
  BY DEF SameShape
<1>2. ASSUME NEW k \in 1 .. Len(s) PROVE FromBelow(u, k).left = FromBelow(s, k).left
  BY <1>1, Position DEF FromBelow
<1>3. \A b : (Chain(s, Len(s), b) <=> Chain(u, Len(s), b))
             /\ (NoneLeft(s, Len(s)) <=> NoneLeft(u, Len(s)))
  BY <1>1, <1>2, ShapeChain
<1>4. Current(u, r)
  BY <1>1, <1>3 DEF Broken, Current
<1>5. Broken(u, r)
  BY <1>2, <1>4, Remarked
<1> QED
  BY <1>1, <1>3, <1>5

LEMMA TopShape ==
  ASSUME NEW s \in Seq(Frame), s # <<>>, NEW g \in Frame, Shape(s[1], g), g.left = s[1].left
  PROVE  /\ SameShape(s, <<g>> \o Tail(s))
         /\ \A i \in DOMAIN s : (<<g>> \o Tail(s))[i].left = s[i].left
         /\ (<<g>> \o Tail(s))[1] = g /\ <<g>> \o Tail(s) # <<>>
<1>1. PICK v, u : v = Tail(s) /\ u = <<g>> \o v
  OBVIOUS
<1>2. /\ v \in Seq(Frame) /\ Len(v) = Len(s) - 1 /\ Len(s) >= 1 /\ Len(s) \in Nat
      /\ \A i \in DOMAIN v : v[i] = s[i + 1]
  BY <1>1, PopAt
<1>3. /\ u \in Seq(Frame) /\ Len(u) = Len(s) /\ u[1] = g
      /\ \A i \in 2 .. Len(s) : i - 1 \in DOMAIN v /\ u[i] = v[i - 1]
  BY <1>1, <1>2, PushAt
<1>4. ASSUME NEW i \in DOMAIN s, i # 1 PROVE u[i] = s[i]
  <2>1. i \in 2 .. Len(s)
    BY <1>2, <1>4
  <2>2. i - 1 \in DOMAIN v /\ u[i] = v[i - 1]
    BY <1>3, <2>1
  <2>3. v[i - 1] = s[(i - 1) + 1] /\ (i - 1) + 1 = i
    BY <1>2, <2>1, <2>2
  <2> QED
    BY <2>2, <2>3
<1>5. \A i \in DOMAIN s : Shape(s[i], s[i])
  BY DEF Shape
<1>6. \A i \in DOMAIN s : Shape(s[i], u[i]) /\ u[i].left = s[i].left
  BY <1>3, <1>4, <1>5
<1>7. u # <<>>
  BY <1>2, <1>3
<1> QED
  BY <1>1, <1>3, <1>6, <1>7 DEF SameShape
---------------------------------------------------------------------------
(* The steps. Only a command on top can be about to begin. *)
Calm(s) == s # <<>> => s[1].at # "call"

LEMMA BreakStart ==
  ASSUME IInv, BInv
  PROVE  /\ stack \in Seq(Frame) /\ rcs \in Seq(Breaks) /\ Len(rcs) = Num(stack, Owners)
         /\ Broken(stack, rcs)
BY Start DEF CommandsCounted, BInv

LEMMA TopAt ==
  ASSUME NEW s \in Seq(Frame), s # <<>>
  PROVE  FromBelow(s, Len(s)) = s[1] /\ Len(s) \in 1 .. Len(s) /\ Len(s) \in 0 .. Len(s)
         /\ s[1] \in Frame /\ 1 \in DOMAIN s
BY DEF FromBelow

(* where no pointer grab is on top there is a conditional return code *)
LEMMA InUse ==
  ASSUME NEW s \in Seq(Frame), s # <<>>, s[1] \notin Presses, NEW r \in Seq(Breaks),
         Len(r) = Num(s, Owners), Broken(s, r)
  PROVE  r # <<>> /\ Last(r) = r[Len(r)] /\ r[Len(r)] \in Breaks
         /\ Chain(s, Len(s), r[Len(r)])
<1>1. Low(s, Len(s), Owners) > 0
  BY TopAt DEF Broken, Rooted
<1>2. r # <<>>
  BY <1>1 DEF Num
<1> QED
  BY <1>2 DEF Broken, Current, Last

LEMMA StaysBroken ==
  ASSUME BInv, UNCHANGED <<stack, rcs>>
  PROVE  BInv'
BY DEF BInv, Top

LEMMA CalmBroken ==
  ASSUME Broken(stack', rcs'), Calm(stack')
  PROVE  BInv'
BY DEF BInv, Top, Calm

LEMMA ExecuteBroken ==
  ASSUME NEW s \in Seq(Frame), rcs \in Seq(Breaks), Len(rcs) = Num(s, Owners), Broken(s, rcs),
         Calm(s), NEW fw \in Windows \cup {Nil}, NEW passes \in BOOLEAN, NEW keeps \in BOOLEAN,
         passes => s # <<>> /\ s[1] \notin Presses /\ NoneLeft(s, Len(s)),
         Execute(fw, passes, keeps, s)
  PROVE  BInv'
<1>1. CASE func_depth = MAX_FUNCTION_DEPTH
  <2>1. stack' = s /\ rcs' = rcs
    BY <1>1 DEF Execute
  <2> QED
    BY <2>1, CalmBroken
<1>2. CASE func_depth # MAX_FUNCTION_DEPTH
  <2>1. PICK own \in BOOLEAN : own = (~passes \/ keeps)
    OBVIOUS
  <2>2. PICK f : f = [At("call", fw) EXCEPT !.own = own, !.passes = passes]
    OBVIOUS
  <2>3. stack' = <<f>> \o s /\ rcs' = IF own THEN Append(rcs, 0) ELSE rcs
    BY <1>2, <2>1, <2>2 DEF Execute
  <2>4. f \in Frame /\ f.at = "call" /\ f.own = own /\ f.passes = passes
    <3>1. PICK a : a = At("call", fw)
      OBVIOUS
    <3>2. a \in Frame /\ a.at = "call"
      BY <3>1 DEF At, Frame
    <3>3. f = [a EXCEPT !.own = own, !.passes = passes]
      BY <2>2, <3>1
    <3> QED
      BY <3>2, <3>3 DEF Frame
  <2>5. f \in Commands /\ f \notin Activations
    BY <2>4 DEF Commands, Activations
  <2>6. s # <<>> => s[1].at # "call"
    BY DEF Calm
  <2>7. Broken(stack', rcs') /\ NoneLeft(stack', Len(stack'))
    <3>1. CASE own
      <4>1. f \in Owners
        BY <2>4, <2>5, <3>1 DEF Owners
      <4>2. f \in Barriers \/ NoneLeft(s, Len(s))
        BY <2>4, <2>5 DEF Barriers
      <4>3. Broken(<<f>> \o s, Append(rcs, 0)) /\ NoneLeft(<<f>> \o s, Len(<<f>> \o s))
        BY <2>6, <4>1, <4>2, BrokenPushOwner
      <4> QED
        BY <2>3, <3>1, <4>3
    <3>2. CASE ~own
      <4>1. passes /\ f \notin Barriers
        BY <2>1, <2>4, <3>2 DEF Barriers
      <4>2. Broken(<<f>> \o s, rcs) /\ NoneLeft(<<f>> \o s, Len(<<f>> \o s))
        BY <2>4, <2>5, <2>6, <4>1, BrokenPushSame
      <4> QED
        BY <2>3, <3>2, <4>2
    <3> QED
      BY <3>1, <3>2
  <2> QED
    BY <2>7 DEF BInv
<1> QED
  BY <1>1, <1>2

LEMMA ReturnBroken ==
  ASSUME stack \in Seq(Frame), stack # <<>>, NEW r \in Seq(Breaks), Len(r) = Num(stack, Owners),
         Broken(stack, r), Top \in Commands, Return(r)
  PROVE  BInv'
<1>1. stack' = Tail(stack) /\ rcs' = Returned(stack[1], r) /\ stack[1] \in Commands
  BY DEF Return, Returned, Top
<1>2. Broken(stack', rcs') /\ Calm(stack')
  BY <1>1, BrokenReturn DEF Calm
<1> QED
  BY <1>2, CalmBroken

(* commands that call nothing *)
LEMMA FinishBroken ==
  ASSUME IInv, BInv, Runs({"call"}) \/ Runs({"back"}), Return(rcs)
  PROVE  BInv'
<1>1. stack # <<>> /\ Top \in Commands
  BY TopFacts DEF Runs
<1> QED
  BY <1>1, BreakStart, ReturnBroken

LEMMA RefusedBroken ==
  ASSUME IInv, BInv, Runs({"call"}), Return(CleanedUp(rcs))
  PROVE  BInv'
<1>1. stack # <<>> /\ Top \in Commands /\ Top = stack[1] /\ Top.at = "call"
  BY TopFacts DEF Runs
<1>2. PICK q : q = CleanedUp(rcs)
  OBVIOUS
<1>3. q \in Seq(Breaks) /\ Len(q) = Len(rcs)
  BY <1>2, BreakStart, CleanedUpIs
<1>4. Broken(stack, q)
  <2>1. SameShape(stack, stack)
    BY BreakStart DEF SameShape, Shape
  <2>2. \A j \in 1 .. Len(rcs) - 1 : q[j] = rcs[j]
    BY <1>2, BreakStart, CleanedUpIs
  <2>3. PICK b : b = rcs[Len(rcs)]
    OBVIOUS
  <2>4. b \in Breaks /\ Chain(stack, Len(stack), b) /\ rcs # <<>>
    BY <1>1, <2>3, BreakStart, InUse, Sorts
  <2>5. q[Len(q)] = Reduced(b)
    BY <1>2, <1>3, <2>3, <2>4, BreakStart, CleanedUpIs
  <2>6. NoneLeft(stack, Len(stack))
    BY <1>1 DEF BInv
  <2>7. Chain(stack, Len(stack), Reduced(b))
    <3>1. ASSUME NEW k \in 1 .. Len(stack), Linked(stack, k, Len(stack)),
                 Leaves(Reduced(b), Above(stack, k, Len(stack)))
          PROVE  FromBelow(stack, k).left # "no"
      <4>1. PICK c : c = Above(stack, k, Len(stack))
        OBVIOUS
      <4>2. c \in Nat
        BY <1>1, <4>1, BreakStart, TopAt, AboveType
      <4>3. Leaves(b, c)
        BY <2>4, <3>1, <4>1, <4>2, BreakRange
      <4> QED
        BY <2>4, <3>1, <4>1, <4>3 DEF Chain
    <3> QED
      BY <2>6, <3>1 DEF Chain, NoneLeft
  <2>8. Current(stack, q)
    BY <2>5, <2>7 DEF Current
  <2> QED
    BY <2>1, <2>2, <2>8, BreakStart, Remarked
<1> QED
  BY <1>1, <1>2, <1>3, <1>4, BreakStart, ReturnBroken

LEMMA PopBroken ==
  ASSUME IInv, BInv, Runs({"press", "all", "read", "pipe", "wait"}), stack' = Tail(stack), rcs' = rcs
  PROVE  BInv'
<1>1. stack # <<>> /\ Top = stack[1] /\ Top \in Frame
      /\ Top.at \in {"press", "all", "read", "pipe", "wait"}
  BY TopFacts DEF Runs
<1>2. Top \notin Barriers /\ Top \notin Activations
  BY <1>1 DEF Barriers, Commands, Activations
<1>3. Broken(stack', rcs') /\ Calm(stack')
  BY <1>1, <1>2, BreakStart, BrokenPopSame DEF Calm
<1> QED
  BY <1>3, CalmBroken

LEMMA FunctionEndBroken ==
  ASSUME IInv, BInv, FunctionEnd
  PROVE  BInv'
<1>1. stack # <<>> /\ Top = stack[1] /\ Top \in Frame /\ Top.at = "func"
      /\ stack' = Tail(stack) /\ rcs' = CleanedUp(rcs)
  BY TopFacts DEF Runs, FunctionEnd
<1>2. Top \in Activations
  BY <1>1 DEF Activations
<1>3. Broken(stack', rcs') /\ Calm(stack')
  BY <1>1, <1>2, BreakStart, BrokenPopFunction DEF Calm
<1> QED
  BY <1>3, CalmBroken

(* the functions that have the conditional return code in use in common *)
LEMMA NestedLinked ==
  ASSUME stack \in Seq(Frame), NEW i \in DOMAIN stack
  PROVE  i \in Nested <=> Linked(stack, Len(stack) + 1 - i, Len(stack))
<1>1. PICK k : k = Len(stack) + 1 - i
  OBVIOUS
<1>2. k \in 1 .. Len(stack) /\ Len(stack) + 1 - k = i /\ FromBelow(stack, k) = stack[i]
  BY <1>1 DEF FromBelow
<1>3. stack[i] \in Activations <=> stack[i].at = "func"
  BY DEF Activations
<1>4. ASSUME i \in Nested, NEW p \in k + 1 .. Len(stack) PROVE FromBelow(stack, p) \notin Barriers
  <2>1. PICK j : j = Len(stack) + 1 - p
    OBVIOUS
  <2>2. j \in 1 .. i /\ FromBelow(stack, p) = stack[j]
    BY <1>2, <2>1 DEF FromBelow
  <2> QED
    BY <1>4, <2>2 DEF Nested, Barriers, Commands
<1>5. ASSUME Linked(stack, k, Len(stack)), NEW j \in 1 .. i, stack[j].at \in {"call", "back"}
      PROVE  stack[j].passes
  <2>1. stack[i].at = "func"
    BY <1>2, <1>3, <1>5 DEF Linked
  <2>2. j # i
    BY <1>5, <2>1
  <2>3. PICK p : p = Len(stack) + 1 - j
    OBVIOUS
  <2>4. p \in k + 1 .. Len(stack) /\ FromBelow(stack, p) = stack[j] /\ stack[j] \in Frame
    BY <1>1, <2>2, <2>3 DEF FromBelow
  <2>5. stack[j] \notin Barriers
    BY <1>5, <2>4 DEF Linked
  <2> QED
    BY <1>5, <2>4, <2>5 DEF Barriers, Commands
<1> QED
  BY <1>1, <1>2, <1>3, <1>4, <1>5 DEF Nested, Frames, Linked
---------------------------------------------------------------------------
(* Commands that execute others *)
LEMMA CallerBroken ==
  ASSUME IInv, BInv, Command
  PROVE  LET s == <<Caller>> \o Tail(stack)
         IN /\ s \in Seq(Frame) /\ s # <<>> /\ Len(rcs) = Num(s, Owners) /\ Broken(s, rcs)
            /\ NoneLeft(s, Len(s)) /\ Calm(s) /\ s[1].at = "back" /\ s[1] \notin Presses
            /\ \A f : Calls(f) = <<f>> \o s
<1>1. PICK s : s = <<Caller>> \o Tail(stack)
  OBVIOUS
<1>2. stack # <<>> /\ Top \in Commands /\ Top.at = "call" /\ Top = stack[1] /\ Top \in Frame
  BY CallerFacts, TopFacts
<1>3. /\ Caller \in Frame /\ Caller.at = "back" /\ Caller.own = Top.own
      /\ Caller.passes = Top.passes /\ Caller.left = Top.left
  BY <1>2 DEF Caller, Frame
<1>4. Shape(stack[1], Caller)
  BY <1>2, <1>3 DEF Shape, Activations, Barriers, Commands, Owners, Presses
<1>5. /\ SameShape(stack, s) /\ \A i \in DOMAIN stack : s[i].left = stack[i].left
      /\ s[1] = Caller /\ s # <<>>
  BY <1>1, <1>2, <1>3, <1>4, BreakStart, TopShape
<1>6. Broken(s, rcs) /\ (NoneLeft(stack, Len(stack)) <=> NoneLeft(s, Len(s)))
  BY <1>5, BreakStart, SameMarks
<1>7. NoneLeft(s, Len(s))
  BY <1>2, <1>6 DEF BInv
<1>8. s \in Seq(Frame) /\ Len(rcs) = Num(s, Owners) /\ \A f : Calls(f) = <<f>> \o s
  BY <1>1, CallsKeep DEF CommandsCounted
<1>9. Calm(s) /\ s[1].at = "back" /\ s[1] \notin Presses
  BY <1>3, <1>5 DEF Calm, Presses
<1> QED
  BY <1>1, <1>5, <1>6, <1>7, <1>8, <1>9

LEMMA CallBroken ==
  ASSUME IInv, BInv, Command, NEW f \in Frame, f.at \in {"all", "read", "pipe", "wait"},
         stack' = Calls(f), rcs' = rcs
  PROVE  BInv'
<1>1. PICK s : s = <<Caller>> \o Tail(stack)
  OBVIOUS
<1>2. /\ s \in Seq(Frame) /\ s # <<>> /\ Len(rcs) = Num(s, Owners) /\ Broken(s, rcs)
      /\ Calm(s) /\ s[1] \notin Presses /\ stack' = <<f>> \o s
  BY <1>1, CallerBroken
<1>3. f \notin Barriers /\ f \notin Activations
  BY DEF Barriers, Commands, Activations
<1>4. Broken(stack', rcs')
  <2>1. s # <<>> => s[1].at # "call"
    BY <1>2 DEF Calm
  <2>2. Broken(<<f>> \o s, rcs)
    BY <1>2, <1>3, <2>1, BreakStart, BrokenPushSame
  <2> QED
    BY <1>2, <2>2
<1>5. Calm(stack')
  <2>1. (<<f>> \o s)[1] = f
    BY <1>2, PushAt
  <2> QED
    BY <1>2, <2>1 DEF Calm
<1> QED
  BY <1>4, <1>5, CalmBroken

LEMMA CallFunctionBroken ==
  ASSUME IInv, BInv, NEW f, NEW fw \in Windows \cup {Nil}, CallFunction(f, fw), f \in Funcs
  PROVE  BInv'
<1>1. PICK s, a : s = <<Caller>> \o Tail(stack) /\ a = At("func", fw)
  OBVIOUS
<1>2. PICK x : x = IF break_levels = 0 THEN "no" ELSE "unsure"
  OBVIOUS
<1>3. PICK g : g = [a EXCEPT !.fn = f, !.phase = "i", !.n = 1, !.left = x]
  OBVIOUS
<1>4. Command /\ stack' = Calls(g) /\ rcs' = rcs
  BY <1>1, <1>2, <1>3 DEF CallFunction
<1>5. g \in Frame /\ g.at = "func" /\ g.left = x
  <2>1. a \in Frame /\ a.at = "func"
    BY <1>1 DEF At, Frame
  <2> QED
    BY <1>2, <1>3, <2>1, ExecutionAssumption DEF Frame
<1>6. /\ s \in Seq(Frame) /\ s # <<>> /\ Len(rcs) = Num(s, Owners) /\ Broken(s, rcs)
      /\ NoneLeft(s, Len(s)) /\ s[1].at = "back" /\ s[1] \notin Presses /\ stack' = <<g>> \o s
  BY <1>1, <1>4, CallerBroken
<1>7. g \in Activations /\ g.left # "yes" /\ (g.left = "no" => Last(rcs) = 0)
  BY <1>2, <1>5 DEF Activations, break_levels
<1>8. Broken(<<g>> \o s, rcs)
  BY <1>6, <1>7, BreakStart, BrokenPushFunction
<1>9. (<<g>> \o s)[1] = g
  BY <1>5, <1>6, PushAt
<1> QED
  BY <1>4, <1>5, <1>6, <1>8, <1>9, CalmBroken DEF Calm

LEMMA CmdConditionalBroken ==
  ASSUME IInv, BInv, NEW fw \in Windows \cup {Nil}, NEW keeps \in BOOLEAN, CmdConditional(fw, keeps)
  PROVE  BInv'
<1>1. PICK s : s = <<Caller>> \o Tail(stack)
  OBVIOUS
<1>2. Command /\ Execute(fw, TRUE, keeps, s)
  BY <1>1 DEF CmdConditional
<1>3. /\ s \in Seq(Frame) /\ s # <<>> /\ Len(rcs) = Num(s, Owners) /\ Broken(s, rcs)
      /\ NoneLeft(s, Len(s)) /\ Calm(s) /\ s[1] \notin Presses
  BY <1>1, <1>2, CallerBroken
<1> QED
  BY <1>2, <1>3, BreakStart, ExecuteBroken

(* the frame on top goes on, and is not a command *)
LEMMA TopGoesOn ==
  ASSUME NEW s \in Seq(Frame), s # <<>>, NEW r \in Seq(Breaks), Len(r) = Num(s, Owners), Broken(s, r),
         NEW g \in Frame, g.at = s[1].at, g.own = s[1].own, g.left = s[1].left,
         g.at \notin {"call", "back"}
  PROVE  LET u == <<g>> \o Tail(s)
         IN /\ u \in Seq(Frame) /\ u # <<>> /\ u[1] = g /\ Len(r) = Num(u, Owners) /\ Broken(u, r)
            /\ (NoneLeft(s, Len(s)) <=> NoneLeft(u, Len(u))) /\ Calm(u)
<1>1. PICK u : u = <<g>> \o Tail(s)
  OBVIOUS
<1>2. Shape(s[1], g)
  <2>1. s[1] \in Frame
    BY TopAt
  <2> QED
    BY <2>1 DEF Shape, Activations, Barriers, Commands, Owners, Presses
<1>3. /\ SameShape(s, u) /\ \A i \in DOMAIN s : u[i].left = s[i].left
      /\ u[1] = g /\ u # <<>>
  BY <1>1, <1>2, TopShape
<1>4. Broken(u, r) /\ (NoneLeft(s, Len(s)) <=> NoneLeft(u, Len(u)))
  BY <1>3, SameMarks
<1>5. u \in Seq(Frame) /\ Len(u) = Len(s) /\ Len(s) \in 0 .. Len(s)
  BY <1>3 DEF SameShape
<1>6. Len(r) = Num(u, Owners)
  BY <1>3, <1>5, ShapeLow DEF Num
<1>7. Calm(u)
  BY <1>3 DEF Calm
<1> QED
  BY <1>1, <1>3, <1>4, <1>5, <1>6, <1>7

LEMMA NextPhaseBroken ==
  ASSUME IInv, BInv, NEW type \in Conds, NEW fw \in Windows \cup {Nil}, NextPhase(type, fw)
  PROVE  BInv'
<1>1. PICK g, s : g = [Top EXCEPT !.phase = type, !.n = 1, !.fw = fw] /\ s = <<g>> \o Tail(stack)
  OBVIOUS
<1>2. Runs({"func"}) /\ stack' = s /\ rcs' = rcs
  BY <1>1 DEF NextPhase
<1>3. Top \in Frame /\ Top = stack[1] /\ stack # <<>> /\ Top.at = "func"
  BY <1>2, TopFacts DEF Runs
<1>4. g \in Frame /\ g.at = Top.at /\ g.own = Top.own /\ g.left = Top.left
  BY <1>1, <1>3 DEF Frame
<1>5. Broken(s, rcs) /\ Calm(s)
  BY <1>1, <1>3, <1>4, BreakStart, TopGoesOn
<1> QED
  BY <1>2, <1>5, CalmBroken

LEMMA RunItemBroken ==
  ASSUME IInv, BInv, NEW keeps \in BOOLEAN, RunItem(keeps)
  PROVE  BInv'
<1>1. PICK g, s : g = [Top EXCEPT !.n = Min(Remaining) + 1] /\ s = <<g>> \o Tail(stack)
  OBVIOUS
<1>2. Runs({"func"}) /\ Remaining # {} /\ break_levels = 0 /\ Execute(Top.fw, TRUE, keeps, s)
  BY <1>1 DEF RunItem
<1>3. Top \in Frame /\ Top = stack[1] /\ stack # <<>> /\ Top.at = "func"
  BY <1>2, TopFacts DEF Runs
<1>4. Min(Remaining) \in Nat
  <2>1. Items \in Seq(Conds) /\ Top.n \in Nat
    BY <1>2, <1>3, FunctionWindow DEF Items, Frame
  <2>2. Remaining \subseteq Nat
    BY <2>1 DEF Remaining
  <2> QED
    BY <1>2, <2>2, LeastOf
<1>5. g \in Frame /\ g.at = Top.at /\ g.own = Top.own /\ g.left = Top.left
  <2>1. PICK n \in Nat : n = Min(Remaining) + 1
    BY <1>4
  <2>2. g = [Top EXCEPT !.n = n]
    BY <1>1, <2>1
  <2> QED
    BY <1>3, <2>2 DEF Frame
<1>6. NoneLeft(stack, Len(stack))
  <2>1. Top \notin Presses
    BY <1>3 DEF Presses
  <2>2. Chain(stack, Len(stack), 0)
    BY <1>2, <1>3, <2>1, BreakStart, InUse DEF break_levels
  <2> QED
    BY <1>3, <2>2, BreakStart, TopAt, NoBreak
<1>7. /\ s \in Seq(Frame) /\ s # <<>> /\ s[1] = g /\ Len(rcs) = Num(s, Owners) /\ Broken(s, rcs)
      /\ NoneLeft(s, Len(s)) /\ Calm(s)
  BY <1>1, <1>3, <1>5, <1>6, BreakStart, TopGoesOn
<1>8. s[1] \notin Presses /\ Top.fw \in Windows \cup {Nil}
  BY <1>3, <1>5, <1>7 DEF Presses, Frame
<1> QED
  BY <1>2, <1>7, <1>8, BreakStart, ExecuteBroken

LEMMA InputCommandBroken ==
  ASSUME IInv, BInv, NEW fw \in Windows \cup {Nil}, InputCommand(fw)
  PROVE  BInv'
<1>1. Execute(fw, FALSE, FALSE, stack) /\ InLoop
  BY DEF InputCommand
<1>2. Calm(stack)
  BY <1>1 DEF InLoop, Calm, Top
<1> QED
  BY <1>1, <1>2, BreakStart, ExecuteBroken

LEMMA HandleButtonPressBroken ==
  ASSUME IInv, BInv, NEW fw \in Windows \cup {Nil}, HandleButtonPress(fw)
  PROVE  BInv'
<1>1. PICK f, s : f = At("press", Nil) /\ s = <<f>> \o stack
  OBVIOUS
<1>2. Execute(fw, FALSE, FALSE, s) /\ InLoop
  BY <1>1 DEF HandleButtonPress
<1>3. f \in Frame /\ f.at = "press"
  BY <1>1 DEF At, Frame
<1>4. f \in Presses /\ f \notin Barriers /\ f \notin Activations /\ f \notin Owners
  BY <1>3 DEF Presses, Barriers, Activations, Owners, Commands
<1>5. stack # <<>> => stack[1].at # "call"
  BY <1>2 DEF InLoop, Top
<1>6. Broken(s, rcs)
  BY <1>1, <1>3, <1>4, <1>5, BreakStart, BrokenPushSame
<1>7. s \in Seq(Frame) /\ Len(rcs) = Num(s, Owners) /\ s[1] = f
  BY <1>1, <1>3, <1>4, BreakStart, PushAt, NumCons
<1>8. Calm(s)
  BY <1>3, <1>7 DEF Calm
<1> QED
  BY <1>2, <1>6, <1>7, <1>8, BreakStart, ExecuteBroken

LEMMA CmdAllBroken ==
  ASSUME IInv, BInv, NEW S \in SUBSET Windows, CmdAll(S)
  PROVE  BInv'
<1>1. Command /\ rcs' = rcs
  BY DEF CmdAll
<1>2. PICK wins \in SetToSeqs(S) : stack' = Calls([At("all", Nil) EXCEPT !.wins = wins])
  BY DEF CmdAll
<1>3. wins \in Seq(Windows)
  <2>1. wins \in [1 .. Cardinality(S) -> S]
    BY <1>2 DEF SetToSeqs
  <2>2. Cardinality(S) \in Nat
    BY ExecutionAssumption, FS_Subset, FS_CardinalityType
  <2> QED
    BY <2>1, <2>2
<1>4. PICK f : f = [At("all", Nil) EXCEPT !.wins = wins]
  OBVIOUS
<1>5. f \in Frame /\ f.at = "all"
  <2>1. PICK a : a = At("all", Nil)
    OBVIOUS
  <2>2. a \in Frame /\ a.at = "all"
    BY <2>1 DEF At, Frame
  <2> QED
    BY <1>3, <1>4, <2>1, <2>2 DEF Frame
<1> QED
  BY <1>1, <1>2, <1>4, <1>5, CallBroken

(* the window of a command is one *)
LEMMA CommandWindow ==
  ASSUME IInv, Command
  PROVE  Top.fw \in Windows \cup {Nil}
BY CallerFacts, TopFacts DEF Frame

LEMMA StreamFrame ==
  ASSUME NEW point \in {"read", "pipe"}, NEW fw \in Windows \cup {Nil}
  PROVE  [At(point, fw) EXCEPT !.n = MaxLines] \in Frame
         /\ [At(point, fw) EXCEPT !.n = MaxLines].at = point
<1>1. PICK a, f : a = At(point, fw) /\ f = [a EXCEPT !.n = MaxLines]
  OBVIOUS
<1>2. a \in Frame /\ a.at = point
  BY <1>1 DEF At, Frame
<1>3. f \in Frame /\ f.at = point
  BY <1>1, <1>2, ExecutionAssumption DEF Frame
<1> QED
  BY <1>1, <1>3

LEMMA CmdReadBroken ==
  ASSUME IInv, BInv, CmdRead
  PROVE  BInv'
<1>1. PICK f : f = [At("read", Top.fw) EXCEPT !.n = MaxLines]
  OBVIOUS
<1>2. Command /\ stack' = Calls(f) /\ rcs' = rcs
  BY <1>1 DEF CmdRead
<1>3. f \in Frame /\ f.at = "read"
  BY <1>1, <1>2, CommandWindow, StreamFrame
<1> QED
  BY <1>2, <1>3, CallBroken

LEMMA CmdPipeReadBroken ==
  ASSUME IInv, BInv, CmdPipeRead
  PROVE  BInv'
<1>1. PICK f : f = [At("pipe", Top.fw) EXCEPT !.n = MaxLines]
  OBVIOUS
<1>2. Command /\ stack' = Calls(f) /\ rcs' = rcs
  BY <1>1 DEF CmdPipeRead
<1>3. f \in Frame /\ f.at = "pipe"
  BY <1>1, <1>2, CommandWindow, StreamFrame
<1> QED
  BY <1>2, <1>3, CallBroken

LEMMA CmdWaitBroken ==
  ASSUME IInv, BInv, CmdWait
  PROVE  BInv'
<1>1. PICK b : b = IsGrabbed(pointer, "normal")
  OBVIOUS
<1>2. PICK a, f : a = At("wait", Nil) /\ f = [a EXCEPT !.regrab = b]
  OBVIOUS
<1>3. Command /\ stack' = Calls(f) /\ rcs' = rcs
  BY <1>1, <1>2 DEF CmdWait
<1>4. b \in BOOLEAN
  BY <1>1 DEF IsGrabbed
<1>5. f \in Frame /\ f.at = "wait"
  <2>1. a \in Frame /\ a.at = "wait"
    BY <1>2 DEF At, Frame
  <2> QED
    BY <1>2, <1>4, <2>1 DEF Frame
<1> QED
  BY <1>3, <1>5, CallBroken

(* All and PipeRead go on with another command *)
LEMMA UnsureBroken ==
  ASSUME IInv, BInv, Runs({"all", "pipe"})
  PROVE  /\ Unsure \in Seq(Frame) /\ Unsure # <<>> /\ Len(rcs) = Num(Unsure, Owners)
         /\ Broken(Unsure, rcs) /\ NoneLeft(Unsure, Len(Unsure))
         /\ Unsure[1] \in Frame /\ Unsure[1].at = Top.at /\ Unsure[1].own = Top.own
         /\ Unsure[1].left = Top.left
<1>1. PICK u : u = Unsure
  OBVIOUS
<1>2. stack # <<>> /\ Top = stack[1] /\ Top \in Frame /\ Top.at \in {"all", "pipe"}
  BY TopFacts DEF Runs
<1>3. u \in Seq(Frame) /\ u # <<>> /\ Len(u) = Len(stack) /\ DOMAIN u = DOMAIN stack
  BY <1>1, <1>2, UnsureLike DEF Like
<1>4. ASSUME NEW i \in DOMAIN stack
      PROVE  /\ u[i].at = stack[i].at /\ u[i].own = stack[i].own /\ u[i].passes = stack[i].passes
             /\ stack[i] \in Frame /\ u[i] \in Frame
             /\ i \notin Nested => u[i].left = stack[i].left
             /\ break_levels = 0 => u[i].left = stack[i].left
             /\ u[i].left = stack[i].left \/ u[i].left = "unsure"
             /\ i \in Nested /\ break_levels # 0 => u[i].left # "yes"
  <2>1. stack[i] \in Frame
    BY BreakStart
  <2>2. u[i] = IF break_levels # 0 /\ i \in Nested /\ stack[i].left = "yes"
               THEN [stack[i] EXCEPT !.left = "unsure"] ELSE stack[i]
    BY <1>1 DEF Unsure
  <2>3. PICK f, g : f = stack[i] /\ g = u[i]
    OBVIOUS
  <2>4. f \in Frame
    BY <2>1, <2>3
  <2>5. CASE break_levels # 0 /\ i \in Nested /\ stack[i].left = "yes"
    <3>1. g = [f EXCEPT !.left = "unsure"]
      BY <2>2, <2>3, <2>5
    <3>2. /\ g.at = f.at /\ g.own = f.own /\ g.passes = f.passes /\ g \in Frame
          /\ g.left = "unsure"
      BY <2>4, <3>1 DEF Frame
    <3> QED
      BY <2>1, <2>3, <2>5, <3>2
  <2>6. CASE ~(break_levels # 0 /\ i \in Nested /\ stack[i].left = "yes")
    <3>1. u[i] = stack[i]
      BY <2>2, <2>6
    <3> QED
      BY <2>1, <2>6, <3>1
  <2> QED
    BY <2>5, <2>6
<1>5. SameShape(stack, u)
  <2>1. ASSUME NEW i \in DOMAIN stack PROVE Shape(stack[i], u[i])
    BY <1>4 DEF Shape, Activations, Barriers, Commands, Owners, Presses
  <2> QED
    BY <1>3, <2>1, BreakStart DEF SameShape
<1>6. ASSUME NEW k \in 1 .. Len(stack)
      PROVE  /\ Len(stack) + 1 - k \in DOMAIN stack
             /\ FromBelow(stack, k) = stack[Len(stack) + 1 - k] /\ FromBelow(u, k) = u[Len(stack) + 1 - k]
             /\ Linked(stack, k, Len(stack)) <=> Len(stack) + 1 - k \in Nested
  <2>1. PICK i : i = Len(stack) + 1 - k
    OBVIOUS
  <2>2. i \in DOMAIN stack /\ Len(stack) + 1 - i = k
    BY <2>1, BreakStart
  <2>3. i \in Nested <=> Linked(stack, k, Len(stack))
    BY <2>2, BreakStart, NestedLinked
  <2> QED
    BY <1>3, <2>1, <2>2, <2>3 DEF FromBelow
<1>7. ASSUME NEW k \in 1 .. Len(stack)
      PROVE  Linked(stack, k, Len(stack)) \/ FromBelow(u, k).left = FromBelow(stack, k).left
  BY <1>4, <1>6
<1>8. Len(stack) \in 0 .. Len(stack)
  BY <1>2, BreakStart, TopAt
<1>9. PICK b : b = rcs[Len(rcs)]
  OBVIOUS
<1>10. rcs # <<>> /\ b = break_levels /\ b \in Breaks /\ Chain(stack, Len(stack), b)
  <2>1. Top \notin Presses
    BY <1>2 DEF Presses
  <2> QED
    BY <1>2, <1>9, <2>1, BreakStart, InUse DEF break_levels
<1>11. NoneLeft(u, Len(u)) /\ Chain(u, Len(u), b)
  <2>1. CASE b = 0
    <3>1. ASSUME NEW k \in 1 .. Len(stack) PROVE FromBelow(u, k).left = FromBelow(stack, k).left
      BY <1>4, <1>6, <1>10, <2>1
    <3>2. NoneLeft(stack, Len(stack))
      BY <1>8, <1>10, <2>1, BreakStart, NoBreak
    <3>3. \A c : (Chain(stack, Len(stack), c) <=> Chain(u, Len(stack), c))
                 /\ (NoneLeft(stack, Len(stack)) <=> NoneLeft(u, Len(stack)))
      BY <1>5, <1>8, <3>1, ShapeChain
    <3> QED
      BY <1>3, <1>10, <3>2, <3>3
  <2>2. CASE b # 0
    <3>1. ASSUME NEW k \in 1 .. Len(stack), Linked(u, k, Len(stack))
          PROVE  /\ FromBelow(u, k).left # "yes"
                 /\ Leaves(b, Above(u, k, Len(stack))) => FromBelow(u, k).left # "no"
      <4>1. Linked(stack, k, Len(stack)) /\ Above(stack, k, Len(stack)) = Above(u, k, Len(stack))
        BY <1>5, <1>8, <3>1, ShapeLinked
      <4>2. FromBelow(u, k).left # "yes"
        BY <1>4, <1>6, <1>10, <2>2, <4>1
      <4>3. Leaves(b, Above(u, k, Len(stack))) => FromBelow(stack, k).left # "no"
        BY <1>10, <4>1 DEF Chain
      <4>4. FromBelow(u, k).left = FromBelow(stack, k).left \/ FromBelow(u, k).left = "unsure"
        BY <1>4, <1>6
      <4> QED
        BY <4>2, <4>3, <4>4
    <3> QED
      BY <1>3, <3>1 DEF Chain, NoneLeft
  <2> QED
    BY <2>1, <2>2
<1>12. Current(u, rcs)
  BY <1>9, <1>11 DEF Current
<1>13. Broken(u, rcs)
  BY <1>5, <1>7, <1>12, BreakStart, Remarked
<1>14. Len(rcs) = Num(u, Owners)
  BY <1>3, <1>5, <1>8, BreakStart, ShapeLow DEF Num
<1>15. u[1] \in Frame /\ u[1].at = Top.at /\ u[1].own = Top.own /\ u[1].left = Top.left
  <2>1. 1 \in DOMAIN stack
    BY <1>2, BreakStart, TopAt
  <2>2. 1 \notin Nested
    BY <1>2 DEF Nested, Frames
  <2> QED
    BY <1>2, <1>4, <2>1, <2>2
<1> QED
  BY <1>1, <1>3, <1>11, <1>13, <1>14, <1>15

LEMMA AllNextBroken ==
  ASSUME IInv, BInv, AllNext
  PROVE  BInv'
<1>1. Runs({"all"}) /\ Top.wins # <<>>
  BY DEF AllNext
<1>2. PICK w, g, s : /\ w = Head(Top.wins) /\ g = [Top EXCEPT !.wins = Tail(@)]
                     /\ s = <<g>> \o Tail(Unsure)
  OBVIOUS
<1>3. UNCHANGED <<stack, rcs>> \/ Execute(w, TRUE, FALSE, s)
  BY <1>2 DEF AllNext
<1>4. CASE UNCHANGED <<stack, rcs>>
  BY <1>4, StaysBroken
<1>5. CASE Execute(w, TRUE, FALSE, s)
  <2>1. stack # <<>> /\ Top \in Frame /\ Top.at = "all"
    BY <1>1, TopFacts DEF Runs
  <2>2. PICK ws \in Seq(Windows) : ws = Top.wins /\ ws # <<>>
    BY <1>1, <2>1 DEF Frame
  <2>3. w \in Windows /\ Tail(ws) \in Seq(Windows)
    <3>1. ws[1] \in Windows
      BY <2>2
    <3> QED
      BY <1>2, <2>2, <3>1
  <2>4. PICK v : v = Tail(ws)
    OBVIOUS
  <2>5. g = [Top EXCEPT !.wins = v] /\ v \in Seq(Windows)
    BY <1>2, <2>2, <2>3, <2>4
  <2>6. g \in Frame /\ g.at = "all" /\ g.own = Top.own /\ g.left = Top.left
    BY <2>1, <2>5 DEF Frame
  <2>7. Runs({"all", "pipe"})
    BY <1>1 DEF Runs
  <2>8. /\ s \in Seq(Frame) /\ s # <<>> /\ s[1] = g /\ Len(rcs) = Num(s, Owners) /\ Broken(s, rcs)
        /\ NoneLeft(s, Len(s)) /\ Calm(s)
    BY <1>2, <2>1, <2>6, <2>7, BreakStart, UnsureBroken, TopGoesOn
  <2>9. s[1] \notin Presses
    BY <2>6, <2>8 DEF Presses
  <2> QED
    BY <1>5, <2>3, <2>8, <2>9, BreakStart, ExecuteBroken
<1> QED
  BY <1>3, <1>4, <1>5

LEMMA StreamLineBroken ==
  ASSUME IInv, BInv, StreamLine
  PROVE  BInv'
<1>1. PICK g, t, s : /\ g = [Top EXCEPT !.n = @ - 1]
                     /\ t = (IF Top.at = "pipe" THEN Unsure ELSE stack)
                     /\ s = <<g>> \o Tail(t)
  OBVIOUS
<1>2. PICK p \in BOOLEAN : p = (Top.at = "pipe")
  OBVIOUS
<1>3. Runs({"read", "pipe"}) /\ Top.n > 0 /\ Execute(Top.fw, p, FALSE, s)
  BY <1>1, <1>2 DEF StreamLine
<1>4. stack # <<>> /\ Top \in Frame /\ Top = stack[1] /\ Top.at \in {"read", "pipe"} /\ ~undefined
  BY <1>3, TopFacts DEF Runs
<1>5. g \in Frame /\ g.at = Top.at /\ g.own = Top.own /\ g.left = Top.left
  <2>1. PICK n \in Nat : n = Top.n - 1
    BY <1>3, <1>4 DEF Frame
  <2>2. g = [Top EXCEPT !.n = n]
    BY <1>1, <2>1
  <2> QED
    BY <1>4, <2>1, <2>2 DEF Frame
<1>6. /\ t \in Seq(Frame) /\ t # <<>> /\ Len(rcs) = Num(t, Owners) /\ Broken(t, rcs)
      /\ t[1].at = Top.at /\ t[1].own = Top.own /\ t[1].left = Top.left
      /\ p => NoneLeft(t, Len(t))
  <2>1. CASE Top.at = "pipe"
    <3>1. Runs({"all", "pipe"}) /\ t = Unsure
      BY <1>1, <1>4, <2>1 DEF Runs
    <3> QED
      BY <3>1, UnsureBroken
  <2>2. CASE Top.at # "pipe"
    <3>1. t = stack /\ ~p
      BY <1>1, <1>2, <2>2
    <3> QED
      BY <1>4, <3>1, BreakStart
  <2> QED
    BY <2>1, <2>2
<1>7. /\ s \in Seq(Frame) /\ s # <<>> /\ s[1] = g /\ Len(rcs) = Num(s, Owners) /\ Broken(s, rcs)
      /\ NoneLeft(t, Len(t)) <=> NoneLeft(s, Len(s))
      /\ Calm(s)
  <2>1. g.at = t[1].at /\ g.own = t[1].own /\ g.left = t[1].left /\ g.at \notin {"call", "back"}
    BY <1>4, <1>5, <1>6
  <2> QED
    BY <1>1, <1>5, <1>6, <2>1, BreakStart, TopGoesOn
<1>8. s[1] \notin Presses /\ Top.fw \in Windows \cup {Nil}
  BY <1>4, <1>5, <1>7 DEF Presses, Frame
<1>9. p => s # <<>> /\ s[1] \notin Presses /\ NoneLeft(s, Len(s))
  BY <1>6, <1>7, <1>8
<1> QED
  BY <1>3, <1>7, <1>8, <1>9, BreakStart, ExecuteBroken

(* LeftBy counts the functions from the top, Above those in between. *)
LEMMA CountNested ==
  ASSUME stack \in Seq(Frame), NEW i \in Nested
  PROVE  Cardinality({j \in Nested : j <= i}) = Above(stack, Len(stack) + 1 - i, Len(stack)) + 1
<1>1. PICK k, m : k = Len(stack) + 1 - i /\ m = Len(stack)
  OBVIOUS
<1>2. i \in 1 .. m /\ m \in Nat /\ k \in 1 .. m /\ DOMAIN stack = 1 .. m /\ i = m + 1 - k
  BY <1>1 DEF Nested, Frames
<1>3. PICK Q : Q = {j \in 1 .. i - 1 : stack[j] \in Activations}
  OBVIOUS
<1>4. PICK P : P = {p \in k + 1 .. m : FromBelow(stack, p) \in Activations}
  OBVIOUS
<1>5. PICK L : L = {p \in 1 .. k : FromBelow(stack, p) \in Activations}
  OBVIOUS
<1>6. IsFiniteSet(Q) /\ IsFiniteSet(P) /\ IsFiniteSet(L)
  <2>1. IsFiniteSet(1 .. i - 1) /\ IsFiniteSet(k + 1 .. m) /\ IsFiniteSet(1 .. k)
    BY <1>2, FS_Interval
  <2> QED
    BY <1>3, <1>4, <1>5, <2>1, FS_Subset
<1>7. {j \in Nested : j <= i} = Q \cup {i}
  <2>1. ASSUME NEW j \in 1 .. i PROVE j \in Nested <=> stack[j] \in Activations
    <3>1. stack[j] \in Frame /\ j \in DOMAIN stack /\ 1 .. j \subseteq 1 .. i
      BY <1>2
    <3>2. \A h \in 1 .. i : stack[h].at \in {"call", "back"} => stack[h].passes
      BY DEF Nested
    <3> QED
      BY <3>1, <3>2 DEF Nested, Frames, Activations
  <2>2. \A j \in Nested : j \in 1 .. m
    BY <1>2 DEF Nested, Frames
  <2>3. ASSUME NEW j \in Nested, j <= i PROVE j \in Q \cup {i}
    <3>1. j \in 1 .. i /\ (j = i \/ j \in 1 .. i - 1)
      BY <1>2, <2>2, <2>3
    <3>2. stack[j] \in Activations
      BY <2>1, <3>1, <2>3
    <3> QED
      BY <1>3, <3>1, <3>2
  <2>4. ASSUME NEW j \in Q PROVE j \in Nested /\ j <= i
    <3>1. j \in 1 .. i /\ stack[j] \in Activations
      BY <1>2, <1>3
    <3> QED
      BY <2>1, <3>1
  <2>5. i \in Nested /\ i <= i
    BY <1>2
  <2> QED
    BY <2>3, <2>4, <2>5
<1>8. Cardinality(Q \cup {i}) = Cardinality(Q) + 1
  <2>1. i \notin Q
    BY <1>2, <1>3
  <2> QED
    BY <1>6, <2>1, FS_AddElement
<1>9. Cardinality(P) = Cardinality(Q)
  <2>1. PICK f : f = [p \in P |-> m + 1 - p]
    OBVIOUS
  <2>2. ASSUME NEW p \in P PROVE m + 1 - p \in Q
    <3>1. p \in k + 1 .. m /\ stack[m + 1 - p] \in Activations
      BY <1>1, <1>4 DEF FromBelow
    <3>2. m + 1 - p \in 1 .. i - 1
      BY <1>2, <3>1
    <3> QED
      BY <1>3, <3>1, <3>2
  <2>3. \A a, b \in P : f[a] = f[b] => a = b
    BY <1>2, <1>4, <2>1
  <2>4. ASSUME NEW j \in Q PROVE \E p \in P : f[p] = j
    <3>1. PICK p : p = m + 1 - j
      OBVIOUS
    <3>2. p \in k + 1 .. m /\ m + 1 - p = j
      BY <1>2, <1>3, <3>1
    <3>3. FromBelow(stack, p) \in Activations
      BY <1>1, <1>3, <3>2 DEF FromBelow
    <3>4. p \in P
      BY <1>4, <3>2, <3>3
    <3> QED
      BY <2>1, <3>2, <3>4
  <2>5. f \in Injection(P, Q) /\ f \in Surjection(P, Q)
    <3>1. f \in [P -> Q]
      BY <2>1, <2>2
    <3> QED
      BY <2>3, <2>4, <3>1 DEF Injection, IsInjective, Surjection
  <2> QED
    BY <1>6, <2>5, FS_Surjection
<1>10. Cardinality(L) + Cardinality(P) = Low(stack, m, Activations)
       /\ Cardinality(L) = Low(stack, k, Activations)
  <2>1. L \cap P = {}
    BY <1>2, <1>4, <1>5
  <2>2. 1 .. m = (1 .. k) \cup (k + 1 .. m)
    BY <1>2
  <2>3. L \cup P = {p \in 1 .. m : FromBelow(stack, p) \in Activations}
    BY <1>4, <1>5, <2>2
  <2>4. Cardinality(L \cup P) = Cardinality(L) + Cardinality(P) - Cardinality(L \cap P)
    BY <1>6, FS_Union
  <2>5. Cardinality(L) \in Nat /\ Cardinality(P) \in Nat /\ Cardinality(L \cap P) = 0
    BY <1>6, <2>1, FS_CardinalityType, FS_EmptySet
  <2>6. Low(stack, m, Activations) = Cardinality(L \cup P)
    BY <2>3 DEF Low, FromBelow
  <2>7. Low(stack, k, Activations) = Cardinality(L)
    BY <1>5 DEF Low, FromBelow
  <2> QED
    BY <2>4, <2>5, <2>6, <2>7
<1>11. Cardinality(L) \in Nat /\ Cardinality(P) \in Nat
  BY <1>6, FS_CardinalityType
<1>12. Cardinality({j \in Nested : j <= i}) = Cardinality(P) + 1
  BY <1>7, <1>8, <1>9
<1>13. Above(stack, k, m) = Cardinality(P)
  BY <1>10, <1>11 DEF Above
<1> QED
  BY <1>1, <1>12, <1>13

LEMMA OverwriteAt ==
  ASSUME NEW S, NEW r \in Seq(S), r # <<>>, NEW n
  PROVE  /\ Overwrite(r, Len(r), n)[Len(r)] = n
         /\ \A j \in 1 .. Len(r) - 1 : Overwrite(r, Len(r), n)[j] = r[j]
BY DEF Overwrite

LEMMA CmdBreakBroken ==
  ASSUME IInv, BInv, NEW n \in {-1} \cup 1 .. MaxBreak, CmdBreak(n)
  PROVE  BInv'
<1>1. PICK s : s = [i \in DOMAIN stack |->
                      IF i \in LeftBy(n) THEN [stack[i] EXCEPT !.left = "yes"] ELSE stack[i]]
  OBVIOUS
<1>2. /\ Runs({"call"}) /\ stack' = Tail(s)
      /\ rcs' = IF Top.own /\ Top.passes THEN [Front(rcs) EXCEPT ![Len(rcs) - 1] = n]
                ELSE IF Top.own THEN Front(rcs) ELSE [rcs EXCEPT ![Len(rcs)] = n]
  BY <1>1 DEF CmdBreak, Command
<1>3. stack # <<>> /\ Top \in Commands /\ Top.at = "call" /\ Top = stack[1] /\ 1 \in DOMAIN stack
  BY <1>2, Start, TopFacts DEF Runs
<1>4. s \in Seq(Frame) /\ Len(s) = Len(stack) /\ DOMAIN s = DOMAIN stack
  <2>1. PICK m \in Nat : stack \in [1 .. m -> Frame] /\ Len(stack) = m
    BY Start
  <2>2. ASSUME NEW f \in Frame PROVE [f EXCEPT !.left = "yes"] \in Frame
    BY DEF Frame
  <2>3. s \in [1 .. m -> Frame]
    BY <1>1, <2>1, <2>2
  <2> QED
    BY <2>1, <2>3
<1>5. ASSUME NEW i \in DOMAIN stack
      PROVE  /\ s[i].at = stack[i].at /\ s[i].own = stack[i].own /\ s[i].passes = stack[i].passes
             /\ stack[i] \in Frame /\ s[i] \in Frame
             /\ i \in LeftBy(n) => s[i].left = "yes"
             /\ i \notin LeftBy(n) => s[i].left = stack[i].left
  <2>1. PICK f, g : f = stack[i] /\ g = s[i]
    OBVIOUS
  <2>2. f \in Frame
    BY <2>1, Start
  <2>3. CASE i \in LeftBy(n)
    <3>1. g = [f EXCEPT !.left = "yes"]
      BY <1>1, <2>1, <2>3
    <3>2. /\ g.at = f.at /\ g.own = f.own /\ g.passes = f.passes /\ g \in Frame
          /\ g.left = "yes"
      BY <2>2, <3>1 DEF Frame
    <3> QED
      BY <2>1, <2>2, <2>3, <3>2
  <2>4. CASE i \notin LeftBy(n)
    <3>1. g = f
      BY <1>1, <2>1, <2>4
    <3> QED
      BY <2>1, <2>2, <2>4, <3>1
  <2> QED
    BY <2>3, <2>4
<1>6. SameShape(stack, s)
  <2>1. ASSUME NEW i \in DOMAIN stack PROVE Shape(stack[i], s[i])
    BY <1>5 DEF Shape, Activations, Barriers, Commands, Owners, Presses
  <2> QED
    BY <1>4, <2>1, BreakStart DEF SameShape
<1>7. rcs # <<>> /\ Len(rcs) \in Nat /\ DOMAIN rcs = 1 .. Len(rcs) /\ Len(rcs) >= 1
  <2>1. Top \notin Presses
    BY <1>3, Sorts
  <2>2. rcs # <<>>
    BY <1>3, <2>1, BreakStart, InUse
  <2> QED
    BY <2>2, BreakStart
<1>8. n \in Breaks
  BY ExecutionAssumption DEF Breaks
<1>9. PICK l, q : l = Len(rcs) /\ q = Overwrite(rcs, l, n)
  OBVIOUS
<1>10. /\ q \in Seq(Breaks) /\ Len(q) = Len(rcs) /\ q[Len(q)] = n
       /\ \A j \in 1 .. Len(rcs) - 1 : q[j] = rcs[j]
  <2>1. q \in Seq(Breaks) /\ Len(q) = Len(rcs)
    BY <1>8, <1>9, BreakStart, Overwritten
  <2>2. q[l] = n /\ \A j \in 1 .. Len(rcs) - 1 : q[j] = rcs[j]
    BY <1>7, <1>9, BreakStart, OverwriteAt
  <2> QED
    BY <1>9, <2>1, <2>2
<1>11. ASSUME NEW k \in 1 .. Len(stack)
       PROVE  /\ Len(stack) + 1 - k \in DOMAIN stack
              /\ FromBelow(stack, k) = stack[Len(stack) + 1 - k] /\ FromBelow(s, k) = s[Len(stack) + 1 - k]
              /\ Linked(stack, k, Len(stack)) <=> Len(stack) + 1 - k \in Nested
              /\ Len(stack) + 1 - (Len(stack) + 1 - k) = k
  <2>1. PICK i : i = Len(stack) + 1 - k
    OBVIOUS
  <2>2. i \in DOMAIN stack /\ Len(stack) + 1 - i = k
    BY <2>1, BreakStart
  <2>3. i \in Nested <=> Linked(stack, k, Len(stack))
    BY <2>2, BreakStart, NestedLinked
  <2> QED
    BY <1>4, <2>1, <2>2, <2>3 DEF FromBelow
<1>12. LeftBy(n) \subseteq Nested
  BY DEF LeftBy
<1>13. Chain(s, Len(s), n)
  <2>1. ASSUME NEW k \in 1 .. Len(stack), Linked(s, k, Len(stack))
        PROVE  /\ FromBelow(s, k).left = "yes" => Leaves(n, Above(s, k, Len(stack)))
               /\ Leaves(n, Above(s, k, Len(stack))) => FromBelow(s, k).left # "no"
    <3>1. Len(stack) \in 0 .. Len(stack)
      BY <1>3, BreakStart, TopAt
    <3>2. Linked(stack, k, Len(stack)) /\ Above(stack, k, Len(stack)) = Above(s, k, Len(stack))
      BY <1>6, <2>1, <3>1, ShapeLinked
    <3>3. PICK i, c : i = Len(stack) + 1 - k /\ c = Above(stack, k, Len(stack))
      OBVIOUS
    <3>4. i \in Nested /\ i \in DOMAIN stack /\ k = Len(stack) + 1 - i
      BY <1>11, <3>2, <3>3
    <3>5. c \in Nat
      BY <3>1, <3>3, BreakStart, AboveType
    <3>6. Cardinality({j \in Nested : j <= i}) = c + 1
      BY <3>3, <3>4, BreakStart, CountNested
    <3>7. i \in LeftBy(n) <=> Leaves(n, c)
      <4>1. CASE n = -1
        BY <3>4, <4>1 DEF LeftBy, Leaves
      <4>2. CASE n # -1
        <5>1. i \in LeftBy(n) <=> c + 1 <= n
          BY <3>4, <3>6, <4>2 DEF LeftBy
        <5>2. n \in Int
          BY ExecutionAssumption
        <5> QED
          BY <3>5, <4>2, <5>1, <5>2 DEF Leaves
      <4> QED
        BY <4>1, <4>2
    <3>8. stack[i].left # "yes"
      <4>1. NoneLeft(stack, Len(stack))
        BY <1>3 DEF BInv
      <4> QED
        BY <1>11, <3>2, <3>3, <4>1 DEF NoneLeft
    <3>9. FromBelow(s, k) = s[i]
      BY <1>11, <3>3
    <3> QED
      BY <1>5, <3>2, <3>3, <3>4, <3>7, <3>8, <3>9
  <2> QED
    BY <1>4, <2>1 DEF Chain
<1>14. Broken(s, q)
  <2>1. ASSUME NEW k \in 1 .. Len(stack)
        PROVE  Linked(stack, k, Len(stack)) \/ FromBelow(s, k).left = FromBelow(stack, k).left
    BY <1>5, <1>11, <1>12
  <2>2. Current(s, q)
    BY <1>10, <1>13 DEF Current
  <2> QED
    BY <1>6, <1>10, <2>1, <2>2, BreakStart, Remarked
<1>15. /\ s # <<>> /\ s[1] \in Commands /\ s[1].own = Top.own /\ s[1].passes = Top.passes
       /\ Len(q) = Num(s, Owners)
  <2>1. s[1] \in Commands /\ s[1].own = Top.own /\ s[1].passes = Top.passes
    BY <1>3, <1>5 DEF Commands
  <2>2. Len(stack) \in 0 .. Len(stack) /\ Len(stack) >= 1
    BY <1>3, BreakStart
  <2>3. Num(stack, Owners) = Num(s, Owners)
    BY <1>4, <1>6, <2>2, ShapeLow DEF Num
  <2> QED
    BY <1>4, <1>10, <2>1, <2>2, <2>3, BreakStart
<1>16. Broken(Tail(s), Returned(s[1], q)) /\ Calm(Tail(s))
  BY <1>4, <1>10, <1>14, <1>15, BrokenReturn DEF Calm
<1>17. rcs' = Returned(s[1], q)
  <2>1. Front(q) = Front(rcs)
    <3>1. PICK a, b : a = Front(rcs) /\ b = Front(q)
      OBVIOUS
    <3>2. /\ a \in Seq(Breaks) /\ Len(a) = Len(rcs) - 1
          /\ \A j \in 1 .. Len(rcs) - 1 : a[j] = rcs[j]
      BY <1>7, <3>1, BreakStart, FrontAt
    <3>3. /\ b \in Seq(Breaks) /\ Len(b) = Len(rcs) - 1
          /\ \A j \in 1 .. Len(rcs) - 1 : b[j] = q[j]
      <4>1. q # <<>>
        BY <1>7, <1>10
      <4> QED
        BY <1>10, <3>1, <4>1, FrontAt
    <3>4. \A j \in 1 .. Len(a) : a[j] = b[j]
      BY <1>10, <3>2, <3>3
    <3>5. a = b
      BY <3>2, <3>3, <3>4
    <3> QED
      BY <3>1, <3>5
  <2>2. Last(q) = n /\ Len(q) = Len(rcs) /\ q = [rcs EXCEPT ![Len(rcs)] = n]
    BY <1>9, <1>10 DEF Last, Overwrite
  <2>3. CASE ~Top.own
    BY <1>2, <1>15, <2>2, <2>3 DEF Returned
  <2>4. CASE Top.own /\ Top.passes
    BY <1>2, <1>15, <2>1, <2>2, <2>4 DEF Returned
  <2>5. CASE Top.own /\ ~Top.passes
    BY <1>2, <1>15, <2>1, <2>5 DEF Returned
  <2> QED
    BY <2>3, <2>4, <2>5
<1>18. Broken(stack', rcs') /\ Calm(stack')
  BY <1>2, <1>16, <1>17
<1> QED
  BY <1>18, CalmBroken
---------------------------------------------------------------------------
LEMMA BreakInit == Init => BInv
<1> SUFFICES ASSUME Init PROVE BInv
  OBVIOUS
<1>1. stack = <<>> /\ rcs = <<>> /\ Len(stack) = 0
  BY DEF Init
<1>2. Levels(stack, rcs)
  BY <1>1 DEF Levels
<1>3. Current(stack, rcs)
  BY <1>1 DEF Current
<1>4. Rooted(stack) /\ Answers(stack)
  BY <1>1 DEF Rooted, Answers
<1> QED
  BY <1>1, <1>2, <1>3, <1>4 DEF BInv, Broken

LEMMA BreakStep == IInv /\ BInv /\ [Next]_vars => BInv'
<1> SUFFICES ASSUME IInv, BInv, [Next]_vars PROVE BInv'
  OBVIOUS
<1>1. CASE Events
  <2>1. CASE LoopTurn
    BY <2>1, StaysBroken DEF LoopTurn
  <2>2. CASE PressEnd
    <3>1. Runs({"press", "all", "read", "pipe", "wait"}) /\ stack' = Tail(stack) /\ rcs' = rcs
      BY <2>2 DEF PressEnd, Runs
    <3> QED
      BY <3>1, PopBroken
  <2>3. CASE \E fw \in Windows \cup {Nil} : InputCommand(fw) \/ HandleButtonPress(fw)
    BY <2>3, InputCommandBroken, HandleButtonPressBroken
  <2>4. CASE \E w \in Windows : HandleDestroyNotify(w)
    BY <2>4, StaysBroken DEF HandleDestroyNotify
  <2> QED
    BY <1>1, <2>1, <2>2, <2>3, <2>4 DEF Events
<1>2. CASE Simple
  <2>1. CASE \E n \in {-1} \cup 1 .. MaxBreak : CmdBreak(n)
    BY <2>1, CmdBreakBroken
  <2>2. CASE \E f \in Funcs, cond \in Conds \cup {Nil} : CmdAddToFunc(f, cond)
    BY <2>2, FinishBroken DEF CmdAddToFunc, Command
  <2>3. CASE \E cond \in Conds : CmdPlus(cond)
    BY <2>3, FinishBroken DEF CmdPlus, Command
  <2>4. CASE \E f \in Funcs : CmdDestroyFunc(f)
    BY <2>4, FinishBroken DEF CmdDestroyFunc, Command
  <2>5. CASE \E on \in BOOLEAN : CmdBusyCursor(on)
    BY <2>5, FinishBroken DEF CmdBusyCursor, Command
  <2>6. CASE CmdDestroy \/ CmdFocus \/ ExecReturn
    BY <2>6, FinishBroken DEF CmdDestroy, CmdFocus, ExecReturn, Command
  <2>7. CASE Dangling
    BY <2>7, StaysBroken DEF Dangling
  <2> QED
    BY <1>2, <2>1, <2>2, <2>3, <2>4, <2>5, <2>6, <2>7 DEF Simple
<1>3. CASE Nesting
  <2>1. CASE \E f \in Funcs, fw \in Windows \cup {Nil} : CallFunction(f, fw)
    BY <2>1, CallFunctionBroken
  <2>2. CASE \E f \in Funcs : CallFunctionRefused(f)
    BY <2>2, RefusedBroken DEF CallFunctionRefused, Command
  <2>3. CASE \E keeps \in BOOLEAN : RunItem(keeps)
    BY <2>3, RunItemBroken
  <2>4. CASE \E type \in Conds, fw \in Windows \cup {Nil} : NextPhase(type, fw)
    BY <2>4, NextPhaseBroken
  <2>5. CASE FunctionEnd
    BY <2>5, FunctionEndBroken
  <2>6. CASE \E fw \in Windows \cup {Nil}, keeps \in BOOLEAN : CmdConditional(fw, keeps)
    BY <2>6, CmdConditionalBroken
  <2>7. CASE \E S \in SUBSET Windows : CmdAll(S)
    BY <2>7, CmdAllBroken
  <2>8. CASE AllNext
    BY <2>8, AllNextBroken
  <2>9. CASE AllEnd \/ StreamEnd \/ WaitEnd
    <3>1. Runs({"press", "all", "read", "pipe", "wait"}) /\ stack' = Tail(stack) /\ rcs' = rcs
      BY <2>9 DEF AllEnd, StreamEnd, WaitEnd, Runs
    <3> QED
      BY <3>1, PopBroken
  <2>10. CASE CmdRead
    BY <2>10, CmdReadBroken
  <2>11. CASE CmdPipeRead
    BY <2>11, CmdPipeReadBroken
  <2>12. CASE CmdReadFails
    BY <2>12, FinishBroken DEF CmdReadFails, Command
  <2>13. CASE StreamLine
    BY <2>13, StreamLineBroken
  <2>14. CASE CmdWait
    BY <2>14, CmdWaitBroken
  <2> QED
    BY <1>3, <2>1, <2>2, <2>3, <2>4, <2>5, <2>6, <2>7, <2>8, <2>9, <2>10, <2>11, <2>12, <2>13,
       <2>14 DEF Nesting
<1>4. CASE UNCHANGED vars
  BY <1>4, StaysBroken DEF vars
<1> QED
  BY <1>1, <1>2, <1>3, <1>4 DEF Next

LEMMA BreakHolds ==
  ASSUME IInv, BInv
  PROVE  BreakExact
<1> SUFFICES ASSUME Runs({"func"})
             PROVE  /\ Top.left = "yes" => break_levels # 0
                    /\ break_levels # 0 => Top.left # "no"
  BY DEF BreakExact
<1>1. stack # <<>> /\ Top = stack[1] /\ Top \in Frame /\ Top.at = "func"
  BY TopFacts DEF Runs
<1>2. PICK b : b = rcs[Len(rcs)]
  OBVIOUS
<1>3. b \in Breaks /\ break_levels = b /\ Chain(stack, Len(stack), b)
  <2>1. Top \notin Presses
    BY <1>1 DEF Presses
  <2> QED
    BY <1>1, <1>2, <2>1, BreakStart, InUse DEF break_levels
<1>4. Linked(stack, Len(stack), Len(stack))
  <2>1. Top \in Activations
    BY <1>1 DEF Activations
  <2>2. Len(stack) + 1 .. Len(stack) = {}
    BY BreakStart
  <2> QED
    BY <1>1, <2>1, <2>2, BreakStart, TopAt DEF Linked
<1>5. Above(stack, Len(stack), Len(stack)) = 0
  <2>1. Low(stack, Len(stack), Activations) \in Nat
    BY BreakStart, NumType DEF Num
  <2> QED
    BY <2>1 DEF Above
<1>6. /\ Top.left = "yes" => Leaves(b, 0)
      /\ Leaves(b, 0) => Top.left # "no"
  BY <1>1, <1>3, <1>4, <1>5, BreakStart, TopAt DEF Chain
<1> QED
  BY <1>3, <1>6, BreakRange

(* Break leaves the functions it says and no other, for any nesting of      *)
(* functions, conditional commands, KeepRc, Read and Wait: break_levels is  *)
(* copied, counted down and dropped at the right calls. Where All or        *)
(* PipeRead goes on with other commands, nothing is said (Unsure).          *)
THEOREM BreaksExact == Spec => []BreakExact
<1>1. IInv /\ BInv => BreakExact
  BY BreakHolds
<1> QED
  BY <1>1, Invariance, BreakInit, BreakStep, PTL DEF Spec
=============================================================================
