----------------------------- MODULE FocusProofs -----------------------------
(***************************************************************************)
(* Proofs about Focus, for any windows, desks, policies and transients: no *)
(* handler leaves or brings back a pointer to a window that goes away, the *)
(* buttons are not grabbed on the window that has the focus, and the focus *)
(* of a window that goes away is not handed to another desk.               *)
(***************************************************************************)
EXTENDS Focus, SubsequenceProofs, SequenceTheorems

LEMMA NilIsNone == Nil \notin Windows /\ Nil \notin Desks /\ Desks # {}
BY FocusAssumption

USE NilIsNone

Distinct(q) == \A i, j \in DOMAIN q : q[i] = q[j] => i = j

FocusType ==
  [screen : Windows \cup {Nil}, last : Windows \cup {Nil},
   hilite : Windows \cup {Nil}, requested : Windows \cup {Nil},
   pending : Windows \cup {Nil}, stolen : Windows \cup {Nil},
   unknown : BOOLEAN, here : BOOLEAN]

State ==
  [wlist : Seq(Windows), iconic : SUBSET Windows, mapped : SUBSET Windows,
   desk : [Windows -> Desks \cup {Nil}], current : Desks,
   away : [Windows -> Desks \cup {Nil}], grabbed : SUBSET Windows,
   f : FocusType]

Ptrs(s) ==
  {s.f.screen, s.f.last, s.f.hilite, s.f.requested, s.f.pending, s.f.stolen}

(* The buttons are not grabbed on the focused window, wherever it is.      *)
Clicks(s, D) == s.f.screen \in s.mapped \ D => s.f.screen \notin s.grabbed

(* D: the windows that die; L: those of them that were given the focus      *)
Good(s, D, L) ==
  /\ s \in State /\ Distinct(s.wlist)
  /\ D \subseteq Windows /\ ToSet(s.wlist) \cap D = {}
  /\ s.mapped \cup s.iconic \cup s.grabbed \subseteq ToSet(s.wlist) \cup D
  /\ Ptrs(s) \subseteq ToSet(s.wlist) \cup L \cup {Nil}
  /\ \A x \in ToSet(s.wlist) \cup D : s.desk[x] \in Desks
  /\ Clicks(s, D)

(* The inductive invariant *)
IInv ==
  /\ Good(S, dying, Windows)
  /\ busy \in BOOLEAN /\ mapping \subseteq Live /\ follow \subseteq Live

(* The pointers refer to listed windows and to windows of L: now, ...       *)
Points(L) == Ptrs(S) \subseteq Live \cup L \cup {Nil}

(* ... and after a step that keeps the invariant                           *)
Holds(L) == IInv' /\ Ptrs(S') \subseteq Live' \cup L \cup {Nil}

-----------------------------------------------------------------------------
(* The window list *)

LEMMA WithoutFacts ==
  ASSUME NEW q \in Seq(Windows), Distinct(q), NEW w
  PROVE  /\ Without(q, w) \in Seq(Windows) /\ Distinct(Without(q, w))
         /\ ToSet(Without(q, w)) = ToSet(q) \ {w}
<1> DEFINE K == {i \in DOMAIN q : q[i] # w}
           u == Subsequence(q, K)
<1>1. K \in SUBSET (1 .. Len(q))
  OBVIOUS
<1> HIDE DEF K
<1>2. /\ u \in Seq(Windows)
      /\ \A k \in DOMAIN u : \E i \in K : u[k] = q[i]
      /\ \A i \in K : \E k \in DOMAIN u : u[k] = q[i]
      /\ (\A i, j \in DOMAIN q : q[i] = q[j] => i = j) =>
           \A i, j \in DOMAIN u : u[i] = u[j] => i = j
  BY <1>1, SubsequenceFacts
<1> HIDE DEF u
<1>3. Distinct(u)
  BY <1>2 DEF Distinct
<1>4. ToSet(u) = ToSet(q) \ {w}
  BY <1>2 DEF ToSet, K
<1>5. Without(q, w) = u
  BY DEF Without, u, K
<1> QED BY <1>2, <1>3, <1>4, <1>5

LEMMA SameElements ==
  ASSUME NEW q, NEW t,
         \A k \in DOMAIN t : \E j \in DOMAIN q : t[k] = q[j],
         \A j \in DOMAIN q : \E k \in DOMAIN t : t[k] = q[j]
  PROVE  ToSet(t) = ToSet(q)
<1>1. ASSUME NEW x \in ToSet(t) PROVE x \in ToSet(q)
  <2>1. PICK k \in DOMAIN t : x = t[k]
    BY DEF ToSet
  <2>2. PICK j \in DOMAIN q : t[k] = q[j]
    OBVIOUS
  <2> QED BY <2>1, <2>2 DEF ToSet
<1>2. ASSUME NEW x \in ToSet(q) PROVE x \in ToSet(t)
  <2>1. PICK j \in DOMAIN q : x = q[j]
    BY DEF ToSet
  <2>2. PICK k \in DOMAIN t : t[k] = q[j]
    OBVIOUS
  <2> QED BY <2>1, <2>2 DEF ToSet
<1> QED BY <1>1, <1>2

(* __update_windowlist rotates the list, ...                               *)
LEMMA TurnedFacts ==
  ASSUME NEW q \in Seq(Windows), Distinct(q), NEW i \in 1 .. Len(q)
  PROVE  LET t == SubSeq(q, i, Len(q)) \o SubSeq(q, 1, i - 1)
         IN  t \in Seq(Windows) /\ Distinct(t) /\ ToSet(t) = ToSet(q)
<1> DEFINE n == Len(q)
           a == SubSeq(q, i, n)
           b == SubSeq(q, 1, i - 1)
           t == a \o b
<1>1. n \in Nat /\ i \in Nat /\ 1 <= i /\ i <= n /\ DOMAIN q = 1 .. n
  OBVIOUS
<1>2. a \in Seq(Windows) /\ Len(a) = n - i + 1 /\ \A k \in 1 .. n - i + 1 : a[k] = q[k + i - 1]
  OBVIOUS
<1>3. b \in Seq(Windows) /\ Len(b) = i - 1 /\ \A k \in 1 .. i - 1 : b[k] = q[k]
  OBVIOUS
<1> HIDE DEF n, a, b
<1>4. /\ t \in Seq(Windows) /\ Len(t) = n
      /\ \A k \in 1 .. n : t[k] = IF k <= n - i + 1 THEN q[k + i - 1] ELSE q[k - (n - i + 1)]
  <2>1. t \in Seq(Windows) /\ Len(t) = Len(a) + Len(b)
        /\ \A k \in 1 .. Len(a) + Len(b) : t[k] = IF k <= Len(a) THEN a[k] ELSE b[k - Len(a)]
    BY <1>2, <1>3, ConcatProperties, SMTT(20)
  <2> HIDE DEF t
  <2>2. Len(t) = n
    BY <1>1, <1>2, <1>3, <2>1
  <2>3. ASSUME NEW k \in 1 .. n
        PROVE  t[k] = IF k <= n - i + 1 THEN q[k + i - 1] ELSE q[k - (n - i + 1)]
    <3>1. CASE k <= n - i + 1
      <4>1. k \in 1 .. n - i + 1 /\ k \in 1 .. Len(a) + Len(b) /\ k <= Len(a)
        BY <1>1, <1>2, <1>3, <3>1
      <4>2. t[k] = a[k]
        BY <2>1, <4>1
      <4> QED BY <1>2, <3>1, <4>1, <4>2
    <3>2. CASE k > n - i + 1
      <4>1. k - (n - i + 1) \in 1 .. i - 1 /\ k \in 1 .. Len(a) + Len(b) /\ ~(k <= Len(a))
        BY <1>1, <1>2, <1>3, <3>2
      <4>2. t[k] = b[k - (n - i + 1)]
        BY <1>2, <2>1, <4>1
      <4> QED BY <1>3, <1>1, <3>2, <4>1, <4>2
    <3> QED BY <1>1, <3>1, <3>2
  <2> QED BY <2>1, <2>2, <2>3
<1> HIDE DEF t
<1>5. DOMAIN t = 1 .. n
  BY <1>4
<1>6. Distinct(t)
  <2> SUFFICES ASSUME NEW k \in 1 .. n, NEW l \in 1 .. n, t[k] = t[l] PROVE k = l
    BY <1>5 DEF Distinct
  <2> DEFINE at(x) == IF x <= n - i + 1 THEN x + i - 1 ELSE x - (n - i + 1)
  <2>1. at(k) \in 1 .. n /\ at(l) \in 1 .. n /\ t[k] = q[at(k)] /\ t[l] = q[at(l)]
    BY <1>1, <1>4
  <2>2. at(k) = at(l)
    BY <1>1, <2>1 DEF Distinct
  <2> QED BY <1>1, <2>2
<1>7. \A k \in 1 .. n : \E j \in 1 .. n : t[k] = q[j]
  <2> TAKE k \in 1 .. n
  <2> DEFINE at == IF k <= n - i + 1 THEN k + i - 1 ELSE k - (n - i + 1)
  <2>1. at \in 1 .. n
    BY <1>1
  <2>2. t[k] = q[at]
    BY <1>4
  <2> QED BY <2>1, <2>2
<1>8. \A j \in 1 .. n : \E k \in 1 .. n : t[k] = q[j]
  <2> TAKE j \in 1 .. n
  <2> DEFINE k == IF j >= i THEN j - i + 1 ELSE j + (n - i + 1)
  <2>1. k \in 1 .. n /\ t[k] = q[j]
    <3>1. CASE j >= i
      <4>1. k = j - i + 1 /\ k \in 1 .. n /\ k <= n - i + 1 /\ k + i - 1 = j
        BY <1>1, <3>1
      <4> QED BY <1>4, <4>1
    <3>2. CASE j < i
      <4>1. k = j + (n - i + 1) /\ k \in 1 .. n /\ ~(k <= n - i + 1) /\ k - (n - i + 1) = j
        BY <1>1, <3>2
      <4> QED BY <1>4, <4>1
    <3> QED BY <1>1, <3>1, <3>2
  <2> QED BY <2>1
<1>9. ToSet(t) = ToSet(q)
  BY <1>1, <1>5, <1>7, <1>8, SameElements
<1> QED BY <1>4, <1>6, <1>9 DEF t, a, b, n

(* ... or plucks the window out and puts it at the front.                  *)
LEMMA PluckedFacts ==
  ASSUME NEW q \in Seq(Windows), Distinct(q), NEW w \in ToSet(q)
  PROVE  LET t == <<w>> \o Without(q, w)
         IN  t \in Seq(Windows) /\ Distinct(t) /\ ToSet(t) = ToSet(q)
<1> DEFINE u == Without(q, w)
           t == <<w>> \o u
<1>1. u \in Seq(Windows) /\ Distinct(u) /\ ToSet(u) = ToSet(q) \ {w}
  BY WithoutFacts
<1>2. w \in Windows
  BY DEF ToSet
<1> HIDE DEF u
<1>3. /\ t \in Seq(Windows) /\ DOMAIN t = 1 .. Len(u) + 1 /\ t[1] = w
      /\ \A k \in 2 .. Len(u) + 1 : t[k] = u[k - 1]
  BY <1>1, <1>2
<1> HIDE DEF t
<1>4. Len(u) \in Nat /\ DOMAIN u = 1 .. Len(u)
  BY <1>1
<1>5. \A k \in DOMAIN t : k = 1 \/ (k \in 2 .. Len(u) + 1 /\ k - 1 \in DOMAIN u /\ t[k] = u[k - 1])
  BY <1>3, <1>4
<1>6. \A k \in DOMAIN u : u[k] # w /\ u[k] \in ToSet(q)
  BY <1>1 DEF ToSet
<1>7. Distinct(t)
  <2> SUFFICES ASSUME NEW k \in DOMAIN t, NEW l \in DOMAIN t, t[k] = t[l] PROVE k = l
    BY DEF Distinct
  <2>1. CASE k = 1 \/ l = 1
    BY <1>3, <1>5, <1>6, <2>1
  <2>2. CASE k # 1 /\ l # 1
    <3>1. k - 1 = l - 1
      BY <1>1, <1>5, <2>2 DEF Distinct
    <3> QED BY <1>3, <1>4, <3>1
  <2> QED BY <2>1, <2>2
<1>8. \A k \in DOMAIN u : k + 1 \in DOMAIN t /\ t[k + 1] = u[k]
  BY <1>3, <1>4
<1>9. ToSet(t) = {w} \cup ToSet(u)
  <2>1. 1 \in DOMAIN t
    BY <1>3, <1>4
  <2>2. ASSUME NEW x \in ToSet(t) PROVE x \in {w} \cup ToSet(u)
    <3>1. PICK k \in DOMAIN t : x = t[k]
      BY DEF ToSet
    <3>2. CASE k = 1
      BY <1>3, <3>1, <3>2
    <3>3. CASE k # 1
      <4>1. k - 1 \in DOMAIN u /\ x = u[k - 1]
        BY <1>5, <3>1, <3>3
      <4> QED BY <4>1 DEF ToSet
    <3> QED BY <3>2, <3>3
  <2>3. w \in ToSet(t)
    BY <1>3, <2>1 DEF ToSet
  <2>4. ASSUME NEW x \in ToSet(u) PROVE x \in ToSet(t)
    <3>1. PICK k \in DOMAIN u : x = u[k]
      BY DEF ToSet
    <3>2. k + 1 \in DOMAIN t /\ x = t[k + 1]
      BY <1>8, <3>1
    <3> QED BY <3>2 DEF ToSet
  <2> QED BY <2>2, <2>3, <2>4
<1> QED BY <1>1, <1>3, <1>7, <1>9 DEF t, u


-----------------------------------------------------------------------------
(* What the functions of focus.c may change: the order of the list, the     *)
(* grabs of mapped windows, and pointers, which they set to listed windows; *)
(* and they leave no grab on the window that they give the focus to.        *)
Shuffles(t, s, L) ==
  /\ t \in State /\ Distinct(t.wlist) /\ ToSet(t.wlist) = ToSet(s.wlist)
  /\ t.mapped = s.mapped /\ t.iconic = s.iconic /\ t.desk = s.desk
  /\ t.grabbed \subseteq s.grabbed \cup s.mapped
  /\ Ptrs(t) \subseteq Ptrs(s) \cup ToSet(s.wlist) \cup L \cup {Nil}
  /\ Clicks(s, dying) => Clicks(t, dying)

(* ... and neither desks nor the pointers that belong to other events      *)
Places(t, s) ==
  /\ t.desk = s.desk /\ t.current = s.current /\ t.away = s.away
  /\ t.f.last = s.f.last /\ t.f.hilite = s.f.hilite
  /\ t.f.pending = s.f.pending /\ t.f.stolen = s.f.stolen

LEMMA ShufflesOn ==
  ASSUME NEW L \in SUBSET (dying \cap Windows),
         NEW s, NEW t, NEW u, Shuffles(t, s, L), Shuffles(u, t, L)
  PROVE  Shuffles(u, s, L)
<1>1. u.grabbed \subseteq s.grabbed \cup s.mapped
  BY DEF Shuffles
<1>2. Ptrs(u) \subseteq Ptrs(s) \cup ToSet(s.wlist) \cup L \cup {Nil}
  BY DEF Shuffles
<1> QED BY <1>1, <1>2 DEF Shuffles

LEMMA GoodKept ==
  ASSUME NEW L \in SUBSET (dying \cap Windows),
         NEW s, NEW t, Good(s, dying, L), Shuffles(t, s, L)
  PROVE  Good(t, dying, L) /\ ToSet(t.wlist) = ToSet(s.wlist)
<1>1. t.mapped \cup t.iconic \cup t.grabbed \subseteq ToSet(t.wlist) \cup dying
  BY DEF Shuffles, Good
<1>2. Ptrs(t) \subseteq ToSet(t.wlist) \cup L \cup {Nil}
  BY DEF Shuffles, Good
<1> QED BY <1>1, <1>2 DEF Shuffles, Good

LEMMA GrabFacts ==
  ASSUME NEW L \in SUBSET (dying \cap Windows),
         NEW s \in State, Distinct(s.wlist), NEW W
  PROVE  LET t == GrabButtonsOf(s, W)
         IN  /\ Shuffles(t, s, L) /\ Places(t, s)
             /\ t.f = s.f /\ t.wlist = s.wlist
             /\ s.f.screen \in W => Clicks(t, dying)
<1> DEFINE can == (W \ dying) \cap s.mapped
           g == (s.grabbed \ can) \cup {w \in can : QueryGrabButtons(s, w)}
           t == GrabButtonsOf(s, W)
<1>1. CASE can = {}
  <2>1. t = s
    BY <1>1 DEF GrabButtonsOf
  <2>2. s.f.screen \in W => Clicks(s, dying)
    BY <1>1 DEF Clicks
  <2> QED BY <2>1, <2>2 DEF Shuffles, Places
<1>2. CASE can # {}
  <2>1. t = [s EXCEPT !.grabbed = g]
    BY <1>2 DEF GrabButtonsOf
  <2>2. g \subseteq s.grabbed \cup s.mapped /\ g \in SUBSET Windows
    BY DEF State
  <2>3. \A x : x \in g => x \in s.grabbed \ can \/ x # s.f.screen
    BY DEF QueryGrabButtons
  <2> HIDE DEF g
  <2>4. /\ t \in State /\ t.wlist = s.wlist /\ t.mapped = s.mapped
        /\ t.iconic = s.iconic /\ t.desk = s.desk /\ t.current = s.current
        /\ t.away = s.away /\ t.f = s.f /\ t.grabbed = g
    BY <2>1, <2>2 DEF State
  <2> HIDE DEF t
  <2>5. Clicks(s, dying) => Clicks(t, dying)
    BY <2>3, <2>4 DEF Clicks
  <2>6. s.f.screen \in W => Clicks(t, dying)
    BY <2>3, <2>4 DEF Clicks
  <2>7. Places(t, s) /\ Ptrs(t) = Ptrs(s)
    BY <2>4 DEF Places, Ptrs
  <2>8. Shuffles(t, s, L)
    BY <2>2, <2>4, <2>5, <2>7 DEF Shuffles
  <2> QED BY <2>4, <2>6, <2>7, <2>8 DEF t
<1> QED BY <1>1, <1>2

LEMMA GrabOne ==
  ASSUME NEW L \in SUBSET (dying \cap Windows),
         NEW s \in State, Distinct(s.wlist), NEW w
  PROVE  LET t == GrabButtons(s, w)
         IN  /\ Shuffles(t, s, L) /\ Places(t, s)
             /\ t.f = s.f /\ t.wlist = s.wlist
             /\ s.f.screen = w => Clicks(t, dying)
BY GrabFacts DEF GrabButtons

LEMMA GrabAll ==
  ASSUME NEW L \in SUBSET (dying \cap Windows),
         NEW s \in State, Distinct(s.wlist)
  PROVE  LET t == GrabButtonsAll(s)
         IN  /\ Shuffles(t, s, L) /\ Places(t, s) /\ t.f = s.f /\ t.wlist = s.wlist
             /\ s.f.screen \in ToSet(s.wlist) => Clicks(t, dying)
BY GrabFacts DEF GrabButtonsAll

LEMMA UpdateFacts ==
  ASSUME NEW L \in SUBSET (dying \cap Windows),
         NEW s \in State, Distinct(s.wlist),
         NEW w \in ToSet(s.wlist) \cup L \cup {Nil}, NEW by, NEW flip
  PROVE  LET t == UpdateWindowlist(s, w, by, flip)
         IN  Shuffles(t, s, L) /\ Places(t, s) /\ t.f = s.f
<1> DEFINE t == UpdateWindowlist(s, w, by, flip)
           q == s.wlist
           i == CHOOSE n \in 1 .. Len(q) : q[n] = w
           turned == SubSeq(q, i, Len(q)) \o SubSeq(q, 1, i - 1)
           plucked == <<w>> \o Without(q, w)
<1>1. CASE w = Nil \/ w = s.f.screen \/ w \in dying
  BY <1>1 DEF UpdateWindowlist, Shuffles, Places
<1>2. CASE ~(w = Nil \/ w = s.f.screen \/ w \in dying)
  <2>1. q \in Seq(Windows) /\ w \in ToSet(q)
    BY <1>2 DEF State
  <2>2. i \in 1 .. Len(q)
    <3>1. \E n \in 1 .. Len(q) : q[n] = w
      BY <2>1 DEF ToSet
    <3> QED BY <3>1
  <2> HIDE DEF i
  <2>3. turned \in Seq(Windows) /\ Distinct(turned) /\ ToSet(turned) = ToSet(q)
    BY <2>1, <2>2, TurnedFacts
  <2>4. plucked \in Seq(Windows) /\ Distinct(plucked) /\ ToSet(plucked) = ToSet(q)
    BY <2>1, PluckedFacts
  <2>5. PICK l \in Seq(Windows) : /\ t = [s EXCEPT !.wlist = l]
                                  /\ Distinct(l) /\ ToSet(l) = ToSet(q)
    <3>1. t = [s EXCEPT !.wlist = turned] \/ t = [s EXCEPT !.wlist = plucked]
      BY <1>2 DEF UpdateWindowlist, i
    <3> HIDE DEF turned, plucked, t
    <3> QED BY <2>3, <2>4, <3>1
  <2> HIDE DEF t
  <2>6. /\ t \in State /\ t.wlist = l /\ t.mapped = s.mapped
        /\ t.iconic = s.iconic /\ t.desk = s.desk /\ t.current = s.current
        /\ t.away = s.away /\ t.f = s.f /\ t.grabbed = s.grabbed
    BY <2>5 DEF State
  <2>7. Places(t, s) /\ Ptrs(t) = Ptrs(s) /\ (Clicks(s, dying) => Clicks(t, dying))
    BY <2>6 DEF Places, Ptrs, Clicks
  <2>8. Shuffles(t, s, L)
    BY <2>5, <2>6, <2>7 DEF Shuffles
  <2> QED BY <2>6, <2>7, <2>8 DEF t
<1> QED BY <1>1, <1>2

-----------------------------------------------------------------------------
(* Giving the focus *)

(* The focus is where it was, nowhere or in one of the windows W.          *)
Moves(t, s, W) ==
  /\ t.desk = s.desk /\ t.current = s.current /\ t.away = s.away
  /\ t.f.last = s.f.last /\ t.f.hilite = s.f.hilite
  /\ t.f.pending = s.f.pending /\ t.f.stolen = s.f.stolen
  /\ t.f.screen \in W \cup {Nil, s.f.screen}
  /\ t.f.requested \in W \cup {Nil, s.f.requested}

(* A new value of the focus record: its fields are windows or Nil.         *)
LEMMA Refocus ==
  ASSUME NEW s \in State, NEW f \in FocusType
  PROVE  LET t == [s EXCEPT !.f = f]
         IN  /\ t \in State /\ t.wlist = s.wlist /\ t.mapped = s.mapped
             /\ t.iconic = s.iconic /\ t.desk = s.desk /\ t.current = s.current
             /\ t.away = s.away /\ t.f = f /\ t.grabbed = s.grabbed
BY DEF State

(* ... leaves everything but the focus alone.                              *)
Focuses(t, s, f) ==
  /\ t \in State /\ t.wlist = s.wlist /\ t.mapped = s.mapped
  /\ t.iconic = s.iconic /\ t.desk = s.desk /\ t.current = s.current
  /\ t.away = s.away /\ t.f = f /\ t.grabbed = s.grabbed

(* __set_focus_to_fwin may leave the buttons grabbed on the new window.    *)
HalfShuffles(t, s, L) ==
  /\ t \in State /\ Distinct(t.wlist) /\ ToSet(t.wlist) = ToSet(s.wlist)
  /\ t.mapped = s.mapped /\ t.iconic = s.iconic /\ t.desk = s.desk
  /\ t.grabbed \subseteq s.grabbed \cup s.mapped
  /\ Ptrs(t) \subseteq Ptrs(s) \cup ToSet(s.wlist) \cup L \cup {Nil}

LEMMA FocusesHalf ==
  ASSUME NEW L \in SUBSET (dying \cap Windows),
         NEW s \in State, Distinct(s.wlist), NEW t, NEW f, Focuses(t, s, f),
         {f.screen, f.last, f.hilite, f.requested, f.pending, f.stolen}
           \subseteq Ptrs(s) \cup ToSet(s.wlist) \cup L \cup {Nil}
  PROVE  HalfShuffles(t, s, L)
BY DEF Focuses, HalfShuffles, Ptrs

LEMMA HalfOn ==
  ASSUME NEW L \in SUBSET (dying \cap Windows),
         NEW s, NEW t, NEW u, Shuffles(t, s, L), HalfShuffles(u, t, L)
  PROVE  HalfShuffles(u, s, L)
<1>1. u.grabbed \subseteq s.grabbed \cup s.mapped
  BY DEF Shuffles, HalfShuffles
<1>2. Ptrs(u) \subseteq Ptrs(s) \cup ToSet(s.wlist) \cup L \cup {Nil}
  BY DEF Shuffles, HalfShuffles
<1> QED BY <1>1, <1>2 DEF Shuffles, HalfShuffles

LEMMA GiveFacts ==
  ASSUME NEW L \in SUBSET (dying \cap Windows),
         NEW s \in State, Distinct(s.wlist),
         NEW w \in ToSet(s.wlist) \cup L \cup {Nil}
  PROVE  LET t == Give(s, w)
         IN  /\ HalfShuffles(t, s, L) /\ Moves(t, s, {w})
             /\ t.f.screen = w /\ t.f.requested = w
<1> DEFINE f == [s.f EXCEPT !.requested = w, !.screen = w, !.unknown = FALSE]
           t == Give(s, w)
<1>1. w \in Windows \cup {Nil}
  BY DEF State, ToSet
<1>2. /\ f \in FocusType /\ f.screen = w /\ f.requested = w
      /\ f.last = s.f.last /\ f.hilite = s.f.hilite
      /\ f.pending = s.f.pending /\ f.stolen = s.f.stolen
  BY <1>1 DEF State, FocusType
<1>3. t = [s EXCEPT !.f = f]
  BY DEF Give, State
<1> HIDE DEF t, f
<1>4. Focuses(t, s, f)
  BY <1>2, <1>3, Refocus DEF Focuses
<1>5. HalfShuffles(t, s, L)
  BY <1>2, <1>4, FocusesHalf DEF Ptrs
<1>6. Moves(t, s, {w})
  BY <1>2, <1>4 DEF Focuses, Moves
<1> QED BY <1>2, <1>4, <1>5, <1>6 DEF t, Focuses

(* No window has the focus on this screen.                                 *)
LEMMA NobodyFacts ==
  ASSUME NEW L \in SUBSET (dying \cap Windows),
         NEW s \in State, Distinct(s.wlist),
         NEW r \in {Nil, s.f.requested}
  PROVE  LET t == [s EXCEPT !.f = [@ EXCEPT !.requested = r, !.screen = Nil]]
         IN  /\ HalfShuffles(t, s, L) /\ Moves(t, s, {})
             /\ t.f.screen = Nil /\ t.wlist = s.wlist /\ Clicks(t, dying)
<1> DEFINE f == [s.f EXCEPT !.requested = r, !.screen = Nil]
           t == [s EXCEPT !.f = f]
<1>1. r \in Windows \cup {Nil}
  BY DEF State, FocusType
<1>2. /\ f \in FocusType /\ f.screen = Nil /\ f.requested = r
      /\ f.last = s.f.last /\ f.hilite = s.f.hilite
      /\ f.pending = s.f.pending /\ f.stolen = s.f.stolen
  BY <1>1 DEF State, FocusType
<1> HIDE DEF f
<1>4. Focuses(t, s, f)
  BY <1>2, Refocus DEF Focuses
<1>3. [s EXCEPT !.f = [@ EXCEPT !.requested = r, !.screen = Nil]] = t
  BY DEF State, f
<1> HIDE DEF t
<1>5. HalfShuffles(t, s, L)
  BY <1>2, <1>4, FocusesHalf DEF Ptrs
<1>6. Moves(t, s, {})
  BY <1>2, <1>4 DEF Focuses, Moves
<1>7. Clicks(t, dying)
  BY <1>2, <1>4 DEF Focuses, Clicks, State
<1> QED BY <1>2, <1>3, <1>4, <1>5, <1>6, <1>7 DEF Focuses

(* __set_focus_to_fwin *)
LEMMA TryFacts ==
  ASSUME NEW L \in SUBSET (dying \cap Windows),
         NEW s \in State, Distinct(s.wlist),
         NEW w \in ToSet(s.wlist) \cup L \cup {Nil}, NEW by, NEW flip, NEW noWarp
  PROVE  LET t == TryFocus(s, w, by, flip, noWarp)
         IN  HalfShuffles(t, s, L) /\ Moves(t, s, {w}) /\ (w = Nil => t.f.screen = Nil)
<1> DEFINE t == UpdateWindowlist(s, w, by, flip)
           u == TryFocus(s, w, by, flip, noWarp)
           nobody == [t EXCEPT !.f = [@ EXCEPT !.requested = t.f.requested, !.screen = Nil]]
           noone == [t EXCEPT !.f = [@ EXCEPT !.requested = Nil, !.screen = Nil]]
<1>1. Shuffles(t, s, L) /\ Places(t, s) /\ t.f = s.f
  BY UpdateFacts
<1>2. t \in State /\ Distinct(t.wlist) /\ ToSet(t.wlist) = ToSet(s.wlist)
  BY <1>1 DEF Shuffles
<1>3. \/ u = s \/ u = t
      \/ w = Nil /\ u = GrabButtons(nobody, s.f.screen)
      \/ u = Give(t, Nil) \/ (w # Nil /\ u = Give(t, w)) \/ u = noone
  <2>1. \/ u = s \/ u = t
        \/ w = Nil /\ u = GrabButtons([t EXCEPT !.f.screen = Nil], s.f.screen)
        \/ u = Give(t, Nil) \/ (w # Nil /\ u = Give(t, w))
        \/ u = [t EXCEPT !.f.requested = Nil, !.f.screen = Nil]
    BY DEF TryFocus
  <2>2. [t EXCEPT !.f.screen = Nil] = nobody
    BY <1>2, ZenonT(60) DEF State, FocusType
  <2>3. [t EXCEPT !.f.requested = Nil, !.f.screen = Nil] = noone
    BY <1>2, ZenonT(60) DEF State, FocusType
  <2> HIDE DEF u, t
  <2> QED BY <2>1, <2>2, <2>3
<1>4. w = Nil => u = Give(t, Nil) \/ u = GrabButtons(nobody, s.f.screen)
  <2>1. w = Nil => u = Give(t, Nil) \/ u = GrabButtons([t EXCEPT !.f.screen = Nil], s.f.screen)
    BY DEF TryFocus, CheckAllow
  <2>2. [t EXCEPT !.f.screen = Nil] = nobody
    BY <1>2, ZenonT(60) DEF State, FocusType
  <2> HIDE DEF u, t
  <2> QED BY <2>1, <2>2
<1> HIDE DEF u, t
<1>5. ASSUME NEW v, HalfShuffles(v, t, L), Moves(v, t, {w})
      PROVE  HalfShuffles(v, s, L) /\ Moves(v, s, {w})
  <2>1. HalfShuffles(v, s, L)
    BY <1>1, <1>5, HalfOn
  <2>2. Moves(v, s, {w})
    BY <1>1, <1>5 DEF Moves, Places
  <2> QED BY <2>1, <2>2
<1>6. /\ HalfShuffles(Give(t, Nil), t, L) /\ Moves(Give(t, Nil), t, {w})
      /\ Give(t, Nil).f.screen = Nil
  <2>1. PICK x : x = Nil
    OBVIOUS
  <2>2. x \in ToSet(t.wlist) \cup L \cup {Nil}
    BY <2>1
  <2>3. HalfShuffles(Give(t, x), t, L) /\ Moves(Give(t, x), t, {x})
        /\ Give(t, x).f.screen = x
    BY <1>2, <2>2, GiveFacts
  <2> QED BY <2>1, <2>3 DEF Moves
<1>7. /\ HalfShuffles(nobody, t, L) /\ Moves(nobody, t, {})
      /\ nobody.f.screen = Nil
  BY <1>2, NobodyFacts
<1>8. nobody \in State /\ Distinct(nobody.wlist)
  BY <1>7 DEF HalfShuffles
<1>9. HalfShuffles(noone, t, L) /\ Moves(noone, t, {})
  BY <1>2, NobodyFacts
<1> HIDE DEF nobody, noone
<1> DEFINE v == GrabButtons(nobody, s.f.screen)
<1>10. Shuffles(v, nobody, L) /\ Places(v, nobody) /\ v.f = nobody.f
  BY <1>8, GrabOne
<1> HIDE DEF v
<1>11. HalfShuffles(v, t, L) /\ Moves(v, t, {w}) /\ v.f.screen = Nil
  <2>1. HalfShuffles(v, t, L)
    <3>1. v.grabbed \subseteq t.grabbed \cup t.mapped
      BY <1>7, <1>10 DEF Shuffles, HalfShuffles
    <3>2. Ptrs(v) \subseteq Ptrs(t) \cup ToSet(t.wlist) \cup L \cup {Nil}
      BY <1>7, <1>10 DEF Shuffles, HalfShuffles
    <3> QED BY <1>7, <1>10, <3>1, <3>2 DEF Shuffles, HalfShuffles
  <2>2. Moves(v, t, {w})
    BY <1>7, <1>10 DEF Moves, Places
  <2> QED BY <1>7, <1>10, <2>1, <2>2
<1>12. CASE w = Nil
  <2>1. u = Give(t, Nil) \/ u = v
    BY <1>4, <1>12 DEF v
  <2>2. HalfShuffles(u, t, L) /\ Moves(u, t, {w}) /\ u.f.screen = Nil
    BY <1>6, <1>11, <2>1
  <2> QED BY <1>5, <2>2 DEF u
<1>13. CASE w # Nil
  <2>1. HalfShuffles(s, s, L) /\ Moves(s, s, {w}) /\ HalfShuffles(t, t, L) /\ Moves(t, t, {w})
    BY <1>2 DEF HalfShuffles, Moves
  <2>2. HalfShuffles(Give(t, w), t, L) /\ Moves(Give(t, w), t, {w})
    BY <1>2, GiveFacts
  <2>3. Moves(noone, t, {w})
    BY <1>9 DEF Moves
  <2>4. u = s \/ u = t \/ u = Give(t, Nil) \/ u = Give(t, w) \/ u = noone
    BY <1>3, <1>13
  <2>5. CASE u = s
    BY <1>13, <2>1, <2>5 DEF u
  <2>6. CASE u = t \/ u = Give(t, Nil) \/ u = Give(t, w) \/ u = noone
    <3>1. HalfShuffles(u, t, L) /\ Moves(u, t, {w})
      BY <1>6, <1>9, <2>1, <2>2, <2>3, <2>6
    <3> QED BY <1>5, <1>13, <3>1 DEF u
  <2> QED BY <2>4, <2>5, <2>6
<1> QED BY <1>12, <1>13

(* set_focus_to_fwin grabs or releases the buttons in the end.             *)
LEMMA SetFacts ==
  ASSUME NEW L \in SUBSET (dying \cap Windows),
         NEW s \in State, Distinct(s.wlist),
         NEW w \in ToSet(s.wlist) \cup L \cup {Nil}, NEW by, NEW flip, NEW noWarp,
         NEW force
  PROVE  LET t == SetFocusTo(s, w, by, flip, noWarp, force)
         IN  /\ Shuffles(t, s, L) /\ Moves(t, s, {w}) /\ Clicks(t, dying)
             /\ w = Nil => t.f.screen = Nil
<1> DEFINE t == TryFocus(s, w, by, flip, noWarp)
           u == GrabButtonsOf(t, {w, t.f.screen})
           r == SetFocusTo(s, w, by, flip, noWarp, force)
<1>1. CASE ~force /\ w = s.f.screen
  <2>1. r = GrabButtons(s, w)
    BY <1>1 DEF SetFocusTo
  <2> HIDE DEF r
  <2>2. Shuffles(r, s, L) /\ Places(r, s) /\ r.f = s.f /\ Clicks(r, dying)
    BY <1>1, <2>1, GrabOne
  <2>3. Moves(r, s, {w})
    BY <2>2 DEF Moves, Places
  <2> QED BY <1>1, <2>2, <2>3 DEF r
<1>2. CASE ~(~force /\ w = s.f.screen)
  <2>1. r = u
    BY <1>2 DEF SetFocusTo
  <2>2. HalfShuffles(t, s, L) /\ Moves(t, s, {w}) /\ (w = Nil => t.f.screen = Nil)
    BY TryFacts
  <2> HIDE DEF t
  <2>3. t \in State /\ Distinct(t.wlist)
    BY <2>2 DEF HalfShuffles
  <2>4. Shuffles(u, t, L) /\ Places(u, t) /\ u.f = t.f /\ Clicks(u, dying)
    BY <2>3, GrabFacts
  <2> HIDE DEF u
  <2>5. Moves(u, s, {w})
    BY <2>2, <2>4 DEF Moves, Places
  <2>6. Shuffles(u, s, L)
    <3>1. u.grabbed \subseteq s.grabbed \cup s.mapped
      BY <2>2, <2>4 DEF Shuffles, HalfShuffles
    <3>2. Ptrs(u) \subseteq Ptrs(s) \cup ToSet(s.wlist) \cup L \cup {Nil}
      BY <2>2, <2>4 DEF Shuffles, HalfShuffles
    <3> QED BY <2>2, <2>4, <3>1, <3>2 DEF Shuffles, HalfShuffles
  <2> QED BY <2>1, <2>2, <2>4, <2>5, <2>6 DEF r
<1> QED BY <1>1, <1>2

LEMMA DeleteFacts ==
  ASSUME NEW L \in SUBSET (dying \cap Windows),
         NEW s \in State, Distinct(s.wlist)
  PROVE  /\ Shuffles(DeleteFocus(s), s, L) /\ Moves(DeleteFocus(s), s, {})
         /\ DeleteFocus(s).f.screen = Nil
<1> DEFINE t == DeleteFocus(s)
           r == SetFocusTo(s, Nil, "force", FALSE, FALSE, FALSE)
<1>0. t = r
  BY DEF DeleteFocus
<1>3. Shuffles(r, s, L) /\ Moves(r, s, {Nil}) /\ r.f.screen = Nil
  <2>1. PICK by, no, w :
          r = SetFocusTo(s, w, by, no, no, no) /\ w = Nil
    BY Zenon DEF r
  <2> HIDE DEF r
  <2>2. w \in ToSet(s.wlist) \cup L \cup {Nil}
    BY <2>1
  <2>3. LET u == SetFocusTo(s, w, by, no, no, no)
        IN  /\ Shuffles(u, s, L) /\ Moves(u, s, {w}) /\ Clicks(u, dying)
            /\ w = Nil => u.f.screen = Nil
    BY <2>2, SetFacts, SMTT(60)
  <2> QED BY <2>1, <2>3
<1> HIDE DEF t, r
<1>1. Shuffles(t, s, L) /\ Moves(t, s, {Nil}) /\ t.f.screen = Nil
  BY <1>0, <1>3
<1>2. Moves(t, s, {})
  BY <1>1 DEF Moves
<1> QED BY <1>1, <1>2 DEF t

LEMMA ForceDeleteFacts ==
  ASSUME NEW L \in SUBSET (dying \cap Windows),
         NEW s \in State, Distinct(s.wlist)
  PROVE  Shuffles(ForceDeleteFocus(s), s, L)
BY SetFacts DEF ForceDeleteFocus

LEMMA SetWindowFacts ==
  ASSUME NEW L \in SUBSET (dying \cap Windows),
         NEW s \in State, Distinct(s.wlist),
         NEW w \in ToSet(s.wlist) \cup L, NEW by
  PROVE  LET t == SetFocusWindow(s, w, by)
         IN  Shuffles(t, s, L) /\ Moves(t, s, {w}) /\ Clicks(t, dying)
BY SetFacts DEF SetFocusWindow

(* The window that gets the focus when w goes away is in the list, and on   *)
(* the desk of w.                                                          *)
LEMMA FirstAtFacts ==
  ASSUME NEW q \in Seq(Windows), NEW at \in SUBSET DOMAIN q, at # {}
  PROVE  \E i \in at : FirstAt(q, at) = q[i]
<1>1. at \in SUBSET Nat
  OBVIOUS
<1>2. \E i \in at : \A j \in at : i <= j
  BY <1>1, NatSetHasMin
<1> QED BY <1>2 DEF FirstAt

LEMMA RestoreFacts ==
  ASSUME NEW L \in SUBSET (dying \cap Windows),
         NEW s \in State, Distinct(s.wlist), NEW w \in Windows, NEW skip
  PROVE  LET t == RestoreFocus(s, w, skip)
         IN  /\ Shuffles(t, s, L) /\ Moves(t, s, ToSet(s.wlist))
             /\ s.f.screen # w => t = s
             /\ s.f.screen = w =>
                  \/ t.f.screen = Nil
                  \/ t.f.screen \in ToSet(s.wlist) /\ s.desk[t.f.screen] = s.desk[w]
             /\ t.f.screen # w
<1> DEFINE p == TransientFor(s, w)
           nexts == {i \in LaterInList(s, w) : /\ s.desk[s.wlist[i]] = s.desk[w]
                                               /\ s.wlist[i] \notin skip}
           to == IF p # Nil
                   THEN IF /\ policy[w].release /\ s.desk[p] = s.desk[w]
                           /\ p \notin skip THEN p ELSE Nil
                   ELSE IF policy[w].release /\ nexts # {} THEN FirstAt(s.wlist, nexts)
                   ELSE Nil
           given == IF to = Nil THEN s ELSE SetFocusWindow(s, to, "force")
           t == RestoreFocus(s, w, skip)
<1>1. t = IF w # s.f.screen THEN s
          ELSE IF given.f.screen = w THEN DeleteFocus(given) ELSE given
  BY DEF RestoreFocus
<1>2. to # Nil => to \in ToSet(s.wlist) /\ s.desk[to] = s.desk[w]
  <2>1. nexts # {} => /\ FirstAt(s.wlist, nexts) \in ToSet(s.wlist)
                      /\ s.desk[FirstAt(s.wlist, nexts)] = s.desk[w]
    <3> SUFFICES ASSUME nexts # {}
                 PROVE  /\ FirstAt(s.wlist, nexts) \in ToSet(s.wlist)
                        /\ s.desk[FirstAt(s.wlist, nexts)] = s.desk[w]
      OBVIOUS
    <3>1. nexts \in SUBSET DOMAIN s.wlist
      BY DEF LaterInList
    <3>2. \A i \in nexts : s.desk[s.wlist[i]] = s.desk[w]
      OBVIOUS
    <3> HIDE DEF nexts
    <3>3. PICK i \in nexts : FirstAt(s.wlist, nexts) = s.wlist[i]
      BY <3>1, FirstAtFacts DEF State
    <3> QED BY <3>1, <3>2, <3>3 DEF ToSet
  <2>2. p # Nil => p \in ToSet(s.wlist)
    BY DEF TransientFor
  <2> HIDE DEF nexts, p
  <2> QED BY <2>1, <2>2
<1> HIDE DEF to, t
<1>3. CASE w # s.f.screen
  <2>1. t = s
    BY <1>1, <1>3
  <2> QED BY <1>3, <2>1 DEF t, Shuffles, Moves
<1>4. CASE w = s.f.screen
  <2> DEFINE W == ToSet(s.wlist)
  <2>1. /\ Shuffles(given, s, L) /\ Moves(given, s, W)
        /\ given.f.screen \in {w, Nil, to}
        /\ to = Nil => given.f.screen = w
    <3>1. CASE to = Nil
      <4>1. given = s
        BY <3>1
      <4> QED BY <1>4, <4>1 DEF Shuffles, Moves
    <3>2. CASE to # Nil
      <4> DEFINE v == SetFocusWindow(s, to, "force")
      <4>1. given = v
        BY <3>2
      <4>2. Shuffles(v, s, L) /\ Moves(v, s, {to})
        BY <1>2, <3>2, SetWindowFacts
      <4> HIDE DEF v, given
      <4>3. Moves(given, s, W) /\ given.f.screen \in {w, Nil, to}
        BY <1>2, <1>4, <3>2, <4>1, <4>2 DEF Moves
      <4> QED BY <3>2, <4>1, <4>2, <4>3
    <3> QED BY <3>1, <3>2
  <2> HIDE DEF given
  <2>2. w # Nil
    OBVIOUS
  <2>3. CASE given.f.screen = w
    <3>1. t = DeleteFocus(given)
      BY <1>1, <1>4, <2>3
    <3>2. given \in State /\ Distinct(given.wlist)
      BY <2>1 DEF Shuffles
    <3>3. Shuffles(t, given, L) /\ Moves(t, given, {}) /\ t.f.screen = Nil
      BY <3>1, <3>2, DeleteFacts
    <3>4. Shuffles(t, s, L)
      BY <2>1, <3>3, ShufflesOn
    <3>5. Moves(t, s, W)
      BY <2>1, <3>3 DEF Moves
    <3> QED BY <1>4, <2>2, <3>3, <3>4, <3>5 DEF t
  <2>4. CASE given.f.screen # w
    <3>1. t = given
      BY <1>1, <1>4, <2>4
    <3>2. t.f.screen = Nil \/ (t.f.screen \in W /\ s.desk[t.f.screen] = s.desk[w])
      BY <1>2, <2>1, <2>4, <3>1
    <3> QED BY <1>4, <2>1, <2>4, <3>1, <3>2 DEF t
  <2> QED BY <2>3, <2>4
<1> QED BY <1>3, <1>4

LEMMA HighlightFacts ==
  ASSUME NEW L \in SUBSET (dying \cap Windows),
         NEW s \in State, Distinct(s.wlist),
         NEW w \in ToSet(s.wlist) \cup Ptrs(s) \cup {Nil}, NEW has
  PROVE  LET t == Highlight(s, w, has)
         IN  /\ Shuffles(t, s, L) /\ t.f.screen = s.f.screen /\ t.desk = s.desk
             /\ Clicks(s, dying) => Clicks(t, dying)
<1> DEFINE t == Highlight(s, w, has)
<1>1. t = s \/ \E x \in {w, Nil} : t = [s EXCEPT !.f.hilite = x]
  BY DEF Highlight
<1> HIDE DEF t
<1>2. CASE t = s
  BY <1>2 DEF t, Shuffles
<1>3. ASSUME NEW x \in {w, Nil}, t = [s EXCEPT !.f.hilite = x]
      PROVE  /\ Shuffles(t, s, L) /\ t.f.screen = s.f.screen /\ t.desk = s.desk
             /\ Clicks(s, dying) => Clicks(t, dying)
  <2> DEFINE f == [s.f EXCEPT !.hilite = x]
  <2>1. x \in Windows \cup {Nil}
    BY DEF State, FocusType, ToSet, Ptrs
  <2>2. /\ f \in FocusType /\ f.screen = s.f.screen /\ f.requested = s.f.requested
        /\ f.last = s.f.last /\ f.hilite = x
        /\ f.pending = s.f.pending /\ f.stolen = s.f.stolen
    BY <2>1 DEF State, FocusType
  <2>3. t = [s EXCEPT !.f = f]
    BY <1>3 DEF State
  <2> HIDE DEF f
  <2>4. Focuses(t, s, f)
    BY <2>2, <2>3, Refocus DEF Focuses
  <2>5. HalfShuffles(t, s, L)
    BY <2>2, <2>4, FocusesHalf DEF Ptrs
  <2>6. Clicks(s, dying) => Clicks(t, dying)
    BY <2>2, <2>4 DEF Focuses, Clicks
  <2> QED BY <2>2, <2>4, <2>5, <2>6 DEF Focuses, HalfShuffles, Shuffles
<1> QED BY <1>1, <1>2, <1>3 DEF t

(* An assignment to pointers only, of listed windows or other pointers     *)
LEMMA PointersSet ==
  ASSUME NEW L \in SUBSET (dying \cap Windows),
         NEW s \in State, Distinct(s.wlist), NEW f \in FocusType,
         {f.screen, f.last, f.hilite, f.requested, f.pending, f.stolen}
           \subseteq Ptrs(s) \cup ToSet(s.wlist) \cup L \cup {Nil}
  PROVE  LET t == [s EXCEPT !.f = f]
         IN  /\ HalfShuffles(t, s, L) /\ Focuses(t, s, f)
             /\ f.screen = s.f.screen => Shuffles(t, s, L)
<1> DEFINE t == [s EXCEPT !.f = f]
<1>1. Focuses(t, s, f)
  BY Refocus DEF Focuses
<1> HIDE DEF t
<1>2. HalfShuffles(t, s, L)
  BY <1>1, FocusesHalf
<1>3. ASSUME f.screen = s.f.screen PROVE Shuffles(t, s, L)
  BY <1>1, <1>2, <1>3 DEF Focuses, HalfShuffles, Shuffles, Clicks
<1> QED BY <1>1, <1>2, <1>3 DEF t

(* HandleFocusIn for a window of mvwm                                      *)
LEMMA ManagedFacts ==
  ASSUME NEW L \in SUBSET (dying \cap Windows),
         NEW s \in State, Distinct(s.wlist),
         NEW w \in ToSet(s.wlist) \cup Ptrs(s) \cup L, w # Nil, NEW draw
  PROVE  Shuffles(FocusInManaged(s, w, draw), s, L)
<1> DEFINE h == IF UserFocus(w) THEN w ELSE s.f.hilite
           f == [s.f EXCEPT !.hilite = h, !.stolen = s.f.screen, !.screen = w]
           t == [s EXCEPT !.f = f]
           g == GrabButtonsOf(t, {w, s.f.screen})
           r == FocusInManaged(s, w, draw)
<1>1. w \in Windows /\ h \in Windows \cup {Nil}
  BY DEF State, FocusType, ToSet, Ptrs
<1>3. h \in {w, s.f.hilite}
  OBVIOUS
<1> HIDE DEF h
<1>2. /\ f \in FocusType /\ f.screen = w /\ f.requested = s.f.requested
      /\ f.last = s.f.last /\ f.hilite = h
      /\ f.pending = s.f.pending /\ f.stolen = s.f.screen
  BY <1>1 DEF State, FocusType
<1>4. r = s \/ (w = s.f.screen /\ r = t) \/ r = g
  <2> DEFINE lit == IF UserFocus(w) THEN [s EXCEPT !.f.hilite = w] ELSE s
             u == [lit EXCEPT !.f.stolen = s.f.screen, !.f.screen = w]
  <2>1. u = t
    BY ZenonT(60) DEF State, FocusType, h
  <2>2. r = s \/ (w = s.f.screen /\ r = u) \/ r = GrabButtonsOf(u, {w, s.f.screen})
    BY DEF FocusInManaged
  <2> HIDE DEF u, t, r
  <2> QED BY <2>1, <2>2
<1> HIDE DEF f, r
<1>5. /\ HalfShuffles(t, s, L) /\ Focuses(t, s, f)
      /\ f.screen = s.f.screen => Shuffles(t, s, L)
  BY <1>2, <1>3, PointersSet DEF Ptrs
<1> HIDE DEF t
<1>6. /\ Shuffles(g, t, L) /\ Clicks(g, dying)
  BY <1>2, <1>5, GrabFacts DEF Focuses, HalfShuffles
<1> HIDE DEF g
<1>7. Shuffles(g, s, L)
  <2>1. g.grabbed \subseteq s.grabbed \cup s.mapped
    BY <1>5, <1>6 DEF Shuffles, HalfShuffles
  <2>2. Ptrs(g) \subseteq Ptrs(s) \cup ToSet(s.wlist) \cup L \cup {Nil}
    BY <1>5, <1>6 DEF Shuffles, HalfShuffles
  <2> QED BY <1>5, <1>6, <2>1, <2>2 DEF Shuffles, HalfShuffles
<1>8. Shuffles(s, s, L)
  BY DEF Shuffles
<1> QED BY <1>2, <1>4, <1>5, <1>7, <1>8 DEF r

LEMMA UnmanagedFacts ==
  ASSUME NEW L \in SUBSET (dying \cap Windows),
         NEW s \in State, Distinct(s.wlist), NEW isNoFocusWin
  PROVE  Shuffles(FocusInUnmanaged(s, isNoFocusWin), s, L)
<1> DEFINE f == IF isNoFocusWin THEN [s.f EXCEPT !.hilite = Nil]
                ELSE [s.f EXCEPT !.unknown = TRUE, !.stolen = s.f.screen,
                                 !.hilite = Nil]
           r == FocusInUnmanaged(s, isNoFocusWin)
<1>1. /\ f \in FocusType /\ f.screen = s.f.screen
      /\ {f.screen, f.last, f.hilite, f.requested, f.pending, f.stolen}
           \subseteq Ptrs(s) \cup ToSet(s.wlist) \cup {Nil}
  BY DEF State, FocusType, Ptrs
<1>2. r = [s EXCEPT !.f = f]
  BY DEF FocusInUnmanaged, State, FocusType
<1> HIDE DEF f, r
<1> QED BY <1>1, <1>2, PointersSet DEF r

(* __refocus_stolen_focus_win                                              *)
LEMMA StolenFacts ==
  ASSUME NEW L \in SUBSET (dying \cap Windows),
         NEW s \in State, Distinct(s.wlist), NEW draw
  PROVE  Shuffles(RefocusStolen(s, draw), s, L)
<1> DEFINE w == s.f.stolen
           f(p) == [s.f EXCEPT !.requested = w, !.unknown = FALSE,
                               !.stolen = Nil, !.pending = p]
           t(p) == [s EXCEPT !.f = f(p)]
           r == RefocusStolen(s, draw)
<1>1. ASSUME NEW p \in {Nil, s.f.pending}
      PROVE  Shuffles(t(p), s, L) /\ t(p).f.requested = w
  <2>1. /\ f(p) \in FocusType /\ f(p).screen = s.f.screen /\ f(p).requested = w
        /\ {f(p).screen, f(p).last, f(p).hilite, f(p).requested, f(p).pending,
            f(p).stolen} \subseteq Ptrs(s) \cup ToSet(s.wlist) \cup {Nil}
    BY DEF State, FocusType, Ptrs
  <2> HIDE DEF f
  <2>2. Shuffles(t(p), s, L) /\ Focuses(t(p), s, f(p))
    BY <2>1, PointersSet
  <2> QED BY <2>1, <2>2 DEF Focuses
<1>2. \/ r = t(Nil) \/ r = t(s.f.pending)
      \/ w # Nil /\ r = FocusInManaged(t(Nil), w, draw)
  <2> DEFINE u == [s EXCEPT !.f.requested = w, !.f.unknown = FALSE, !.f.stolen = Nil]
             v == [u EXCEPT !.f.pending = Nil]
  <2>1. u = t(s.f.pending)
    BY ZenonT(60) DEF State, FocusType
  <2>2. v = t(Nil)
    BY ZenonT(60) DEF State, FocusType
  <2>3. r = v \/ r = u \/ (w # Nil /\ r = FocusInManaged(v, w, draw))
    BY DEF RefocusStolen
  <2> HIDE DEF u, v, t, r
  <2> QED BY <2>1, <2>2, <2>3
<1> HIDE DEF t, r
<1>3. w # Nil => Shuffles(FocusInManaged(t(Nil), w, draw), t(Nil), L)
  <2>1. Shuffles(t(Nil), s, L) /\ w \in Ptrs(t(Nil))
    BY <1>1 DEF Ptrs
  <2> QED BY <2>1, ManagedFacts DEF Shuffles
<1>4. w # Nil => Shuffles(FocusInManaged(t(Nil), w, draw), s, L)
  BY <1>1, <1>3, ShufflesOn
<1> QED BY <1>1, <1>2, <1>4 DEF r

(* HandleFocusIn *)
LEMMA FocusInFacts ==
  ASSUME NEW L \in SUBSET (dying \cap Windows),
         NEW s \in State, Distinct(s.wlist), NEW w \in ToSet(s.wlist) \cup L, NEW draw
  PROVE  Shuffles(FocusInWindow(s, w, draw), s, L)
<1> DEFINE f(x) == [s.f EXCEPT !.pending = Nil, !.unknown = FALSE, !.requested = x]
           t(x) == [s EXCEPT !.f = f(x)]
           r == FocusInWindow(s, w, draw)
<1>1. ASSUME NEW x \in {Nil, s.f.requested}
      PROVE  Shuffles(t(x), s, L)
  <2>1. /\ f(x) \in FocusType /\ f(x).screen = s.f.screen
        /\ {f(x).screen, f(x).last, f(x).hilite, f(x).requested, f(x).pending,
            f(x).stolen} \subseteq Ptrs(s) \cup ToSet(s.wlist) \cup {Nil}
    BY DEF State, FocusType, Ptrs
  <2> HIDE DEF f
  <2> QED BY <2>1, PointersSet
<1>2. \/ r = RefocusStolen(t(Nil), draw)
      \/ r = FocusInManaged(t(s.f.requested), w, draw)
  <2> DEFINE u == [s EXCEPT !.f.pending = Nil, !.f.unknown = FALSE]
             v == [u EXCEPT !.f.requested = Nil]
  <2>1. u = t(s.f.requested)
    BY ZenonT(60) DEF State, FocusType
  <2>3. v = t(Nil)
    BY ZenonT(60) DEF State, FocusType
  <2>2. r = RefocusStolen(v, draw) \/ r = FocusInManaged(u, w, draw)
    BY DEF FocusInWindow
  <2> HIDE DEF u, v, t, r
  <2> QED BY <2>1, <2>2, <2>3
<1> HIDE DEF t, r
<1>3. w # Nil
  <2>1. w \in ToSet(s.wlist) => w \in Windows
    BY DEF State, ToSet
  <2> QED BY <2>1
<1>4. Shuffles(RefocusStolen(t(Nil), draw), s, L)
  <2>1. Shuffles(t(Nil), s, L)
    BY <1>1
  <2>2. Shuffles(RefocusStolen(t(Nil), draw), t(Nil), L)
    BY <2>1, StolenFacts DEF Shuffles
  <2> QED BY <2>1, <2>2, ShufflesOn
<1>5. Shuffles(FocusInManaged(t(s.f.requested), w, draw), s, L)
  <2>1. Shuffles(t(s.f.requested), s, L)
    BY <1>1
  <2>2. Shuffles(FocusInManaged(t(s.f.requested), w, draw), t(s.f.requested), L)
    BY <1>3, <2>1, ManagedFacts DEF Shuffles
  <2> QED BY <2>1, <2>2, ShufflesOn
<1> QED BY <1>2, <1>4, <1>5 DEF r

-----------------------------------------------------------------------------
(* Desks *)

LEMMA LastOf ==
  ASSUME NEW n \in Nat, NEW at \in SUBSET (1 .. n), at # {}
  PROVE  \E i \in at : \A j \in at : j <= i
<1> DEFINE T == {n - i : i \in at}
<1>1. T \in SUBSET Nat /\ T # {}
  <2>1. \A i \in at : n - i \in Nat
    OBVIOUS
  <2>2. PICK i \in at : TRUE
    OBVIOUS
  <2>3. n - i \in T
    OBVIOUS
  <2>4. T \in SUBSET Nat
    BY <2>1
  <2> QED BY <2>3, <2>4
<1>2. PICK m \in T : \A k \in T : m <= k
  BY <1>1, NatSetHasMin
<1>3. PICK i \in at : m = n - i
  OBVIOUS
<1>4. ASSUME NEW j \in at PROVE j <= i
  <2>1. m <= n - j
    BY <1>2
  <2> QED BY <1>3, <2>1
<1> QED BY <1>4

(* Other fields than the list, the grabs and the focus may change freely.  *)
LEMMA OtherFields ==
  ASSUME NEW L \in SUBSET (dying \cap Windows),
         NEW s, Distinct(s.wlist), NEW t \in State, t.wlist = s.wlist,
         t.mapped = s.mapped, t.iconic = s.iconic, t.desk = s.desk,
         t.grabbed = s.grabbed, t.f = s.f
  PROVE  Shuffles(t, s, L)
BY DEF Shuffles, Ptrs, Clicks

LEMMA LeaveDeskFacts ==
  ASSUME NEW L \in SUBSET (dying \cap Windows),
         NEW s \in State, Distinct(s.wlist)
  PROVE  Shuffles(LeaveDesk(s), s, L)
<1> DEFINE on == {w \in ToSet(s.wlist) : s.desk[w] = s.current}
           a == [w \in Windows |->
                    IF w \notin on THEN s.away[w]
                    ELSE IF w = s.f.screen THEN s.current ELSE Nil]
           t == [s EXCEPT !.away = a]
           r == LeaveDesk(s)
<1>1. r = t \/ r = DeleteFocus(t)
  <2> DEFINE u == [s EXCEPT !.away = [w \in Windows |->
                    IF w \notin on THEN @[w]
                    ELSE IF w = s.f.screen THEN s.current ELSE Nil]]
  <2>1. r = u \/ r = DeleteFocus(u)
    BY DEF LeaveDesk
  <2>2. u = t
    BY DEF State
  <2> HIDE DEF u, t, r
  <2> QED BY <2>1, <2>2
<1>2. a \in [Windows -> Desks \cup {Nil}]
  BY DEF State
<1> HIDE DEF a, r
<1>3. t \in State /\ t.wlist = s.wlist /\ t.mapped = s.mapped /\ t.iconic = s.iconic
      /\ t.desk = s.desk /\ t.grabbed = s.grabbed /\ t.f = s.f
  BY <1>2 DEF State
<1> HIDE DEF t
<1>4. Shuffles(t, s, L)
  BY <1>3, OtherFields
<1>5. Shuffles(DeleteFocus(t), s, L)
  BY <1>3, <1>4, DeleteFacts, ShufflesOn
<1> QED BY <1>1, <1>4, <1>5 DEF r

LEMMA EnterDeskFacts ==
  ASSUME NEW L \in SUBSET (dying \cap Windows),
         NEW s \in State, Distinct(s.wlist), NEW d \in Desks
  PROVE  Shuffles(EnterDesk(s, d), s, L)
<1> DEFINE back == {i \in DOMAIN s.wlist : s.away[s.wlist[i]] = d}
           w == s.wlist[CHOOSE i \in back : \A j \in back : j <= i]
           there == {x \in ToSet(s.wlist) : s.desk[x] = d /\ x \notin s.iconic}
           a == [x \in Windows |->
                   IF x \in ToSet(s.wlist) /\ s.away[x] = d THEN Nil ELSE s.away[x]]
           h == IF s.f.screen \in there THEN s.f.screen
                ELSE IF s.f.hilite \in there THEN Nil ELSE s.f.hilite
           f == [s.f EXCEPT !.hilite = h]
           t == [s EXCEPT !.current = d, !.away = a]
           lit == [t EXCEPT !.f = f]
           r == EnterDesk(s, d)
<1>1. r = lit \/ (back # {} /\ r = ReturnFocusWindow(lit, w)) \/ r = DeleteFocus(lit)
  <2> DEFINE u == [s EXCEPT !.current = d,
                       !.away = [x \in Windows |->
                         IF x \in ToSet(s.wlist) /\ @[x] = d THEN Nil ELSE @[x]],
                       !.f.hilite = IF s.f.screen \in there THEN s.f.screen
                                    ELSE IF @ \in there THEN Nil ELSE @]
  <2>1. r = u \/ (back # {} /\ r = ReturnFocusWindow(u, w)) \/ r = DeleteFocus(u)
    BY DEF EnterDesk
  <2>2. u = lit
    <3>1. u = [s EXCEPT !.current = d, !.away = a, !.f = f]
      <4> HIDE DEF there
      <4> QED BY DEF State, FocusType
    <3> HIDE DEF a, f, u
    <3> QED BY <3>1 DEF State
  <2> HIDE DEF u, lit, r, back, w
  <2> QED BY <2>1, <2>2
<1>2. a \in [Windows -> Desks \cup {Nil}]
  BY DEF State
<1>3. h \in {s.f.screen, s.f.hilite, Nil}
  OBVIOUS
<1> HIDE DEF a, h, r, there
<1>4. t \in State /\ t.wlist = s.wlist /\ t.mapped = s.mapped /\ t.iconic = s.iconic
      /\ t.desk = s.desk /\ t.grabbed = s.grabbed /\ t.f = s.f
  BY <1>2 DEF State
<1> HIDE DEF t
<1>5. Shuffles(t, s, L)
  BY <1>4, OtherFields
<1>6. /\ f \in FocusType /\ f.screen = s.f.screen
      /\ {f.screen, f.last, f.hilite, f.requested, f.pending, f.stolen}
           \subseteq Ptrs(t) \cup ToSet(t.wlist) \cup {Nil}
  BY <1>3, <1>4 DEF State, FocusType, Ptrs
<1> HIDE DEF f
<1>7. Shuffles(lit, s, L)
  <2>1. Shuffles(lit, t, L)
    BY <1>4, <1>6, PointersSet
  <2> QED BY <1>5, <2>1, ShufflesOn
<1> HIDE DEF lit
<1>8. back # {} => w \in ToSet(s.wlist)
  <2>1. /\ back \in SUBSET (1 .. Len(s.wlist)) /\ Len(s.wlist) \in Nat
        /\ DOMAIN s.wlist = 1 .. Len(s.wlist)
    BY DEF State
  <2> HIDE DEF back
  <2>2. back # {} => \E i \in back : \A j \in back : j <= i
    BY <2>1, LastOf
  <2> QED BY <2>1, <2>2 DEF ToSet
<1> HIDE DEF w, back
<1>9. lit \in State /\ Distinct(lit.wlist) /\ ToSet(lit.wlist) = ToSet(s.wlist)
  BY <1>7 DEF Shuffles
<1>10. back # {} => Shuffles(ReturnFocusWindow(lit, w), lit, L)
  BY <1>8, <1>9, SetFacts DEF ReturnFocusWindow
<1>11. Shuffles(DeleteFocus(lit), lit, L)
  BY <1>9, DeleteFacts
<1> QED BY <1>1, <1>7, <1>10, <1>11, ShufflesOn DEF r

LEMMA GotoFacts ==
  ASSUME NEW L \in SUBSET (dying \cap Windows),
         NEW s \in State, Distinct(s.wlist), NEW d \in Desks
  PROVE  Shuffles(Goto(s, d), s, L)
<1> DEFINE l == LeaveDesk(s)
           e == EnterDesk(l, d)
           g == GrabButtonsAll(e)
<1>1. Shuffles(l, s, L)
  BY LeaveDeskFacts
<1>2. l \in State /\ Distinct(l.wlist)
  BY <1>1 DEF Shuffles
<1> HIDE DEF l
<1>3. Shuffles(e, l, L)
  BY <1>2, EnterDeskFacts
<1>4. e \in State /\ Distinct(e.wlist)
  BY <1>3 DEF Shuffles
<1> HIDE DEF e
<1>5. Shuffles(g, e, L)
  BY <1>4, GrabAll
<1>6. Shuffles(g, s, L)
  <2>1. Shuffles(e, s, L)
    BY <1>1, <1>3, ShufflesOn
  <2> QED BY <1>5, <2>1, ShufflesOn
<1>7. Shuffles(s, s, L)
  BY DEF Shuffles
<1>8. Goto(s, d) = s \/ Goto(s, d) = g
  BY DEF Goto, l, e
<1> QED BY <1>6, <1>7, <1>8

-----------------------------------------------------------------------------
(* Windows go away *)

(* adjust_mvwm_internal_windows for a window that is not in the list any    *)
(* more: no pointer is left to it.                                         *)
LEMMA AdjustFacts ==
  ASSUME NEW L \in SUBSET (dying \cap Windows),
         NEW s \in State, Distinct(s.wlist), NEW w \in Windows,
         w \notin ToSet(s.wlist)
  PROVE  LET t == AdjustInternal(s, w)
         IN  /\ Shuffles(t, s, L) /\ t.desk = s.desk /\ w \notin Ptrs(t)
             /\ s.f.screen # w => t.f.screen = s.f.screen
             /\ s.f.screen = w => \/ t.f.screen = Nil
                                  \/ /\ t.f.screen \in ToSet(s.wlist)
                                     /\ s.desk[t.f.screen] = s.desk[w]
<1> DEFINE h == IF s.f.hilite = w THEN Nil ELSE s.f.hilite
           l == IF s.f.last = w THEN Nil ELSE s.f.last
           fl == [s.f EXCEPT !.hilite = h, !.last = l]
           lit == [s EXCEPT !.f = fl]
           r == RestoreFocus(lit, w, {})
           st == IF r.f.stolen = w THEN Nil ELSE r.f.stolen
           pe == IF r.f.pending = w THEN Nil ELSE r.f.pending
           re == IF r.f.requested = w THEN Nil ELSE r.f.requested
           f == [r.f EXCEPT !.stolen = st, !.pending = pe, !.requested = re]
           u == [r EXCEPT !.f = f]
           t == AdjustInternal(s, w)
<1>1. w # Nil
  OBVIOUS
<1>2. h \in {Nil, s.f.hilite} /\ l \in {Nil, s.f.last} /\ h # w /\ l # w
  BY <1>1
<1> HIDE DEF h, l
<1>3. /\ fl \in FocusType /\ fl.screen = s.f.screen /\ fl.hilite = h /\ fl.last = l
      /\ {fl.screen, fl.last, fl.hilite, fl.requested, fl.pending, fl.stolen}
           \subseteq Ptrs(s) \cup ToSet(s.wlist) \cup {Nil}
  BY <1>2 DEF State, FocusType, Ptrs
<1>4. [s EXCEPT !.f.hilite = IF @ = w THEN Nil ELSE @,
                !.f.last = IF @ = w THEN Nil ELSE @] = lit
  BY DEF State, FocusType, h, l
<1> HIDE DEF fl
<1>5. Shuffles(lit, s, L) /\ Focuses(lit, s, fl)
  BY <1>3, PointersSet
<1>6. lit \in State /\ Distinct(lit.wlist) /\ ToSet(lit.wlist) = ToSet(s.wlist)
  BY <1>5 DEF Shuffles
<1>7. t = [r EXCEPT !.f = [p \in DOMAIN r.f |->
             IF p \in {"stolen", "pending", "requested"} /\ r.f[p] = w
               THEN Nil ELSE r.f[p]]]
  <2> DEFINE raw == [s EXCEPT !.f.hilite = IF @ = w THEN Nil ELSE @,
                              !.f.last = IF @ = w THEN Nil ELSE @]
             g == RestoreFocus(raw, w, {})
  <2>1. t = [g EXCEPT !.f = [p \in DOMAIN g.f |->
               IF p \in {"stolen", "pending", "requested"} /\ g.f[p] = w
                 THEN Nil ELSE g.f[p]]]
    BY DEF AdjustInternal
  <2>2. raw = lit
    BY <1>4
  <2> HIDE DEF raw, lit, t
  <2>3. g = r
    BY <2>2
  <2> HIDE DEF g, r
  <2> QED BY <2>1, <2>3
<1> HIDE DEF lit, t
<1>8. /\ Shuffles(r, lit, L) /\ Moves(r, lit, ToSet(lit.wlist))
      /\ lit.f.screen # w => r = lit
      /\ lit.f.screen = w =>
           \/ r.f.screen = Nil
           \/ r.f.screen \in ToSet(lit.wlist) /\ lit.desk[r.f.screen] = lit.desk[w]
      /\ r.f.screen # w
  BY <1>6, RestoreFacts
<1> HIDE DEF r
<1>9. r \in State /\ Distinct(r.wlist) /\ Shuffles(r, s, L) /\ r.desk = s.desk
  BY <1>5, <1>8, ShufflesOn DEF Shuffles, Moves, Focuses
<1>10. r.f.hilite # w /\ r.f.last # w
  BY <1>2, <1>3, <1>5, <1>8 DEF Moves, Focuses
<1>11. /\ f \in FocusType /\ f.screen = r.f.screen
       /\ f.hilite = r.f.hilite /\ f.last = r.f.last
       /\ f.stolen \in {Nil, r.f.stolen} \ {w}
       /\ f.pending \in {Nil, r.f.pending} \ {w}
       /\ f.requested \in {Nil, r.f.requested} \ {w}
  <2>1. /\ st \in {Nil, r.f.stolen} \ {w} /\ pe \in {Nil, r.f.pending} \ {w}
        /\ re \in {Nil, r.f.requested} \ {w}
    BY <1>1
  <2> HIDE DEF st, pe, re
  <2> QED BY <1>9, <2>1, ZenonT(60) DEF State, FocusType
<1>12. t = u
  <2>1. [p \in DOMAIN r.f |->
             IF p \in {"stolen", "pending", "requested"} /\ r.f[p] = w
               THEN Nil ELSE r.f[p]] = f
    BY <1>9 DEF State, FocusType
  <2> QED BY <1>7, <2>1
<1> HIDE DEF f
<1>13. Shuffles(u, r, L) /\ Focuses(u, r, f)
  BY <1>9, <1>11, PointersSet DEF Ptrs
<1>14. Shuffles(t, s, L)
  BY <1>9, <1>12, <1>13, ShufflesOn
<1>15. t.desk = s.desk /\ t.f = f
  BY <1>9, <1>12, <1>13 DEF Focuses
<1>16. w \notin Ptrs(t)
  BY <1>8, <1>10, <1>11, <1>15 DEF Ptrs
<1>17. t.f.screen = r.f.screen /\ lit.f.screen = s.f.screen /\ lit.desk = s.desk
  BY <1>3, <1>5, <1>11, <1>15 DEF Focuses
<1> QED BY <1>6, <1>8, <1>14, <1>15, <1>16, <1>17 DEF t

LEMMA ForgetFacts ==
  ASSUME NEW s \in State, NEW W
  PROVE  LET t == Forget(s, W)
         IN  /\ t \in State /\ t.wlist = s.wlist /\ t.f = s.f
             /\ t.mapped = s.mapped \ W /\ t.iconic = s.iconic \ W
             /\ t.grabbed = s.grabbed \ W
             /\ \A x \in Windows \ W : t.desk[x] = s.desk[x]
<1> DEFINE de == [w \in Windows |-> IF w \in W THEN Nil ELSE s.desk[w]]
           aw == [w \in Windows |-> IF w \in W THEN Nil ELSE s.away[w]]
           t == Forget(s, W)
<1>1. de \in [Windows -> Desks \cup {Nil}] /\ aw \in [Windows -> Desks \cup {Nil}]
  BY DEF State
<1>2. \A x \in Windows \ W : de[x] = s.desk[x]
  OBVIOUS
<1>3. t = [s EXCEPT !.mapped = s.mapped \ W, !.iconic = s.iconic \ W,
                    !.grabbed = s.grabbed \ W, !.desk = de, !.away = aw]
  BY DEF Forget, State
<1> HIDE DEF de, aw, t
<1>4. /\ t \in State /\ t.wlist = s.wlist /\ t.f = s.f
      /\ t.mapped = s.mapped \ W /\ t.iconic = s.iconic \ W
      /\ t.grabbed = s.grabbed \ W /\ t.desk = de
  BY <1>1, <1>3 DEF State
<1> QED BY <1>2, <1>4 DEF t

(* The state after a step *)
LEMMA NextState ==
  ASSUME NEW t \in State, Becomes(t)
  PROVE  S' = t /\ Live' = ToSet(t.wlist)
<1>1. S' = [wlist |-> t.wlist, iconic |-> t.iconic, mapped |-> t.mapped,
            desk |-> t.desk, current |-> t.current, away |-> t.away,
            grabbed |-> t.grabbed, f |-> t.f]
  BY DEF Becomes, S
<1>2. t = [wlist |-> t.wlist, iconic |-> t.iconic, mapped |-> t.mapped,
           desk |-> t.desk, current |-> t.current, away |-> t.away,
           grabbed |-> t.grabbed, f |-> t.f]
  BY DEF State
<1>3. Live' = ToSet(t.wlist)
  BY DEF Becomes, Live
<1> QED BY <1>1, <1>2, <1>3

(* A step that ends in a good state                                        *)
LEMMA Reached ==
  ASSUME NEW L \in SUBSET Windows, NEW t, Good(t, dying', L), S' = t,
         Live' = ToSet(t.wlist), busy' \in BOOLEAN,
         mapping' \subseteq Live', follow' \subseteq Live'
  PROVE  Holds(L)
<1>1. ToSet(t.wlist) \subseteq Windows
  BY DEF Good, State, ToSet
<1>2. Good(t, dying', Windows)
  BY <1>1 DEF Good
<1> QED BY <1>1, <1>2 DEF Holds, IInv, Good

(* destroy_window from a state that has the windows of S                    *)
LEMMA DestroyKeeps ==
  ASSUME IInv, NEW L \in SUBSET (dying \cap Windows), Points(L),
         NEW s, Good(s, dying, L), ToSet(s.wlist) = Live, NEW w \in Live,
         DestroyFrom(s, w), busy' = busy
  PROVE  /\ Holds(L)
         /\ \A x \in Windows \ {w} : desk'[x] = s.desk[x]
         /\ s.f.screen # w => focus'.screen = s.f.screen
         /\ s.f.screen = w => \/ focus'.screen = Nil
                              \/ /\ focus'.screen \in Live \ {w}
                                 /\ s.desk[focus'.screen] = s.desk[w]
<1> DEFINE l == Without(s.wlist, w)
           out == [s EXCEPT !.wlist = l]
           a == AdjustInternal(out, w)
           t == GrabButtonsAll(a)
           v == Forget(t, {w})
<1>1. s \in State /\ Distinct(s.wlist) /\ s.wlist \in Seq(Windows) /\ w \in Windows
  BY DEF Good, State, ToSet, Live
<1>2. l \in Seq(Windows) /\ Distinct(l) /\ ToSet(l) = Live \ {w}
  BY <1>1, WithoutFacts
<1>3. /\ Becomes(IF busy THEN t ELSE v)
      /\ dying' = IF busy THEN dying \cup {w} ELSE dying
      /\ mapping' = mapping \ {w} /\ follow' = follow \ {w}
  BY DEF DestroyFrom
<1> HIDE DEF l
<1>4. /\ out \in State /\ out.wlist = l /\ out.mapped = s.mapped
      /\ out.iconic = s.iconic /\ out.desk = s.desk
      /\ out.f = s.f /\ out.grabbed = s.grabbed
  BY <1>1, <1>2 DEF State
<1> HIDE DEF out
<1>5. /\ Shuffles(a, out, L) /\ a.desk = out.desk /\ w \notin Ptrs(a)
      /\ out.f.screen # w => a.f.screen = out.f.screen
      /\ out.f.screen = w => \/ a.f.screen = Nil
                             \/ /\ a.f.screen \in ToSet(out.wlist)
                                /\ out.desk[a.f.screen] = out.desk[w]
  <2>1. out \in State /\ Distinct(out.wlist) /\ w \notin ToSet(out.wlist)
    BY <1>2, <1>4
  <2> QED BY <1>1, <2>1, AdjustFacts
<1> HIDE DEF a
<1>6. a \in State /\ Distinct(a.wlist) /\ ToSet(a.wlist) = Live \ {w}
  BY <1>2, <1>4, <1>5 DEF Shuffles
<1>7. Shuffles(t, a, L) /\ Places(t, a) /\ t.f = a.f
  BY <1>6, GrabAll
<1> HIDE DEF t
<1>8. Shuffles(t, out, L)
  BY <1>5, <1>7, ShufflesOn
<1>9. /\ t \in State /\ Distinct(t.wlist) /\ ToSet(t.wlist) = Live \ {w}
      /\ t.desk = s.desk /\ w \notin Ptrs(t) /\ t.f = a.f
  BY <1>4, <1>5, <1>6, <1>7 DEF Shuffles, Places, Ptrs
<1>10. /\ t.mapped \cup t.iconic \cup t.grabbed \subseteq Live \cup dying
       /\ Ptrs(t) \subseteq (Live \ {w}) \cup L \cup {Nil}
       /\ Clicks(t, dying)
  <2>1. t.mapped \cup t.iconic \cup t.grabbed \subseteq Live \cup dying
    BY <1>4, <1>8 DEF Shuffles, Good
  <2>2. Ptrs(out) = Ptrs(s) /\ Clicks(out, dying)
    BY <1>4 DEF Ptrs, Clicks, Good
  <2>3. Ptrs(t) \subseteq Live \cup L \cup {Nil}
    BY <1>2, <1>4, <1>8, <2>2 DEF Shuffles, Good
  <2> QED BY <1>8, <1>9, <2>1, <2>2, <2>3 DEF Shuffles
<1>11. dying \subseteq Windows /\ Live \cap dying = {} /\ mapping \subseteq Live /\ follow \subseteq Live
  BY DEF IInv, Good, S, Live
<1>12. CASE busy
  <2>1. S' = t /\ Live' = Live \ {w}
    BY <1>3, <1>9, <1>12, NextState
  <2>2. Good(t, dying \cup {w}, L)
    BY <1>1, <1>9, <1>10, <1>11 DEF Good, Clicks
  <2>3. Holds(L)
    BY <1>3, <1>9, <1>11, <1>12, <2>1, <2>2, Reached DEF IInv
  <2>4. desk' = s.desk /\ focus' = t.f
    BY <1>3, <1>9, <1>12 DEF Becomes
  <2> QED BY <1>2, <1>4, <1>5, <1>9, <2>3, <2>4
<1>13. CASE ~busy
  <2>1. /\ v \in State /\ v.wlist = t.wlist /\ v.f = t.f
        /\ v.mapped = t.mapped \ {w} /\ v.iconic = t.iconic \ {w}
        /\ v.grabbed = t.grabbed \ {w}
        /\ \A x \in Windows \ {w} : v.desk[x] = t.desk[x]
    BY <1>9, ForgetFacts
  <2> HIDE DEF v
  <2>2. S' = v /\ Live' = Live \ {w}
    BY <1>3, <1>9, <1>13, <2>1, NextState
  <2>3. Good(v, dying, L)
    <3>1. \A x \in ToSet(v.wlist) \cup dying : v.desk[x] \in Desks
      <4>1. \A x \in ToSet(v.wlist) \cup dying : x \in Windows /\ x # w
        BY <1>9, <1>11, <2>1 DEF State, ToSet
      <4> QED BY <1>9, <2>1, <4>1 DEF Good
    <3>2. Ptrs(v) = Ptrs(t) /\ (Clicks(t, dying) => Clicks(v, dying))
      BY <2>1 DEF Ptrs, Clicks
    <3> QED BY <1>9, <1>10, <1>11, <2>1, <3>1, <3>2 DEF Good
  <2>4. Holds(L)
    BY <1>3, <1>9, <1>11, <1>13, <2>1, <2>2, <2>3, Reached DEF IInv
  <2>5. desk' = v.desk /\ focus' = t.f
    BY <1>3, <1>13, <2>1 DEF Becomes
  <2> QED BY <1>2, <1>4, <1>5, <1>9, <2>1, <2>4, <2>5
<1> QED BY <1>12, <1>13

-----------------------------------------------------------------------------
(* The steps *)

(* An action that shuffles                                                 *)
LEMMA ShufflingStep ==
  ASSUME IInv, NEW L \in SUBSET (dying \cap Windows),
         NEW s, Good(s, dying, L), ToSet(s.wlist) = Live,
         NEW t, Shuffles(t, s, L), Becomes(t),
         UNCHANGED <<dying, busy, mapping, follow>>
  PROVE  Holds(L) /\ Live' = Live
<1>1. Good(t, dying, L) /\ ToSet(t.wlist) = Live
  BY GoodKept
<1>2. S' = t /\ Live' = Live
  BY <1>1, NextState DEF Good
<1> QED BY <1>1, <1>2, Reached DEF IInv

LEMMA Start ==
  ASSUME IInv, NEW L \in SUBSET (dying \cap Windows), Points(L)
  PROVE  /\ S \in State /\ Distinct(S.wlist) /\ ToSet(S.wlist) = Live
         /\ S.mapped = mapped /\ S.iconic = iconic /\ S.desk = desk
         /\ S.current = current /\ S.f = focus /\ Shuffles(S, S, L)
         /\ Clicks(S, dying) /\ Good(S, dying, L)
         /\ Ptrs(S) \subseteq Live \cup L \cup {Nil}
         /\ dying \cap Live = {} /\ dying \subseteq Windows
         /\ \A x \in Live \cup dying : x \in Windows /\ desk[x] \in Desks
<1>1. \A x \in Live : x \in Windows
  BY DEF IInv, Good, S, Live, State, ToSet
<1> QED BY <1>1 DEF IInv, Good, S, Live, Shuffles, Points

(* Shuffling on and on, from a state in which the functions can be used    *)
LEMMA Onwards ==
  ASSUME NEW L \in SUBSET (dying \cap Windows),
         NEW s, NEW t, Shuffles(t, s, L)
  PROVE  /\ t \in State /\ Distinct(t.wlist) /\ ToSet(t.wlist) = ToSet(s.wlist)
         /\ \A u : Shuffles(u, t, L) => Shuffles(u, s, L)
BY ShufflesOn DEF Shuffles

LEMMA FocusInKeeps ==
  ASSUME IInv, NEW L \in SUBSET (dying \cap Windows), Points(L),
         NEW w \in Live \cup L, FocusIn(w)
  PROVE  Holds(L) /\ Live' = Live
<1>1. PICK draw \in BOOLEAN : Becomes(FocusInWindow(S, w, draw))
  BY DEF FocusIn
<1>2. Shuffles(FocusInWindow(S, w, draw), S, L)
  BY Start, FocusInFacts
<1> QED BY <1>1, <1>2, Start, ShufflingStep DEF FocusIn

LEMMA FocusInOtherKeeps ==
  ASSUME IInv, NEW L \in SUBSET (dying \cap Windows), Points(L),
         NEW isNoFocusWin \in BOOLEAN, FocusInOther(isNoFocusWin)
  PROVE  Holds(L) /\ Live' = Live
<1> DEFINE f == [focus EXCEPT !.pending = Nil, !.unknown = FALSE]
           t == [S EXCEPT !.f = f]
           u == FocusInUnmanaged(t, isNoFocusWin)
<1>1. [S EXCEPT !.f.pending = Nil, !.f.unknown = FALSE] = t
  BY DEF S
<1>2. Becomes(u) /\ UNCHANGED <<dying, busy, mapping, follow>>
  BY <1>1 DEF FocusInOther
<1>3. Shuffles(t, S, L)
  <2>1. /\ f \in FocusType /\ f.screen = S.f.screen
        /\ {f.screen, f.last, f.hilite, f.requested, f.pending, f.stolen}
           \subseteq Ptrs(S) \cup ToSet(S.wlist) \cup {Nil}
    BY Start DEF State, FocusType, Ptrs
  <2> HIDE DEF f
  <2> QED BY <2>1, Start, PointersSet
<1> HIDE DEF t
<1>4. Shuffles(u, t, L)
  BY <1>3, Onwards, UnmanagedFacts
<1>5. Shuffles(u, S, L)
  BY <1>3, <1>4, ShufflesOn
<1> QED BY <1>2, <1>5, Start, ShufflingStep

LEMMA FocusOutKeeps ==
  ASSUME IInv, NEW L \in SUBSET (dying \cap Windows), Points(L),
         FocusOut
  PROVE  Holds(L) /\ Live' = Live
<1>1. PICK draw \in BOOLEAN : Becomes(RefocusStolen(S, draw))
  BY DEF FocusOut
<1>2. Shuffles(RefocusStolen(S, draw), S, L)
  BY Start, StolenFacts
<1> QED BY <1>1, <1>2, Start, ShufflingStep DEF FocusOut

LEMMA GotoDeskKeeps ==
  ASSUME IInv, NEW L \in SUBSET (dying \cap Windows), Points(L),
         NEW d \in Desks, GotoDesk(d)
  PROVE  Holds(L) /\ Live' = Live
<1>1. Shuffles(Goto(S, d), S, L)
  BY Start, GotoFacts
<1> QED BY <1>1, Start, ShufflingStep DEF GotoDesk

LEMMA MapUnmanagedKeeps ==
  ASSUME IInv, NEW L \in SUBSET (dying \cap Windows), Points(L),
         MapUnmanaged
  PROVE  Holds(L) /\ Live' = Live
<1> DEFINE f == [focus EXCEPT !.unknown = TRUE]
           t == [S EXCEPT !.f = f]
<1>1. [S EXCEPT !.f.unknown = TRUE] = t
  BY DEF S
<1>2. Becomes(t) /\ UNCHANGED <<dying, busy, mapping, follow>>
  BY <1>1 DEF MapUnmanaged
<1>3. Shuffles(t, S, L)
  <2>1. /\ f \in FocusType /\ f.screen = S.f.screen
        /\ {f.screen, f.last, f.hilite, f.requested, f.pending, f.stolen}
           \subseteq Ptrs(S) \cup ToSet(S.wlist) \cup {Nil}
    BY Start DEF State, FocusType, Ptrs
  <2> HIDE DEF f
  <2> QED BY <2>1, Start, PointersSet
<1> HIDE DEF t
<1> QED BY <1>2, <1>3, Start, ShufflingStep

(* The fields of the focus record that handlers assign themselves          *)
LEMMA Assigned ==
  ASSUME NEW L \in SUBSET (dying \cap Windows),
         NEW s \in State, Distinct(s.wlist), NEW b \in BOOLEAN,
         NEW x \in Ptrs(s) \cup ToSet(s.wlist) \cup L \cup {Nil}
  PROVE  /\ LET t == [s EXCEPT !.f.here = b]
            IN  Shuffles(t, s, L) /\ t.f.screen = s.f.screen /\ t.f.last = s.f.last
         /\ Shuffles([s EXCEPT !.f.requested = x], s, L)
         /\ Shuffles([s EXCEPT !.f.last = x], s, L)
         /\ Shuffles([s EXCEPT !.f.pending = x], s, L)
<1> DEFINE f(h, r, l, p) ==
             [s.f EXCEPT !.here = h, !.requested = r, !.last = l, !.pending = p]
           t(h, r, l, p) == [s EXCEPT !.f = f(h, r, l, p)]
           P == Ptrs(s) \cup ToSet(s.wlist) \cup L \cup {Nil}
<1>1. P \subseteq Windows \cup {Nil} /\ s.f \in FocusType
  BY DEF Ptrs, State, FocusType, ToSet
<1>2. {s.f.screen, s.f.last, s.f.hilite, s.f.requested, s.f.pending, s.f.stolen}
        \subseteq P
  BY DEF Ptrs
<1> HIDE DEF P
<1>3. ASSUME NEW h \in BOOLEAN, NEW r \in P, NEW l \in P, NEW p \in P
      PROVE  Shuffles(t(h, r, l, p), s, L) /\ t(h, r, l, p).f = f(h, r, l, p)
  <2>1. r \in Windows \cup {Nil} /\ l \in Windows \cup {Nil} /\ p \in Windows \cup {Nil}
    BY <1>1
  <2> DEFINE g == f(h, r, l, p)
  <2>2. /\ g \in FocusType /\ g.screen = s.f.screen
        /\ g.last = l /\ g.requested = r /\ g.pending = p
        /\ g.hilite = s.f.hilite /\ g.stolen = s.f.stolen
    BY <1>1, <2>1 DEF FocusType
  <2> HIDE DEF g, f
  <2>3. {g.screen, g.last, g.hilite, g.requested, g.pending, g.stolen} \subseteq P
    BY <1>2, <2>2
  <2>4. [s EXCEPT !.f = g] = t(h, r, l, p)
    BY DEF g
  <2>5. Shuffles([s EXCEPT !.f = g], s, L) /\ Focuses([s EXCEPT !.f = g], s, g)
    BY <2>2, <2>3, PointersSet DEF P
  <2> QED BY <2>4, <2>5 DEF Focuses, g
<1>4. /\ s.f.here \in BOOLEAN /\ x \in P
      /\ s.f.requested \in P /\ s.f.last \in P /\ s.f.pending \in P
  BY <1>1, <1>2 DEF FocusType, P
<1>5. [s EXCEPT !.f.here = b] = t(b, s.f.requested, s.f.last, s.f.pending)
  BY <1>1 DEF State, FocusType
<1>6. [s EXCEPT !.f.requested = x] = t(s.f.here, x, s.f.last, s.f.pending)
  BY <1>1 DEF State, FocusType
<1>7. [s EXCEPT !.f.last = x] = t(s.f.here, s.f.requested, x, s.f.pending)
  BY <1>1 DEF State, FocusType
<1>8. [s EXCEPT !.f.pending = x] = t(s.f.here, s.f.requested, s.f.last, x)
  BY <1>1 DEF State, FocusType
<1>9. LET g == f(b, s.f.requested, s.f.last, s.f.pending)
      IN  g.screen = s.f.screen /\ g.last = s.f.last
  BY <1>1 DEF FocusType
<1> HIDE DEF t, f
<1>10. LET g == [s EXCEPT !.f.here = b]
       IN  Shuffles(g, s, L) /\ g.f.screen = s.f.screen /\ g.f.last = s.f.last
  <2>1. /\ Shuffles(t(b, s.f.requested, s.f.last, s.f.pending), s, L)
        /\ t(b, s.f.requested, s.f.last, s.f.pending).f
             = f(b, s.f.requested, s.f.last, s.f.pending)
    BY <1>3, <1>4, SMTT(20)
  <2> QED BY <1>5, <1>9, <2>1, Zenon
<1>11. Shuffles([s EXCEPT !.f.requested = x], s, L)
  BY <1>3, <1>4, <1>6, SMTT(20)
<1>12. Shuffles([s EXCEPT !.f.last = x], s, L)
  BY <1>3, <1>4, <1>7, SMTT(20)
<1>13. Shuffles([s EXCEPT !.f.pending = x], s, L)
  BY <1>3, <1>4, <1>8, SMTT(20)
<1> QED BY <1>10, <1>11, <1>12, <1>13

LEMMA RefocusedFacts ==
  ASSUME NEW L \in SUBSET (dying \cap Windows),
         NEW s \in State, Distinct(s.wlist), NEW sf, NEW draw
  PROVE  Shuffles(Refocused(s, sf, draw), s, L)
<1>1. Shuffles(s, s, L)
  BY DEF Shuffles
<1>2. Refocused(s, sf, draw) = s \/ Refocused(s, sf, draw) = RefocusStolen(s, draw)
  BY DEF Refocused
<1> QED BY <1>1, <1>2, StolenFacts

LEMMA EnterWindowKeeps ==
  ASSUME IInv, NEW L \in SUBSET (dying \cap Windows), Points(L),
         NEW w \in Windows, EnterWindow(w)
  PROVE  Holds(L) /\ Live' = Live
<1> DEFINE here == [S EXCEPT !.f.here = TRUE]
           sf == focus.screen
           left == IF sf \notin {Nil, w} /\ policy[sf].leave
                     THEN DeleteFocus(here) ELSE here
           held == GrabButtons(left, w)
           given == IF policy[w].enter THEN SetFocusWindow(held, w, "enter")
                    ELSE IF held.f.screen = w /\ policy[w].input
                      THEN [held EXCEPT !.f.requested = Nil]
                    ELSE IF sf # w THEN GrabButtons(held, sf) ELSE held
<1>1. w \in Live /\ UNCHANGED <<dying, busy, mapping, follow>>
  BY DEF EnterWindow
<1>2. \/ Becomes(GrabButtons(S, w))
      \/ \E draw \in BOOLEAN : Becomes(Refocused(given, sf, draw))
  BY DEF EnterWindow
<1>3. Shuffles(here, S, L)
  BY Start, Assigned
<1> HIDE DEF here
<1>4. Shuffles(left, here, L)
  BY <1>3, DeleteFacts DEF Shuffles
<1>5. Shuffles(left, S, L)
  BY <1>3, <1>4, ShufflesOn
<1> HIDE DEF left
<1>6. Shuffles(held, left, L)
  BY <1>5, Onwards, GrabOne
<1>7. Shuffles(held, S, L)
  BY <1>5, <1>6, ShufflesOn
<1> HIDE DEF held
<1>8. held \in State /\ Distinct(held.wlist) /\ w \in ToSet(held.wlist)
  BY <1>1, <1>7, Start DEF Shuffles
<1>9. Shuffles(given, held, L)
  <2>1. Shuffles(SetFocusWindow(held, w, "enter"), held, L)
    BY <1>8, SetWindowFacts
  <2>2. Shuffles([held EXCEPT !.f.requested = Nil], held, L)
    BY <1>8, Assigned
  <2>3. Shuffles(GrabButtons(held, sf), held, L)
    BY <1>8, GrabOne
  <2>4. Shuffles(held, held, L)
    BY <1>8 DEF Shuffles
  <2> QED BY <2>1, <2>2, <2>3, <2>4
<1>10. Shuffles(given, S, L)
  BY <1>7, <1>9, ShufflesOn
<1> HIDE DEF given
<1>11. CASE Becomes(GrabButtons(S, w))
  <2>1. Shuffles(GrabButtons(S, w), S, L)
    BY Start, GrabOne
  <2> QED BY <1>1, <1>11, <2>1, Start, ShufflingStep
<1>12. ASSUME NEW draw \in BOOLEAN, Becomes(Refocused(given, sf, draw))
       PROVE  Holds(L) /\ Live' = Live
  <2>1. Shuffles(Refocused(given, sf, draw), given, L)
    BY <1>10, Onwards, RefocusedFacts
  <2>2. Shuffles(Refocused(given, sf, draw), S, L)
    BY <1>10, <2>1, ShufflesOn
  <2> QED BY <1>1, <1>12, <2>2, Start, ShufflingStep
<1> QED BY <1>2, <1>11, <1>12

LEMMA EnterRootKeeps ==
  ASSUME IInv, NEW L \in SUBSET (dying \cap Windows), Points(L),
         EnterRoot
  PROVE  Holds(L) /\ Live' = Live
<1> SUFFICES ASSUME NEW draw \in BOOLEAN,
                    LET back == [S EXCEPT !.f.here = TRUE]
                        last == focus.last
                        given == IF last # Nil /\ ~policy[last].leave
                                   THEN SetFocusWindow(back, last, "force")
                                   ELSE ForceDeleteFocus(back)
                        s == IF ~focus.here THEN [given EXCEPT !.f.last = Nil]
                             ELSE IF focus.screen = Nil \/ policy[focus.screen].leave
                               THEN DeleteFocus(S)
                             ELSE Refocused(S, focus.screen, draw)
                    IN  Becomes(GrabButtons(s, last)),
                    UNCHANGED <<dying, busy, mapping, follow>>
             PROVE  Holds(L) /\ Live' = Live
  BY DEF EnterRoot
<1> DEFINE back == [S EXCEPT !.f.here = TRUE]
           last == focus.last
           given == IF last # Nil /\ ~policy[last].leave
                      THEN SetFocusWindow(back, last, "force")
                      ELSE ForceDeleteFocus(back)
           s == IF ~focus.here THEN [given EXCEPT !.f.last = Nil]
                ELSE IF focus.screen = Nil \/ policy[focus.screen].leave
                  THEN DeleteFocus(S)
                ELSE Refocused(S, focus.screen, draw)
<1>1. Becomes(GrabButtons(s, last))
  OBVIOUS
<1>2. Shuffles(back, S, L)
  BY Start, Assigned
<1> HIDE DEF back
<1>3. /\ back \in State /\ Distinct(back.wlist)
      /\ last # Nil => last \in ToSet(back.wlist) \cup L
  BY <1>2, Start DEF Shuffles, Ptrs
<1>4. Shuffles(given, back, L)
  BY <1>3, SetWindowFacts, ForceDeleteFacts
<1>5. Shuffles(given, S, L)
  BY <1>2, <1>4, ShufflesOn
<1> HIDE DEF given
<1>6. given \in State /\ Distinct(given.wlist)
  BY <1>5 DEF Shuffles
<1>7. Shuffles([given EXCEPT !.f.last = Nil], S, L)
  <2>1. Shuffles([given EXCEPT !.f.last = Nil], given, L)
    BY <1>6, Assigned
  <2> QED BY <1>5, <2>1, ShufflesOn
<1>8. Shuffles(DeleteFocus(S), S, L) /\ Shuffles(Refocused(S, focus.screen, draw), S, L)
  BY Start, DeleteFacts, RefocusedFacts
<1>9. Shuffles(s, S, L)
  BY <1>7, <1>8
<1> HIDE DEF s
<1>10. Shuffles(GrabButtons(s, last), s, L)
  BY <1>9, Onwards, GrabOne
<1>11. Shuffles(GrabButtons(s, last), S, L)
  BY <1>9, <1>10, ShufflesOn
<1> QED BY <1>1, <1>11, Start, ShufflingStep

LEMMA LeaveScreenKeeps ==
  ASSUME IInv, NEW L \in SUBSET (dying \cap Windows), Points(L),
         LeaveScreen
  PROVE  Holds(L) /\ Live' = Live
<1> DEFINE gone == [S EXCEPT !.f.here = FALSE, !.f.last = focus.screen]
           s == IF focus.screen = Nil THEN gone ELSE DeleteFocus(gone)
           h == Highlight(s, s.f.hilite, FALSE)
<1>1. Becomes(h) /\ UNCHANGED <<dying, busy, mapping, follow>>
  BY DEF LeaveScreen
<1>2. Shuffles(gone, S, L)
  <2> DEFINE g == [S EXCEPT !.f.here = FALSE]
             u == [g EXCEPT !.f.last = focus.screen]
  <2>1. Shuffles(g, S, L) /\ g.f.screen = focus.screen
    BY Start, Assigned
  <2>2. gone = u
    BY Start DEF State, FocusType
  <2> HIDE DEF g
  <2>3. Shuffles(u, g, L)
    <3>1. /\ g \in State /\ Distinct(g.wlist)
          /\ focus.screen \in Ptrs(g) \cup ToSet(g.wlist) \cup {Nil}
      BY <2>1 DEF Shuffles, Ptrs
    <3> QED BY <3>1, Assigned
  <2> QED BY <2>1, <2>2, <2>3, ShufflesOn
<1> HIDE DEF gone
<1>3. Shuffles(s, S, L)
  <2>1. Shuffles(DeleteFocus(gone), gone, L)
    BY <1>2, Onwards, DeleteFacts
  <2>2. Shuffles(DeleteFocus(gone), S, L)
    BY <1>2, <2>1, ShufflesOn
  <2> QED BY <1>2, <2>2
<1> HIDE DEF s
<1>4. Shuffles(h, s, L)
  <2>1. PICK b : h = Highlight(s, s.f.hilite, b)
    BY Zenon
  <2> HIDE DEF h
  <2>2. /\ s \in State /\ Distinct(s.wlist)
        /\ s.f.hilite \in ToSet(s.wlist) \cup Ptrs(s) \cup {Nil}
    BY <1>3 DEF Shuffles, Ptrs
  <2> QED BY <2>1, <2>2, HighlightFacts
<1>5. Shuffles(h, S, L)
  BY <1>3, <1>4, ShufflesOn
<1> QED BY <1>1, <1>5, Start, ShufflingStep

LEMMA ClickKeeps ==
  ASSUME IInv, NEW L \in SUBSET (dying \cap Windows), Points(L),
         NEW w \in Windows, Click(w)
  PROVE  Holds(L) /\ Live' = Live
<1> DEFINE g == SetFocusWindow(S, w, "click")
           s == GrabButtons(g, w)
           h == Highlight(s, w, TRUE)
<1>1. w \in Live /\ UNCHANGED <<dying, busy, mapping, follow>>
  BY DEF Click
<1>2. Becomes(h) \/ Becomes(s)
  BY DEF Click
<1>3. Shuffles(g, S, L)
  BY <1>1, Start, SetWindowFacts
<1> HIDE DEF g
<1>4. Shuffles(s, g, L)
  BY <1>3, Onwards, GrabOne
<1>5. Shuffles(s, S, L)
  BY <1>3, <1>4, ShufflesOn
<1> HIDE DEF s
<1>6. Shuffles(h, s, L)
  <2>1. PICK b : h = Highlight(s, w, b)
    BY Zenon
  <2> HIDE DEF h
  <2>2. s \in State /\ Distinct(s.wlist) /\ w \in ToSet(s.wlist)
    BY <1>1, <1>5, Start DEF Shuffles
  <2> QED BY <2>1, <2>2, HighlightFacts
<1>7. Shuffles(h, S, L)
  BY <1>5, <1>6, ShufflesOn
<1> QED BY <1>1, <1>2, <1>5, <1>7, Start, ShufflingStep

LEMMA MoveToDeskKeeps ==
  ASSUME IInv, NEW L \in SUBSET (dying \cap Windows), Points(L),
         NEW w \in Windows, NEW d \in Desks, MoveToDesk(w, d)
  PROVE  Holds(L) /\ Live' = Live
<1> DEFINE moved == [S EXCEPT !.desk[w] = d]
           s == IF desk[w] = current /\ w = focus.screen THEN DeleteFocus(moved)
                ELSE IF d = current /\ w \notin iconic /\ w \in mapped
                  THEN Highlight(moved, w, w = focus.screen) ELSE moved
           g == GrabButtonsAll(s)
<1>1. w \in Live /\ Becomes(g) /\ UNCHANGED <<dying, busy, mapping, follow>>
  BY DEF MoveToDesk
<1>2. /\ moved \in State /\ moved.wlist = S.wlist /\ moved.iconic = S.iconic
      /\ moved.mapped = S.mapped /\ moved.grabbed = S.grabbed /\ moved.f = S.f
      /\ moved.desk = [S.desk EXCEPT ![w] = d]
  BY Start DEF State
<1>3. Good(moved, dying, L) /\ ToSet(moved.wlist) = Live
  <2>1. \A x \in ToSet(moved.wlist) \cup dying : moved.desk[x] \in Desks
    BY <1>2, Start DEF State
  <2>2. Ptrs(moved) = Ptrs(S) /\ (Clicks(S, dying) => Clicks(moved, dying))
    BY <1>2 DEF Ptrs, Clicks
  <2> QED BY <1>2, <2>1, <2>2, Start DEF Good
<1> HIDE DEF moved
<1>4. moved \in State /\ Distinct(moved.wlist) /\ w \in ToSet(moved.wlist)
  BY <1>1, <1>3 DEF Good
<1>5. Shuffles(s, moved, L)
  <2>1. Shuffles(DeleteFocus(moved), moved, L)
    BY <1>4, DeleteFacts
  <2>2. Shuffles(Highlight(moved, w, w = focus.screen), moved, L)
    BY <1>4, HighlightFacts
  <2>3. Shuffles(moved, moved, L)
    BY <1>4 DEF Shuffles
  <2> QED BY <2>1, <2>2, <2>3
<1> HIDE DEF s
<1>6. Shuffles(g, s, L)
  BY <1>5, Onwards, GrabAll
<1>7. Shuffles(g, moved, L)
  BY <1>5, <1>6, ShufflesOn
<1> QED BY <1>1, <1>3, <1>7, ShufflingStep

LEMMA FocusCommandKeeps ==
  ASSUME IInv, NEW L \in SUBSET (dying \cap Windows), Points(L),
         NEW w \in Live \cup L, NEW flip \in BOOLEAN, NEW noWarp \in BOOLEAN,
         FocusCommand(w, flip, noWarp)
  PROVE  Holds(L) /\ Live' = Live
<1> DEFINE c == SetFocusTo(S, w, "function", flip, TRUE, FALSE)
           t == IF noWarp THEN S ELSE Goto(S, desk[w])
           s == SetFocusTo(t, w, "function", flip, noWarp, FALSE)
           p == [s EXCEPT !.f.pending = t.f.screen]
<1>1. UNCHANGED <<dying, busy, mapping, follow>>
  BY DEF FocusCommand
<1>2. Becomes(c) \/ Becomes(t) \/ Becomes(s) \/ Becomes(p)
  BY DEF FocusCommand
<1>3. Shuffles(c, S, L)
  BY <1>1, Start, SetFacts
<1> HIDE DEF c
<1>4. Shuffles(t, S, L)
  <2>1. Shuffles(Goto(S, desk[w]), S, L)
    BY <1>1, Start, GotoFacts
  <2> QED BY <2>1, Start
<1> HIDE DEF t
<1>5. t \in State /\ Distinct(t.wlist) /\ w \in ToSet(t.wlist) \cup L
  BY <1>1, <1>4, Start DEF Shuffles
<1>6. Shuffles(s, t, L)
  BY <1>5, SetFacts
<1>7. Shuffles(s, S, L)
  BY <1>4, <1>6, ShufflesOn
<1> HIDE DEF s
<1>8. Shuffles(p, s, L)
  <2>1. /\ s \in State /\ Distinct(s.wlist)
        /\ t.f.screen \in Ptrs(s) \cup ToSet(s.wlist) \cup L \cup {Nil}
    <3>1. t.f.screen \in Ptrs(t)
      BY DEF Ptrs
    <3>2. Ptrs(t) \subseteq Live \cup L \cup {Nil}
      BY <1>4, Start DEF Shuffles
    <3> QED BY <1>7, <3>1, <3>2, Start DEF Shuffles
  <2> QED BY <2>1, Assigned
<1>9. Shuffles(p, S, L)
  BY <1>7, <1>8, ShufflesOn
<1> HIDE DEF p
<1> QED BY <1>1, <1>2, <1>3, <1>4, <1>7, <1>9, Start, ShufflingStep

LEMMA AddWindowKeeps ==
  ASSUME IInv, NEW L \in SUBSET (dying \cap Windows), Points(L),
         NEW w \in Windows, NEW d \in Desks, AddWindow(w, d)
  PROVE  Holds(L) /\ Live \subseteq Live'
<1> DEFINE q == Append(wlist, w)
           t == [S EXCEPT !.wlist = q, !.desk[w] = d]
<1>1. /\ w \notin Live \cup dying /\ Becomes(t)
      /\ mapping' = mapping \cup {w} /\ UNCHANGED <<dying, busy, follow>>
  BY DEF AddWindow, S
<1>2. wlist \in Seq(Windows) /\ Distinct(wlist) /\ S.wlist = wlist
  BY Start DEF State, S
<1>3. /\ q \in Seq(Windows) /\ Len(q) = Len(wlist) + 1 /\ Len(wlist) \in Nat
      /\ q[Len(wlist) + 1] = w /\ \A i \in 1 .. Len(wlist) : q[i] = wlist[i]
  BY <1>2
<1> HIDE DEF q
<1>4. \A i \in DOMAIN q : i = Len(wlist) + 1 \/ i \in DOMAIN wlist
  BY <1>2, <1>3
<1>5. ToSet(q) = Live \cup {w}
  <2>1. ASSUME NEW x \in ToSet(q) PROVE x \in Live \cup {w}
    <3>1. PICK i \in DOMAIN q : x = q[i]
      BY DEF ToSet
    <3>2. CASE i = Len(wlist) + 1
      BY <1>3, <3>1, <3>2
    <3>3. CASE i \in DOMAIN wlist
      BY <1>2, <1>3, <3>1, <3>3 DEF Live, ToSet
    <3> QED BY <1>4, <3>2, <3>3
  <2>2. DOMAIN q = 1 .. Len(wlist) + 1 /\ DOMAIN wlist = 1 .. Len(wlist)
    BY <1>2, <1>3
  <2>3. w \in ToSet(q)
    BY <1>3, <2>2 DEF ToSet
  <2>4. ASSUME NEW x \in Live PROVE x \in ToSet(q)
    <3>1. PICK i \in DOMAIN wlist : x = wlist[i]
      BY DEF ToSet, Live
    <3>2. i \in DOMAIN q /\ q[i] = x
      BY <1>3, <2>2, <3>1
    <3> QED BY <3>2 DEF ToSet
  <2> QED BY <2>1, <2>3, <2>4
<1>6. Distinct(q)
  <2> SUFFICES ASSUME NEW i \in DOMAIN q, NEW j \in DOMAIN q, q[i] = q[j]
               PROVE  i = j
    BY DEF Distinct
  <2>1. \A k \in DOMAIN wlist : wlist[k] # w
    BY <1>1 DEF Live, ToSet
  <2> QED BY <1>2, <1>3, <1>4, <2>1 DEF Distinct
<1>7. /\ t \in State /\ t.wlist = q /\ t.iconic = S.iconic
      /\ t.mapped = S.mapped /\ t.grabbed = S.grabbed /\ t.f = S.f
      /\ t.desk = [S.desk EXCEPT ![w] = d]
  BY <1>3, Start DEF State
<1>8. Good(t, dying, L)
  <2>1. \A x \in ToSet(t.wlist) \cup dying : t.desk[x] \in Desks
    BY <1>5, <1>7, Start DEF State
  <2>2. Ptrs(t) = Ptrs(S) /\ (Clicks(S, dying) => Clicks(t, dying))
    BY <1>7 DEF Ptrs, Clicks
  <2>3. t.mapped \cup t.iconic \cup t.grabbed \subseteq ToSet(t.wlist) \cup dying
    BY <1>5, <1>7, Start DEF Good
  <2> QED BY <1>1, <1>5, <1>6, <1>7, <2>1, <2>2, <2>3, Start DEF Good
<1>9. S' = t /\ Live' = Live \cup {w}
  BY <1>1, <1>5, <1>7, NextState
<1> QED BY <1>1, <1>5, <1>7, <1>8, <1>9, Reached DEF IInv

(* A handler that has mapped or unmapped windows grabs the buttons again.  *)
LEMMA GrabbedAgain ==
  ASSUME NEW L \in SUBSET (dying \cap Windows),
         dying \subseteq Windows, dying \cap Live = {},
         NEW s \in State, Distinct(s.wlist), ToSet(s.wlist) = Live,
         s.mapped \cup s.iconic \cup s.grabbed \subseteq Live \cup dying,
         Ptrs(s) \subseteq Live \cup L \cup {Nil},
         \A x \in Live \cup dying : s.desk[x] \in Desks
  PROVE  LET t == GrabButtonsAll(s)
         IN  /\ Good(t, dying, L) /\ ToSet(t.wlist) = Live
             /\ t.f = s.f /\ t.desk = s.desk
<1> DEFINE t == GrabButtonsAll(s)
<1>1. Shuffles(t, s, L) /\ t.f = s.f
      /\ (s.f.screen \in ToSet(s.wlist) => Clicks(t, dying))
  BY GrabAll
<1> HIDE DEF t
<1>2. t.mapped \cup t.iconic \cup t.grabbed \subseteq Live \cup dying
  BY <1>1 DEF Shuffles
<1>3. Ptrs(t) = Ptrs(s)
  BY <1>1 DEF Ptrs
<1>4. Clicks(t, dying)
  <2>1. CASE s.f.screen \in Live
    BY <1>1, <2>1
  <2>2. CASE s.f.screen = Nil
    <3>1. t.f.screen = Nil /\ t.mapped \subseteq Windows
      BY <1>1, <2>2 DEF Shuffles, State
    <3> QED BY <3>1 DEF Clicks
  <2>3. CASE s.f.screen \in L
    BY <1>1, <2>3 DEF Clicks
  <2> QED BY <2>1, <2>2, <2>3 DEF Ptrs
<1>5. Good(t, dying, L) /\ ToSet(t.wlist) = Live /\ t.desk = s.desk
  BY <1>1, <1>2, <1>3, <1>4 DEF Shuffles, Good
<1> QED BY <1>1, <1>5 DEF t

LEMMA MapNotifyKeeps ==
  ASSUME IInv, NEW L \in SUBSET (dying \cap Windows), Points(L),
         NEW w \in Windows, MapNotify(w)
  PROVE  Holds(L) /\ Live' = Live
<1> DEFINE open == OnCurrentDesk(S, w) /\ OpensWithFocus(S, w)
           given == IF open THEN SetFocusWindow(S, w, "force") ELSE S
           lit == Highlight(given, w, w = given.f.screen)
           shown == [lit EXCEPT !.mapped = @ \cup {w}, !.iconic = @ \ {w}]
           t == GrabButtonsAll(shown)
<1>1. /\ w \in Live /\ Becomes(t) /\ mapping' = mapping \ {w}
      /\ UNCHANGED <<dying, busy, follow>>
  BY DEF MapNotify
<1>2. Shuffles(given, S, L)
  BY <1>1, Start, SetWindowFacts
<1> HIDE DEF given
<1>3. given \in State /\ Distinct(given.wlist) /\ w \in ToSet(given.wlist)
  BY <1>1, <1>2, Start DEF Shuffles
<1>4. Shuffles(lit, given, L)
  BY <1>3, HighlightFacts
<1>5. Shuffles(lit, S, L)
  BY <1>2, <1>4, ShufflesOn
<1> HIDE DEF lit
<1>6. Good(lit, dying, L) /\ ToSet(lit.wlist) = Live
  BY <1>5, Start, GoodKept
<1>7. /\ shown \in State /\ shown.wlist = lit.wlist /\ shown.desk = lit.desk
      /\ shown.mapped = lit.mapped \cup {w} /\ shown.iconic = lit.iconic \ {w}
      /\ shown.grabbed = lit.grabbed /\ shown.f = lit.f
  BY <1>6 DEF Good, State
<1> HIDE DEF shown
<1>8. /\ shown.mapped \cup shown.iconic \cup shown.grabbed \subseteq Live \cup dying
      /\ Ptrs(shown) \subseteq Live \cup L \cup {Nil} /\ Distinct(shown.wlist)
      /\ ToSet(shown.wlist) = Live /\ \A x \in Live \cup dying : shown.desk[x] \in Desks
  BY <1>1, <1>6, <1>7 DEF Good, Ptrs
<1>9. Good(t, dying, L) /\ ToSet(t.wlist) = Live
  BY <1>7, <1>8, Start, GrabbedAgain
<1>10. S' = t /\ Live' = Live
  BY <1>1, <1>9, NextState DEF Good
<1> QED BY <1>1, <1>9, <1>10, Reached DEF IInv

LEMMA DestroyStep ==
  ASSUME IInv, NEW L \in SUBSET (dying \cap Windows), Points(L),
         NEW w \in Windows, Destroy(w)
  PROVE  Holds(L) /\ RestoresOnDesk
<1>1. w \in Live /\ DestroyFrom(S, w) /\ busy' = busy
  BY DEF Destroy
<1>2. /\ Holds(L)
      /\ \A x \in Windows \ {w} : desk'[x] = S.desk[x]
      /\ S.f.screen # w => focus'.screen = S.f.screen
      /\ S.f.screen = w => \/ focus'.screen = Nil
                           \/ /\ focus'.screen \in Live \ {w}
                              /\ S.desk[focus'.screen] = S.desk[w]
  BY <1>1, Start, DestroyKeeps
<1>3. focus.screen # w => desk'[focus.screen] = desk[focus.screen] \/ focus.screen \notin Live
  BY <1>2, Start
<1> QED BY <1>2, <1>3, Start DEF RestoresOnDesk

LEMMA UnmapStep ==
  ASSUME IInv, NEW L \in SUBSET (dying \cap Windows), Points(L),
         NEW w \in Windows, UnmapNotify(w)
  PROVE  Holds(L) /\ RestoresOnDesk
<1> DEFINE h == IF focus.hilite = w THEN Nil ELSE focus.hilite
           f == [focus EXCEPT !.hilite = h]
           lit == [S EXCEPT !.f = f]
           s == RestoreFocus(lit, w, {})
<1>1. w \in Live /\ w # Nil /\ busy' = busy
  BY DEF UnmapNotify
<1>2. [S EXCEPT !.f.hilite = IF @ = w THEN Nil ELSE @] = lit
  BY DEF S
<1>3. \/ w \in mapped \cup iconic /\ DestroyFrom(s, w)
      \/ Becomes(s) /\ UNCHANGED <<dying, busy, mapping, follow>>
  BY <1>2 DEF UnmapNotify
<1>4. h \in {focus.hilite, Nil}
  OBVIOUS
<1> HIDE DEF h, s
<1>5. /\ f \in FocusType /\ f.screen = focus.screen
      /\ {f.screen, f.last, f.hilite, f.requested, f.pending, f.stolen}
           \subseteq Ptrs(S) \cup ToSet(S.wlist) \cup {Nil}
  BY <1>4, Start DEF State, FocusType, Ptrs
<1> HIDE DEF f
<1>6. Shuffles(lit, S, L) /\ Focuses(lit, S, f)
  BY <1>5, Start, PointersSet
<1> HIDE DEF lit
<1>7. lit \in State /\ Distinct(lit.wlist) /\ ToSet(lit.wlist) = Live
      /\ lit.f.screen = focus.screen /\ lit.desk = desk
  BY <1>5, <1>6, Start DEF Shuffles, Focuses
<1>8. /\ Shuffles(s, lit, L)
      /\ lit.f.screen # w => s = lit
      /\ lit.f.screen = w =>
           \/ s.f.screen = Nil
           \/ s.f.screen \in ToSet(lit.wlist) /\ lit.desk[s.f.screen] = lit.desk[w]
      /\ s.f.screen # w
  BY <1>7, RestoreFacts DEF s
<1>9. Shuffles(s, S, L)
  BY <1>6, <1>8, ShufflesOn
<1>10. Good(s, dying, L) /\ ToSet(s.wlist) = Live /\ s.desk = desk
  BY <1>9, Start, GoodKept DEF Shuffles
<1>11. CASE DestroyFrom(s, w)
  <2>1. /\ Holds(L)
        /\ \A x \in Windows \ {w} : desk'[x] = s.desk[x]
        /\ s.f.screen # w => focus'.screen = s.f.screen
    BY <1>1, <1>10, <1>11, DestroyKeeps
  <2>2. focus'.screen = s.f.screen /\ s.f.screen \in Windows \cup {Nil}
    BY <1>8, <1>10, <2>1 DEF Good, State, FocusType
  <2>3. \/ focus.screen \notin Live
        \/ s.f.screen = Nil
        \/ desk'[s.f.screen] = desk[focus.screen]
    BY <1>7, <1>8, <1>10, <2>1, <2>2
  <2> QED BY <2>1, <2>2, <2>3 DEF RestoresOnDesk
<1>12. CASE Becomes(s) /\ UNCHANGED <<dying, busy, mapping, follow>>
  <2>1. Holds(L) /\ Live' = Live
    BY <1>9, <1>12, Start, ShufflingStep
  <2> QED BY <2>1 DEF RestoresOnDesk, Live
<1> QED BY <1>3, <1>11, <1>12

LEMMA DestroyScheduledKeeps ==
  ASSUME IInv, NEW L \in SUBSET (dying \cap Windows), Points(L),
         DestroyScheduled
  PROVE  Holds(L) /\ Live' = Live
<1> DEFINE s == Forget(S, dying)
           t == GrabButtonsAll(s)
<1>1. /\ Becomes(t) /\ dying' = {} /\ UNCHANGED <<busy, mapping, follow>>
  BY DEF DestroyScheduled
<1>2. /\ s \in State /\ s.wlist = S.wlist /\ s.f = S.f
      /\ s.mapped = S.mapped \ dying /\ s.iconic = S.iconic \ dying
      /\ s.grabbed = S.grabbed \ dying
      /\ \A x \in Windows \ dying : s.desk[x] = S.desk[x]
  BY Start, ForgetFacts
<1> HIDE DEF s
<1>3. /\ s.mapped \cup s.iconic \cup s.grabbed \subseteq Live
      /\ Ptrs(s) \subseteq Live \cup L \cup {Nil}
      /\ Distinct(s.wlist) /\ ToSet(s.wlist) = Live
      /\ \A x \in Live : s.desk[x] \in Desks
  <2>1. S.mapped \cup S.iconic \cup S.grabbed \subseteq Live \cup dying
    BY Start DEF Good
  <2>2. Ptrs(s) = Ptrs(S)
    BY <1>2 DEF Ptrs
  <2> QED BY <1>2, <2>1, <2>2, Start
<1>4. /\ Shuffles(t, s, L) /\ t.f = s.f
      /\ s.f.screen \in ToSet(s.wlist) => Clicks(t, dying)
  BY <1>2, <1>3, GrabAll
<1> HIDE DEF t
<1>5. Good(t, {}, L) /\ ToSet(t.wlist) = Live
  <2>1. t.mapped \cup t.iconic \cup t.grabbed \subseteq Live
    BY <1>3, <1>4 DEF Shuffles
  <2>2. Clicks(t, {})
    BY <1>3, <1>4, <2>1, Start DEF Clicks
  <2>3. Ptrs(t) = Ptrs(s)
    BY <1>4 DEF Ptrs
  <2> QED BY <1>3, <1>4, <2>1, <2>2, <2>3 DEF Good, Shuffles
<1>6. S' = t /\ Live' = Live
  BY <1>1, <1>5, NextState DEF Good
<1> QED BY <1>1, <1>5, <1>6, Reached DEF IInv

LEMMA FunctionKeeps ==
  ASSUME IInv, NEW L \in SUBSET (dying \cap Windows), Points(L),
         BeginFunction \/ EndFunction
  PROVE  Holds(L) /\ Live' = Live
<1>1. UNCHANGED <<wlist, dying, mapping, mapped, iconic, follow, desk, current,
                  away, grabbed, policy, parent, focus>> /\ busy' \in BOOLEAN
  BY DEF BeginFunction, EndFunction
<1>2. S' = S /\ Live' = Live
  BY <1>1 DEF S, Live
<1> QED BY <1>1, <1>2, Start, Reached DEF IInv

-----------------------------------------------------------------------------
(* Icons *)

LEMMA IconifyKeeps ==
  ASSUME IInv, NEW L \in SUBSET (dying \cap Windows), Points(L),
         NEW w \in Windows, Iconify(w)
  PROVE  Holds(L) /\ Live' = Live
<1> DEFINE kin == Family(S, w)
           s == IF focus.screen \in kin THEN RestoreFocus(S, focus.screen, kin)
                ELSE S
           h == IF s.f.hilite \in kin THEN Nil ELSE s.f.hilite
           f == [s.f EXCEPT !.hilite = h]
           hid == [s EXCEPT !.mapped = @ \ kin, !.iconic = @ \cup kin, !.f = f]
           t == GrabButtonsAll(hid)
<1>1. /\ w \in Live /\ follow' = follow \cup (kin \ {w})
      /\ UNCHANGED <<dying, busy, mapping>>
  BY DEF Iconify
<1>2. Becomes(GrabButtonsAll([s EXCEPT !.mapped = @ \ kin, !.iconic = @ \cup kin,
                                       !.f.hilite = IF @ \in kin THEN Nil ELSE @]))
  BY DEF Iconify
<1>3. kin \subseteq Live /\ kin \subseteq Windows
  BY Start DEF Family
<1> HIDE DEF kin
<1>4. Shuffles(s, S, L)
  <2>1. focus.screen \in kin => Shuffles(RestoreFocus(S, focus.screen, kin), S, L)
    BY <1>3, Start, RestoreFacts
  <2> QED BY <2>1, Start
<1> HIDE DEF s
<1>5. Good(s, dying, L) /\ ToSet(s.wlist) = Live
  BY <1>4, Start, GoodKept
<1>6. [s EXCEPT !.mapped = @ \ kin, !.iconic = @ \cup kin,
                !.f.hilite = IF @ \in kin THEN Nil ELSE @] = hid
  BY <1>5 DEF Good, State, FocusType
<1>7. h \in {s.f.hilite, Nil}
  OBVIOUS
<1> HIDE DEF h
<1>8. /\ f \in FocusType /\ f.screen = s.f.screen
      /\ {f.screen, f.last, f.hilite, f.requested, f.pending, f.stolen}
           \subseteq Live \cup L \cup {Nil}
  BY <1>5, <1>7 DEF Good, State, FocusType, Ptrs
<1> HIDE DEF f
<1>9. /\ hid \in State /\ hid.wlist = s.wlist /\ hid.desk = s.desk
      /\ hid.mapped = s.mapped \ kin /\ hid.iconic = s.iconic \cup kin
      /\ hid.grabbed = s.grabbed /\ hid.f = f
  BY <1>3, <1>5, <1>8 DEF Good, State
<1> HIDE DEF hid
<1>10. /\ hid.mapped \cup hid.iconic \cup hid.grabbed \subseteq Live \cup dying
       /\ Ptrs(hid) \subseteq Live \cup L \cup {Nil}
       /\ Distinct(hid.wlist) /\ ToSet(hid.wlist) = Live
       /\ \A x \in Live \cup dying : hid.desk[x] \in Desks
  BY <1>3, <1>5, <1>8, <1>9 DEF Good, Ptrs
<1>11. Good(t, dying, L) /\ ToSet(t.wlist) = Live
  BY <1>9, <1>10, Start, GrabbedAgain
<1>12. Becomes(t)
  BY <1>2, <1>6
<1> HIDE DEF t
<1>13. S' = t /\ Live' = Live
  BY <1>11, <1>12, NextState DEF Good
<1> QED BY <1>1, <1>3, <1>11, <1>13, Reached DEF IInv

LEMMA DeIconifyKeeps ==
  ASSUME IInv, NEW L \in SUBSET (dying \cap Windows), Points(L),
         NEW w \in Windows, DeIconify(w)
  PROVE  Holds(L) /\ Live' = Live
<1> DEFINE sf == focus.screen
           s == IF sf = w THEN DeleteFocus(S) ELSE S
           kin == Family(s, w)
           h == IF s.f.hilite \in kin THEN Nil ELSE s.f.hilite
           f == [s.f EXCEPT !.hilite = h]
           shown == [s EXCEPT !.mapped = @ \cup kin, !.iconic = @ \ kin, !.f = f]
           given == IF (sf = w /\ ~policy[w].leave) \/ (sf # w /\ policy[w].sortOpen)
                      THEN SetFocusWindow(shown, w, "force") ELSE shown
           t == GrabButtonsAll(given)
<1>1. /\ w \in Live /\ follow' = follow \ kin
      /\ mapping' = mapping \cup {x \in kin : desk[x] = current}
      /\ UNCHANGED <<dying, busy>>
  BY DEF DeIconify
<1>2. LET u == [s EXCEPT !.mapped = @ \cup kin, !.iconic = @ \ kin,
                         !.f.hilite = IF @ \in kin THEN Nil ELSE @]
          g == IF (sf = w /\ ~policy[w].leave) \/ (sf # w /\ policy[w].sortOpen)
                 THEN SetFocusWindow(u, w, "force") ELSE u
      IN  Becomes(GrabButtonsAll(g))
  BY DEF DeIconify
<1>3. Shuffles(s, S, L)
  BY Start, DeleteFacts
<1> HIDE DEF s
<1>4. Good(s, dying, L) /\ ToSet(s.wlist) = Live
  BY <1>3, Start, GoodKept
<1>5. kin \subseteq Live /\ kin \subseteq Windows
  BY <1>4, Start DEF Family
<1> HIDE DEF kin
<1>6. [s EXCEPT !.mapped = @ \cup kin, !.iconic = @ \ kin,
                !.f.hilite = IF @ \in kin THEN Nil ELSE @] = shown
  BY <1>4 DEF Good, State, FocusType
<1>7. h \in {s.f.hilite, Nil}
  OBVIOUS
<1> HIDE DEF h
<1>8. /\ f \in FocusType /\ f.screen = s.f.screen
      /\ {f.screen, f.last, f.hilite, f.requested, f.pending, f.stolen}
           \subseteq Live \cup L \cup {Nil}
  BY <1>4, <1>7 DEF Good, State, FocusType, Ptrs
<1> HIDE DEF f
<1>9. /\ shown \in State /\ shown.wlist = s.wlist /\ shown.desk = s.desk
      /\ shown.mapped = s.mapped \cup kin /\ shown.iconic = s.iconic \ kin
      /\ shown.grabbed = s.grabbed /\ shown.f = f
  BY <1>4, <1>5, <1>8 DEF Good, State
<1>10. Becomes(t)
  BY <1>2, <1>6
<1> HIDE DEF shown
<1>11. Distinct(shown.wlist) /\ ToSet(shown.wlist) = Live
  BY <1>4, <1>9 DEF Good
<1>12. Shuffles(given, shown, L)
  <2>1. Shuffles(SetFocusWindow(shown, w, "force"), shown, L)
    BY <1>1, <1>9, <1>11, SetWindowFacts
  <2>2. Shuffles(shown, shown, L)
    BY <1>9, <1>11 DEF Shuffles
  <2> QED BY <2>1, <2>2
<1> HIDE DEF given
<1>13. /\ given \in State /\ Distinct(given.wlist) /\ ToSet(given.wlist) = Live
       /\ given.mapped \cup given.iconic \cup given.grabbed \subseteq Live \cup dying
       /\ Ptrs(given) \subseteq Live \cup L \cup {Nil}
       /\ \A x \in Live \cup dying : given.desk[x] \in Desks
  <2>1. s.mapped \cup s.iconic \cup s.grabbed \subseteq Live \cup dying
    BY <1>4 DEF Good
  <2>2. Ptrs(shown) \subseteq Live \cup L \cup {Nil}
    BY <1>8, <1>9 DEF Ptrs
  <2>3. given.mapped \cup given.iconic \cup given.grabbed \subseteq Live \cup dying
    BY <1>5, <1>9, <1>12, <2>1 DEF Shuffles
  <2>4. Ptrs(given) \subseteq Live \cup L \cup {Nil}
    BY <1>11, <1>12, <2>2 DEF Shuffles
  <2>5. \A x \in Live \cup dying : given.desk[x] \in Desks
    BY <1>4, <1>9, <1>12 DEF Shuffles, Good
  <2> QED BY <1>11, <1>12, <2>3, <2>4, <2>5 DEF Shuffles
<1>14. Good(t, dying, L) /\ ToSet(t.wlist) = Live
  BY <1>13, Start, GrabbedAgain
<1> HIDE DEF t
<1>15. S' = t /\ Live' = Live
  BY <1>10, <1>14, NextState DEF Good
<1> QED BY <1>1, <1>5, <1>14, <1>15, Reached DEF IInv

-----------------------------------------------------------------------------
(* The invariant *)

LEMMA InitHolds == Init => IInv
<1> SUFFICES ASSUME Init PROVE IInv
  OBVIOUS
<1>1. focus \in FocusType /\ \A p \in Pointers : focus[p] = Nil
  BY DEF Init, FocusType, Pointers
<1>2. S \in State /\ S.wlist = <<>> /\ Ptrs(S) = {Nil}
      /\ S.mapped = {} /\ S.iconic = {} /\ S.grabbed = {} /\ S.f.screen = Nil
  BY <1>1 DEF Init, S, State, Ptrs, Pointers
<1>3. ToSet(<<>>) = {} /\ Distinct(<<>>) /\ Live = {}
  BY DEF ToSet, Distinct, Live, Init
<1>4. Good(S, dying, Windows)
  BY <1>2, <1>3 DEF Good, Clicks, Init
<1> QED BY <1>3, <1>4 DEF IInv, Init

(* Steps that give the focus to no dying window, but for those of L        *)
LEMMA StepKeeps ==
  ASSUME IInv, NEW L \in SUBSET (dying \cap Windows), Points(L), Step,
         \A w \in dying \ L : ~GivesDying(w)
  PROVE  Holds(L) /\ RestoresOnDesk
<1>1. ASSUME Holds(L), Live \subseteq Live' PROVE Holds(L) /\ RestoresOnDesk
  BY <1>1 DEF RestoresOnDesk, Live
<1>2. ASSUME NEW w \in Windows, NEW d \in Desks, AddWindow(w, d) PROVE Holds(L) /\ RestoresOnDesk
  BY <1>1, <1>2, AddWindowKeeps
<1>3. ASSUME NEW w \in Windows, NEW d \in Desks, MoveToDesk(w, d) PROVE Holds(L) /\ RestoresOnDesk
  BY <1>1, <1>3, MoveToDeskKeeps
<1>4. ASSUME NEW w \in Windows, MapNotify(w) PROVE Holds(L) /\ RestoresOnDesk
  BY <1>1, <1>4, MapNotifyKeeps
<1>5. ASSUME NEW w \in Windows, UnmapNotify(w) PROVE Holds(L) /\ RestoresOnDesk
  BY <1>1, <1>5, UnmapStep
<1>6. ASSUME NEW w \in Windows, Destroy(w) PROVE Holds(L) /\ RestoresOnDesk
  BY <1>1, <1>6, DestroyStep
<1>7. ASSUME NEW w \in Windows, EnterWindow(w) PROVE Holds(L) /\ RestoresOnDesk
  BY <1>1, <1>7, EnterWindowKeeps
<1>8. ASSUME NEW w \in Windows, Click(w) PROVE Holds(L) /\ RestoresOnDesk
  BY <1>1, <1>8, ClickKeeps
<1>9. ASSUME NEW w \in Windows, Iconify(w) PROVE Holds(L) /\ RestoresOnDesk
  BY <1>1, <1>9, IconifyKeeps
<1>10. ASSUME NEW w \in Windows, DeIconify(w) PROVE Holds(L) /\ RestoresOnDesk
  BY <1>1, <1>10, DeIconifyKeeps
<1>11. ASSUME NEW b \in BOOLEAN, FocusInOther(b) PROVE Holds(L) /\ RestoresOnDesk
  BY <1>1, <1>11, FocusInOtherKeeps
<1>12. ASSUME NEW d \in Desks, GotoDesk(d) PROVE Holds(L) /\ RestoresOnDesk
  BY <1>1, <1>12, GotoDeskKeeps
<1>13. ASSUME NEW w \in Windows, FocusIn(w) PROVE Holds(L) /\ RestoresOnDesk
  <2>1. w \in Live \cup L
    BY <1>13 DEF FocusIn, GivesDying
  <2> QED BY <1>1, <1>13, <2>1, FocusInKeeps
<1>14. ASSUME NEW w \in Windows, NEW flip \in BOOLEAN, NEW noWarp \in BOOLEAN,
              FocusCommand(w, flip, noWarp)
       PROVE  Holds(L) /\ RestoresOnDesk
  <2>1. w \in Live \cup L
    BY <1>14 DEF FocusCommand, GivesDying
  <2> QED BY <1>1, <1>14, <2>1, FocusCommandKeeps
<1>15. ASSUME FocusOut \/ EnterRoot \/ LeaveScreen \/ MapUnmanaged
       PROVE  Holds(L) /\ RestoresOnDesk
  BY <1>1, <1>15, FocusOutKeeps, EnterRootKeeps, LeaveScreenKeeps, MapUnmanagedKeeps
<1>16. ASSUME BeginFunction \/ EndFunction \/ DestroyScheduled
       PROVE  Holds(L) /\ RestoresOnDesk
  BY <1>1, <1>16, FunctionKeeps, DestroyScheduledKeeps
<1> QED BY <1>2, <1>3, <1>4, <1>5, <1>6, <1>7, <1>8, <1>9, <1>10, <1>11, <1>12, <1>13, <1>14, <1>15, <1>16 DEF Step

LEMMA PointedOnes == Pointed = Ptrs(S)
BY DEF Pointed, Pointers, Ptrs, S

(* L: the windows that die and are pointed at, or are given the focus now   *)
LEMMA NextKeeps ==
  ASSUME IInv, [Next]_vars
  PROVE  IInv' /\ ((RestoresOnDesk /\ ForgetsGone) \/ UNCHANGED vars)
<1>1. CASE UNCHANGED vars
  <2>1. S' = S /\ Live' = Live
    BY <1>1 DEF vars, S, Live
  <2> QED BY <1>1, <2>1 DEF IInv, vars
<1>2. CASE Next
  <2>1. PICK L : L = {w \in dying \cap Windows : w \in Pointed \/ GivesDying(w)}
    OBVIOUS
  <2>2. dying \subseteq Windows /\ L \in SUBSET (dying \cap Windows)
    BY <2>1 DEF IInv, Good
  <2>3. Pointed \subseteq Live \cup dying \cup {Nil} /\ Step
    BY <1>2 DEF Next
  <2>4. Points(L)
    BY <2>1, <2>2, <2>3, PointedOnes DEF Points
  <2>5. Holds(L) /\ RestoresOnDesk
    BY <2>1, <2>2, <2>3, <2>4, StepKeeps
  <2>6. IInv' /\ Pointed' \subseteq Live' \cup L \cup {Nil}
    <3>1. Pointed' = Ptrs(S')
      BY DEF Pointed, Pointers, Ptrs, S
    <3> QED BY <2>5, <3>1 DEF Holds
  <2>7. L \cap Live = {}
    BY <2>2 DEF IInv, Good, S, Live
  <2>8. ForgetsGone
    <3> SUFFICES ASSUME NEW w \in Windows \ ToSet(wlist'), w \in Pointed'
                 PROVE  w \in Pointed \ Live \/ GivesDying(w)
      BY DEF ForgetsGone
    <3>1. w \in L
      BY <2>6 DEF Live
    <3> QED BY <2>1, <2>7, <3>1
  <2> QED BY <2>5, <2>6, <2>8
<1> QED BY <1>1, <1>2

LEMMA Invariance == Spec => []IInv
<1>1. IInv /\ [Next]_vars => IInv'
  BY NextKeeps
<1> QED BY <1>1, InitHolds, PTL DEF Spec

-----------------------------------------------------------------------------
LEMMA ListLength ==
  ASSUME NEW q \in Seq(Windows), Distinct(q)
  PROVE  Len(q) = Cardinality(ToSet(q))
<1> DEFINE n == Len(q)
<1>1. n \in Nat /\ DOMAIN q = 1 .. n
  OBVIOUS
<1>2. q \in [1 .. n -> ToSet(q)]
  BY <1>1 DEF ToSet
<1>3. q \in Injection(1 .. n, ToSet(q))
  BY <1>1, <1>2 DEF Injection, IsInjective, Distinct
<1>4. q \in Surjection(1 .. n, ToSet(q))
  BY <1>1, <1>2 DEF Surjection, ToSet
<1>5. ExistsBijection(1 .. n, ToSet(q))
  BY <1>3, <1>4 DEF ExistsBijection, Bijection
<1> QED BY <1>1, <1>5, FS_CountingElements

(* The variables have their types, and each window is in the list once.    *)
THEOREM TypeCorrect == Spec => []TypeOK
<1>1. IInv => TypeOK
  <2> SUFFICES ASSUME IInv PROVE TypeOK
    OBVIOUS
  <2>1. /\ wlist \in Seq(Windows) /\ Distinct(wlist)
        /\ dying \subseteq Windows /\ dying \cap Live = {}
        /\ current \in Desks /\ desk \in [Windows -> Desks \cup {Nil}]
        /\ away \in [Windows -> Desks \cup {Nil}]
        /\ mapped \cup iconic \cup grabbed \subseteq Live \cup dying
        /\ focus \in FocusType
    BY DEF IInv, Good, S, State, Live
  <2>2. Len(wlist) = Cardinality(Live)
    BY <2>1, ListLength DEF Live
  <2>3. /\ DOMAIN focus = Pointers \cup {"unknown", "here"}
        /\ {focus.unknown, focus.here} \subseteq BOOLEAN
    BY <2>1 DEF FocusType, Pointers
  <2>4. Pointed \subseteq Windows \cup {Nil}
    BY <2>1 DEF FocusType, Pointers, Pointed
  <2>5. busy \in BOOLEAN /\ mapping \subseteq Live /\ follow \subseteq Live
    BY DEF IInv
  <2> QED BY <2>1, <2>2, <2>3, <2>4, <2>5 DEF TypeOK
<1> QED BY <1>1, Invariance, PTL

(* Destroying a window leaves no pointer to it, neither in the state in     *)
(* which adjust_mvwm_internal_windows leaves it nor when it is freed, and   *)
(* no handler finds it again, but for a command of a complex function that  *)
(* gives it the focus and a FocusIn of its icon.                            *)
THEOREM NoneRevived == Spec => PointersKept
<1>1. IInv /\ [Next]_vars => [ForgetsGone]_vars
  BY NextKeeps
<1> QED BY <1>1, Invariance, PTL DEF Spec, PointersKept

(* The buttons are not grabbed on the window that has the focus, whichever  *)
(* handler gave it the focus or grabbed the buttons last.                  *)
THEOREM ClicksPass == Spec => []FocusedGetsClicks
<1>1. IInv => FocusedGetsClicks
  BY DEF IInv, Good, Clicks, S, Live, FocusedGetsClicks
<1> QED BY <1>1, Invariance, PTL

(* When the window with the focus goes away, restore_focus_after_unmap      *)
(* gives the focus to no window or to one on the same desk.                *)
THEOREM RestoredThere == Spec => RestoredOnDesk
<1>1. IInv /\ [Next]_vars => [RestoresOnDesk]_vars
  BY NextKeeps
<1> QED BY <1>1, Invariance, PTL DEF Spec, RestoredOnDesk
=============================================================================
