----------------------------- MODULE FramesProofs -----------------------------
(***************************************************************************)
(* Proofs about Frames: whatever is done with a window, up to the first    *)
(* time that a shaded frame is made crooked, the frame is where the place  *)
(* of the window on the desk says, its client fills it and was told where  *)
(* it is, and the requests of the client are served, merged or not.        *)
(***************************************************************************)
EXTENDS Frames, SubsequenceProofs, SequenceTheorems

Dirs == {"N", "W", "E", "NW", "NE"}

\* The hints that a window can have: _handle_cr_on_client replaces a maximum
HintsOf == HintSets \cup {[h EXCEPT !.max = MaxSize] : h \in HintSets}
AllLimits == Limits \cup {[min |-> 0, max |-> MaxSize]}
AllBorders == Borders \cup {0}
Thicknesses == {0, TitleThickness}
Rects == [x : Int, w : Int]

Window ==
  [hints : HintsOf, newHints : BOOLEAN, limit : AllLimits, border : AllBorders,
   unshaped : Borders, thickness : Thicknesses, title : {"N", "W", "E"},
   shaded : BOOLEAN, dir : Dirs, byTitle : BOOLEAN, maximized : BOOLEAN,
   max : Rects, defect : Int, normal : Rects, frame : Rects, client : Int,
   told : SUBSET Int, method : {"auto", "grav", "static"}]

\* What constrain_size leaves of the sizes of a client, with borders of width b
High(h, l, b) == Smaller(h.max, l.max - b)
Low(h, l, b) == Smaller(Larger(h.min, l.min - b), High(h, l, b))

\* The hints and the styles leave some size of at least one pixel: otherwise
\* constrain_size steps below it, and the frame has no room for its client.
SomeSizeFits ==
  \A h \in HintsOf, l \in AllLimits, d \in AllBorders, t \in Thicknesses :
    /\ High(h, l, 2 * d + t) >= 1
    /\ \E k \in Int : LET s == h.base + k * h.inc IN
         Low(h, l, 2 * d + t) <= s /\ s <= High(h, l, 2 * d + t)

\* The width of a frame that is shaded to the side
ShadedWidth(f, dir) ==
  Larger(IF dir \in {"NW", "NE"} THEN 2 * f.border ELSE Total(f), 1)

\* A frame of the size of g can be that of f.
Fits(f, g) ==
  IF f.shaded /\ Side(f.dir) # "N" THEN g.w = ShadedWidth(f, f.dir)
  ELSE g.w > Total(f)

Agrees(f, v) ==
  f.frame = LET g == At(Place(f), -v)
            IN  IF f.shaded THEN ShadedGeometry(f, f.dir, g) ELSE g

Knows(f) ==
  ~f.shaded => /\ f.client = f.frame.w - Total(f)
               /\ f.told \subseteq {f.frame.x + TopLeft(f)}

\* The client has room in the places of the window on the desk.
Roomy(f) ==
  /\ f.normal.w > Total(f) /\ (f.maximized => f.max.w > Total(f))
  /\ f.max.w > 0 /\ f.client > 0

\* Only a window with borders is shaded to the side.
Bordered(f) == f.shaded /\ Side(f.dir) # "N" => Total(f) > 0

Good(f, v) == f \in Window /\ Agrees(f, v) /\ Knows(f) /\ Roomy(f)

Messages ==
  {Changed} \cup
  {Request(x, w) : x \in Maybe(Places), w \in Maybe(Widths)}

\* The window and its client have at least a pixel everywhere.
Sized(f) ==
  /\ f \in Window /\ f.frame.w > 0 /\ f.normal.w > 0 /\ f.max.w > 0
  /\ f.client > 0

FInv ==
  /\ Sized(fw) /\ (~crooked => Good(fw, Vx) /\ Bordered(fw))
  /\ crooked \in BOOLEAN
  /\ Vx \in Pages /\ hints \in HintSets /\ queue \in Seq(Messages)

\* The same while the model goes on
Straight ==
  /\ Good(fw, Vx) /\ Bordered(fw) /\ crooked = FALSE
  /\ Vx \in Pages /\ hints \in HintSets /\ queue \in Seq(Messages)

---------------------------------------------------------------------------
(* Numbers                                                                 *)

LEMMA Product == ASSUME NEW a \in Nat, NEW b \in Nat PROVE a * b \in Nat
  BY SMT

LEMMA ProductInt == ASSUME NEW a \in Int, NEW b \in Int PROVE a * b \in Int
  BY SMT

LEMMA HalfInt == ASSUME NEW n \in Int PROVE Half(n) \in Int
  BY DEF Half

\* A multiple of inc next to n, on the side of zero
LEMMA MultipleNear ==
  ASSUME NEW n \in Int, NEW inc \in Nat \ {0}
  PROVE  \E q \in Int : /\ Multiple(n, inc) = q * inc
                        /\ n >= 0 => n - inc < q * inc /\ q * inc <= n
                        /\ n < 0 => n <= q * inc /\ q * inc < n + inc
<1>1. CASE n >= 0
  <2>1. PICK q \in Int : q = n \div inc
    OBVIOUS
  <2>2. inc * q <= n /\ n < inc * q + inc
    BY <2>1
  <2>3. Multiple(n, inc) = inc * q
    BY <1>1, <2>1 DEF Multiple
  <2>4. inc * q = q * inc /\ q * inc \in Int
    BY ProductInt
  <2> QED BY <1>1, <2>2, <2>3, <2>4
<1>2. CASE n < 0
  <2>1. PICK p \in Int : p = (-n) \div inc
    OBVIOUS
  <2>2. inc * p <= -n /\ -n < inc * p + inc
    BY <2>1
  <2>3. Multiple(n, inc) = -inc * p
    BY <1>2, <2>1 DEF Multiple
  <2>4. -inc * p = (-p) * inc /\ (-p) * inc = -(inc * p) /\ inc * p \in Int
    BY ProductInt
  <2>5. -p \in Int
    OBVIOUS
  <2>6. n <= (-p) * inc /\ (-p) * inc < n + inc
    BY <2>2, <2>4
  <2> QED BY <1>2, <2>3, <2>4, <2>5, <2>6
<1> QED BY <1>1, <1>2

\* Numbers p * inc that differ are inc apart.
LEMMA Apart ==
  ASSUME NEW p \in Int, NEW q \in Int, NEW inc \in Nat \ {0}, p * inc < q * inc
  PROVE  p * inc + inc <= q * inc
<1>1. p * inc \in Int /\ q * inc \in Int
  BY ProductInt
<1>2. CASE q - p - 1 \in Nat
  <2>1. (q - p - 1) * inc \in Nat
    BY <1>2, Product
  <2>2. (q - p - 1) * inc = q * inc - p * inc - inc
    OBVIOUS
  <2> QED BY <1>1, <2>1, <2>2
<1>3. CASE q - p - 1 \notin Nat
  <2>1. p - q \in Nat
    BY <1>3
  <2>2. (p - q) * inc \in Nat
    BY <2>1, Product
  <2>3. (p - q) * inc = p * inc - q * inc
    OBVIOUS
  <2> QED BY <1>1, <2>2, <2>3
<1> QED BY <1>2, <1>3

LEMMA RoundedFits ==
  ASSUME NEW low \in Int, NEW high \in Int, NEW base \in Int, NEW inc \in Nat \ {0},
         NEW c \in Int, low <= c, c <= high,
         NEW k \in Int, low <= base + k * inc, base + k * inc <= high,
         NEW r, r = Multiple(c - base, inc) + base,
         NEW a, a = IF r < low THEN r + inc ELSE r
  PROVE  (IF a > high THEN a - inc ELSE a) \in low .. high
<1>1. PICK n \in Int : n = c - base
  OBVIOUS
<1>2. PICK q \in Int : /\ Multiple(n, inc) = q * inc
                       /\ n >= 0 => n - inc < q * inc /\ q * inc <= n
                       /\ n < 0 => n <= q * inc /\ q * inc < n + inc
  BY MultipleNear
<1>3. PICK u \in Int : u = q * inc
  BY ProductInt
<1>4. PICK v \in Int : v = k * inc
  BY ProductInt
<1>5. (u < v => u + inc <= v) /\ (v < u => v + inc <= u)
  BY <1>3, <1>4, Apart
<1>6. r = u + base /\ low <= base + v /\ base + v <= high
  BY <1>1, <1>2, <1>3, <1>4
<1>7. CASE n >= 0
  <2>1. n - inc < u /\ u <= n
    BY <1>2, <1>3, <1>7
  <2> QED BY <1>1, <1>5, <1>6, <2>1
<1>8. CASE n < 0
  <2>1. n <= u /\ u < n + inc
    BY <1>2, <1>3, <1>8
  <2> QED BY <1>1, <1>5, <1>6, <2>1
<1> QED BY <1>7, <1>8

LEMMA MultipleSame ==
  ASSUME NEW k \in Int, NEW inc \in Nat \ {0}
  PROVE  Multiple(k * inc, inc) = k * inc
<1>1. PICK n \in Int : n = k * inc
  BY ProductInt
<1>2. PICK q \in Int : /\ Multiple(n, inc) = q * inc
                       /\ n >= 0 => n - inc < q * inc /\ q * inc <= n
                       /\ n < 0 => n <= q * inc /\ q * inc < n + inc
  BY MultipleNear
<1>3. PICK u \in Int : u = q * inc
  BY ProductInt
<1>4. (u < n => u + inc <= n) /\ (n < u => n + inc <= u)
  BY <1>1, <1>3, Apart
<1>5. u = n
  BY <1>2, <1>3, <1>4
<1> QED BY <1>1, <1>2, <1>3, <1>5

\* The multiples of inc next to Multiple(n, inc)
LEMMA MultipleGrid ==
  ASSUME NEW n \in Int, NEW inc \in Nat \ {0}
  PROVE  \E u \in Int : /\ u = Multiple(n, inc)
                        /\ \A v \in {u, u + inc, u - inc} :
                             \E j \in Int : v \in Int /\ v = j * inc
<1>1. PICK q \in Int : Multiple(n, inc) = q * inc
  BY MultipleNear
<1>2. PICK u \in Int : u = q * inc
  BY ProductInt
<1>3. u + inc = (q + 1) * inc /\ u - inc = (q - 1) * inc
  BY <1>2
<1>4. q + 1 \in Int /\ q - 1 \in Int /\ u + inc \in Int /\ u - inc \in Int
  OBVIOUS
<1> QED BY <1>1, <1>2, <1>3, <1>4

---------------------------------------------------------------------------
(* Sizes                                                                   *)

LEMMA HintFields ==
  ASSUME FramesAssumption, NEW h \in HintsOf
  PROVE  /\ h.min \in Nat \ {0} /\ h.max \in Nat \ {0} /\ h.inc \in Nat \ {0}
         /\ h.base \in Nat
  BY DEF FramesAssumption, HintsOf, MaxSize

LEMMA LimitFields ==
  ASSUME FramesAssumption, NEW l \in AllLimits
  PROVE  l.min \in Nat /\ l.max \in Nat \ {0}
  BY DEF FramesAssumption, AllLimits, MaxSize

LEMMA BorderTypes ==
  ASSUME FramesAssumption, NEW f \in Window
  PROVE  /\ f.border \in Nat /\ f.thickness \in Nat /\ Total(f) \in Nat
         /\ TopLeft(f) \in Nat
         /\ \E d \in AllBorders, t \in Thicknesses : Total(f) = 2 * d + t
<1>1. AllBorders \subseteq Nat /\ Thicknesses \subseteq Nat
  BY DEF FramesAssumption, AllBorders, Thicknesses
<1>2. f.border \in AllBorders /\ f.thickness \in Thicknesses
  BY DEF Window
<1>3. f.border \in Nat /\ f.thickness \in Nat
  BY <1>1, <1>2
<1>4. PICK t \in Thicknesses : t = IF f.title = "N" THEN 0 ELSE f.thickness
  BY <1>2 DEF Thicknesses
<1>5. t \in Nat /\ Total(f) = 2 * f.border + t
  BY <1>1, <1>4 DEF Total
<1>6. PICK u \in Nat : u = IF f.title = "W" THEN f.thickness ELSE 0
  BY <1>3
<1>7. TopLeft(f) = f.border + u
  BY <1>6 DEF TopLeft
<1> QED BY <1>2, <1>3, <1>5, <1>7

\* constrain_size finds a size on the grid of the hints.
LEMMA ConstrainedGrid ==
  ASSUME FramesAssumption, SomeSizeFits, NEW f \in Window, NEW w \in Int
  PROVE  \E k \in Int : \E e \in Int :
           /\ e = f.hints.base + k * f.hints.inc /\ Constrained(f, w) = Total(f) + e
           /\ Low(f.hints, f.limit, Total(f)) <= e
           /\ e <= High(f.hints, f.limit, Total(f)) /\ e >= 1
<1>1. PICK h \in HintsOf : h = f.hints
  BY DEF Window
<1>2. PICK l \in AllLimits : l = f.limit
  BY DEF Window
<1>3. PICK d \in AllBorders, t \in Thicknesses : Total(f) = 2 * d + t
  BY BorderTypes
<1>4. PICK b \in Nat : b = Total(f)
  BY BorderTypes
<1>5. PICK inc \in Nat \ {0}, base \in Nat, hmin \in Nat \ {0}, hmax \in Nat \ {0} :
        inc = h.inc /\ base = h.base /\ hmin = h.min /\ hmax = h.max
  BY HintFields
<1>6. PICK lmin \in Nat, lmax \in Nat : lmin = l.min /\ lmax = l.max
  BY LimitFields
<1>7. PICK high \in Int : high = High(h, l, b) /\ high = Smaller(hmax, lmax - b)
  BY <1>5, <1>6 DEF High, Smaller
<1>8. PICK low \in Int : /\ low = Low(h, l, b)
                         /\ low = Smaller(Larger(hmin, lmin - b), high)
                         /\ low <= high /\ (high >= 1 => low >= 1)
  BY <1>5, <1>6, <1>7 DEF Low, Smaller, Larger
<1>9. /\ high >= 1
      /\ \E k \in Int : low <= base + k * inc /\ base + k * inc <= high
  BY <1>3, <1>4, <1>5, <1>7, <1>8 DEF SomeSizeFits
<1>10. PICK k \in Int : low <= base + k * inc /\ base + k * inc <= high
  BY <1>9
<1>11. PICK c \in Int : /\ c = Smaller(Larger(w - b, low), high)
                        /\ low <= c /\ c <= high
  BY <1>4, <1>7, <1>8 DEF Smaller, Larger
<1>12. PICK r : r = Multiple(c - base, inc) + base
  OBVIOUS
<1>13. PICK a : a = IF r < low THEN r + inc ELSE r
  OBVIOUS
<1>0. base \in Int /\ low \in Int /\ high \in Int /\ c \in Int /\ k \in Int
  BY <1>5, <1>7, <1>8, <1>10, <1>11
<1>14. (IF a > high THEN a - inc ELSE a) \in low .. high
  BY <1>0, <1>5, <1>10, <1>11, <1>12, <1>13, RoundedFits
<1>15. Constrained(f, w) = b + IF a > high THEN a - inc ELSE a
  BY <1>1, <1>2, <1>4, <1>5, <1>6, <1>7, <1>8, <1>11, <1>12, <1>13 DEF Constrained
<1>16. PICK e \in Int : e = (IF a > high THEN a - inc ELSE a) /\ low <= e /\ e <= high
  BY <1>14
<1>17. PICK j \in Int, m \in Int : m = j * inc /\ e = base + m
  <2>1. PICK n \in Int : n = c - base
    BY <1>0
  <2>2. PICK u \in Int : /\ u = Multiple(n, inc)
                         /\ \A v \in {u, u + inc, u - inc} :
                              \E j \in Int : v \in Int /\ v = j * inc
    BY <1>5, MultipleGrid
  <2>3. r = u + base
    BY <1>12, <2>1, <2>2
  <2>4. PICK v \in {u, u + inc, u - inc} : e = base + v
    BY <1>0, <1>5, <1>13, <1>16, <2>3
  <2> QED BY <2>2, <2>4
<1>18. e = base + j * inc /\ Constrained(f, w) = b + e /\ e >= 1
  BY <1>8, <1>9, <1>15, <1>16, <1>17
<1> QED BY <1>1, <1>2, <1>4, <1>5, <1>7, <1>8, <1>16, <1>18

LEMMA ConstrainedFits ==
  ASSUME FramesAssumption, SomeSizeFits, NEW f \in Window, NEW w \in Int
  PROVE  Constrained(f, w) \in Int /\ Constrained(f, w) > Total(f)
<1>1. PICK k \in Int, e \in Int : Constrained(f, w) = Total(f) + e /\ e >= 1
  BY ConstrainedGrid
<1> QED BY <1>1, BorderTypes

\* What it finds, it keeps.
LEMMA ConstrainedTwice ==
  ASSUME FramesAssumption, SomeSizeFits, NEW f \in Window, NEW w \in Int,
         NEW c, c = Constrained(f, w)
  PROVE  Constrained(f, c) = c
<1>1. PICK h \in HintsOf : h = f.hints
  BY DEF Window
<1>2. PICK l \in AllLimits : l = f.limit
  BY DEF Window
<1>4. PICK b \in Nat : b = Total(f)
  BY BorderTypes
<1>5. PICK inc \in Nat \ {0}, base \in Nat, hmin \in Nat \ {0}, hmax \in Nat \ {0} :
        inc = h.inc /\ base = h.base /\ hmin = h.min /\ hmax = h.max
  BY HintFields
<1>6. PICK lmin \in Nat, lmax \in Nat : lmin = l.min /\ lmax = l.max
  BY LimitFields
<1>7. PICK high \in Int : high = High(h, l, b) /\ high = Smaller(hmax, lmax - b)
  BY <1>5, <1>6 DEF High, Smaller
<1>8. PICK low \in Int : /\ low = Low(h, l, b)
                         /\ low = Smaller(Larger(hmin, lmin - b), high)
  BY <1>5, <1>6, <1>7 DEF Low, Smaller, Larger
<1>9. PICK k \in Int, e \in Int :
           /\ e = base + k * inc /\ c = b + e /\ low <= e /\ e <= high
  <2>1. PICK k \in Int, e \in Int :
           /\ e = f.hints.base + k * f.hints.inc /\ Constrained(f, w) = Total(f) + e
           /\ Low(f.hints, f.limit, Total(f)) <= e
           /\ e <= High(f.hints, f.limit, Total(f))
    BY ConstrainedGrid
  <2>2. /\ f.hints.base = base /\ f.hints.inc = inc
        /\ Low(f.hints, f.limit, Total(f)) = low
        /\ High(f.hints, f.limit, Total(f)) = high
    BY <1>1, <1>2, <1>4, <1>5, <1>7, <1>8
  <2>3. e = base + k * inc /\ c = b + e /\ low <= e /\ e <= high
    BY <1>4, <2>1, <2>2
  <2> QED BY <2>3
<1>10. Smaller(Larger(c - b, low), high) = e
  <2>1. c - b = e
    BY <1>4, <1>9
  <2>2. Larger(e, low) = e /\ Smaller(e, high) = e
    BY <1>9 DEF Smaller, Larger
  <2> QED BY <2>1, <2>2
<1>11. PICK m \in Int : m = k * inc
  BY <1>5, ProductInt
<1>12. Multiple(e - base, inc) + base = e
  <2>1. e - base = m
    BY <1>5, <1>9, <1>11
  <2>2. Multiple(m, inc) = m
    BY <1>11, MultipleSame
  <2> QED BY <1>5, <1>9, <1>11, <2>1, <2>2
<1>13. Constrained(f, c) = b + IF (IF e < low THEN e + inc ELSE e) > high
                                 THEN (IF e < low THEN e + inc ELSE e) - inc
                               ELSE (IF e < low THEN e + inc ELSE e)
  <2>1. /\ f.hints.max = hmax /\ f.hints.min = hmin /\ f.hints.base = base
        /\ f.hints.inc = inc /\ f.limit.min = lmin /\ f.limit.max = lmax
        /\ Total(f) = b
    BY <1>1, <1>2, <1>4, <1>5, <1>6
  <2>2. /\ Smaller(hmax, lmax - b) = high
        /\ Smaller(Larger(hmin, lmin - b), high) = low
    BY <1>7, <1>8
  <2> QED BY <1>10, <1>12, <2>1, <2>2 DEF Constrained
<1>14. ~(e < low) /\ ~(e > high)
  BY <1>9
<1> QED BY <1>9, <1>13, <1>14

LEMMA ConstrainedOne ==
  ASSUME FramesAssumption, SomeSizeFits, NEW f \in Window, f.hints.max = 1, NEW w \in Int
  PROVE  Constrained(f, w) = Total(f) + 1
<1>1. PICK b \in Nat : b = Total(f)
  BY BorderTypes
<1>2. f.limit.max \in Nat
  BY LimitFields DEF Window
<1>3. PICK high \in Int : high = High(f.hints, f.limit, b) /\ high <= 1
  BY <1>2 DEF High, Smaller
<1>4. PICK k \in Int, e \in Int :
        Constrained(f, w) = b + e /\ e <= high /\ e >= 1
  BY <1>1, <1>3, ConstrainedGrid
<1> QED BY <1>1, <1>3, <1>4

LEMMA OffsetInt == ASSUME NEW grav PROVE Offset(grav) \in {-1, 0, 1}
<1>1. CASE grav = "W" BY <1>1 DEF Offset
<1>2. CASE grav = "E" BY <1>2 DEF Offset
<1>3. CASE grav # "W" /\ grav # "E" BY <1>3 DEF Offset
<1> QED BY <1>1, <1>2, <1>3

LEMMA ResizedType ==
  ASSUME NEW grav, NEW g \in Rects, NEW d \in Int
  PROVE  Resized(grav, g, d) \in Rects /\ Resized(grav, g, d).w = g.w + d
<1>1. PICK o \in Int : o = Offset(grav) + 1
  BY OffsetInt
<1>2. d * o \in Int
  BY ProductInt
<1>3. PICK m \in Int : m = Half(d * o)
  BY <1>2, HalfInt
<1>4. Resized(grav, g, d) = Rect(g.x - m, g.w + d)
  BY <1>1, <1>3 DEF Resized
<1> QED BY <1>4 DEF Rect, Rects

LEMMA GravityType ==
  ASSUME FramesAssumption, SomeSizeFits, NEW f \in Window, NEW grav, NEW g \in Rects
  PROVE  /\ GravityConstrained(f, grav, g) \in Rects
         /\ GravityConstrained(f, grav, g).w > Total(f)
<1>1. g.w \in Int
  BY DEF Rects
<1>2. PICK c \in Int : c = Constrained(f, g.w) /\ c > Total(f)
  BY <1>1, ConstrainedFits
<1>3. GravityConstrained(f, grav, g) = Resized(grav, g, c - g.w)
  BY <1>2 DEF GravityConstrained
<1> QED BY <1>1, <1>2, <1>3, ResizedType

LEMMA RedecoratedType ==
  ASSUME FramesAssumption, NEW f \in Window, NEW t \in Window, NEW grav, NEW g \in Rects
  PROVE  /\ Redecorated(f, t, grav, g) \in Rects
         /\ Redecorated(f, t, grav, g).w = g.w - Total(f) + Total(t)
<1>1. PICK k \in Int : k = Offset(grav) + 1
  BY OffsetInt
<1>2. g.x \in Int /\ g.w \in Int /\ Total(f) \in Int /\ Total(t) \in Int
  BY BorderTypes DEF Rects
<1>3. PICK w \in Int : w = g.w - Total(f)
  BY <1>2
<1>4. k * (g.w - 1) \in Int /\ k * (w - 1) \in Int
  BY <1>2, ProductInt
<1>5. PICK x \in Int : x = g.x + Half(k * (g.w - 1)) - Half(k * (w - 1))
  BY <1>2, <1>4, HalfInt
<1>6. Rect(x, w) \in Rects /\ Rect(x, w).w = w
  BY DEF Rect, Rects
<1>7. Redecorated(f, t, grav, g) = Resized(grav, Rect(x, w), Total(t))
  BY <1>1, <1>3, <1>5 DEF Redecorated
<1> QED BY <1>2, <1>3, <1>6, <1>7, ResizedType

---------------------------------------------------------------------------
(* Places and frames                                                       *)

LEMMA Sides == ASSUME NEW dir PROVE Side(dir) \in {"W", "E", "N"}
<1>1. CASE dir \in {"W", "NW"} BY <1>1 DEF Side
<1>2. CASE dir \in {"E", "NE"} BY <1>2 DEF Side
<1>3. CASE dir \notin {"W", "NW", "E", "NE"} BY <1>3 DEF Side
<1> QED BY <1>1, <1>2, <1>3

LEMMA ShadedWidthType ==
  ASSUME FramesAssumption, NEW f \in Window, NEW dir
  PROVE  /\ ShadedWidth(f, dir) \in Int /\ ShadedWidth(f, dir) > 0
         /\ dir \notin {"NW", "NE"} /\ Total(f) > 0 => ShadedWidth(f, dir) = Total(f)
<1>1. PICK b \in Nat : b = IF dir \in {"NW", "NE"} THEN 2 * f.border ELSE Total(f)
  BY BorderTypes
<1>2. ShadedWidth(f, dir) = Larger(b, 1)
  BY <1>1 DEF ShadedWidth
<1> QED BY <1>1, <1>2 DEF Larger

LEMMA ShadedType ==
  ASSUME FramesAssumption, NEW f \in Window, NEW dir, NEW g \in Rects
  PROVE  /\ ShadedGeometry(f, dir, g) \in Rects
         /\ Side(dir) = "N" => ShadedGeometry(f, dir, g) = g
         /\ Side(dir) = "W" =>
              ShadedGeometry(f, dir, g) = Rect(g.x, ShadedWidth(f, dir))
         /\ Side(dir) = "E" =>
              ShadedGeometry(f, dir, g) =
                Rect(g.x + g.w - ShadedWidth(f, dir), ShadedWidth(f, dir))
<1>1. PICK w \in Int : w = ShadedWidth(f, dir)
  BY ShadedWidthType
<1>2. ShadedGeometry(f, dir, g) =
        CASE Side(dir) = "W" -> Rect(g.x, w)
          [] Side(dir) = "E" -> Rect(g.x + g.w - w, w)
          [] OTHER -> g
  BY <1>1 DEF ShadedGeometry, ShadedWidth
<1>3. CASE Side(dir) = "W"
  <2>1. ShadedGeometry(f, dir, g) = Rect(g.x, w)
    BY <1>2, <1>3
  <2> QED BY <1>1, <1>3, <2>1 DEF Rect, Rects
<1>4. CASE Side(dir) = "E"
  <2>1. ShadedGeometry(f, dir, g) = Rect(g.x + g.w - w, w)
    BY <1>2, <1>4
  <2> QED BY <1>1, <1>4, <2>1 DEF Rect, Rects
<1>5. CASE Side(dir) = "N"
  <2>1. ShadedGeometry(f, dir, g) = g
    BY <1>2, <1>5
  <2> QED BY <1>5, <2>1
<1> QED BY <1>3, <1>4, <1>5, Sides

LEMMA AtType ==
  ASSUME NEW g \in Rects, NEW d \in Int
  PROVE  At(g, d) \in Rects /\ At(g, d) = Rect(g.x + d, g.w)
  BY DEF At, Rect, Rects

LEMMA RectType ==
  ASSUME NEW x \in Int, NEW w \in Int
  PROVE  Rect(x, w) \in Rects /\ Rect(x, w).x = x /\ Rect(x, w).w = w
  BY DEF Rect, Rects

LEMMA RectFields ==
  ASSUME NEW g \in Rects
  PROVE  g.x \in Int /\ g.w \in Int /\ g = Rect(g.x, g.w)
  BY DEF Rect, Rects

LEMMA PlaceType ==
  ASSUME NEW f \in Window
  PROVE  Place(f) \in Rects
  BY DEF Place, Window

\* g is f but for its places on the desk.
SameFrame(f, g) ==
  /\ g.border = f.border /\ g.thickness = f.thickness /\ g.title = f.title
  /\ g.shaded = f.shaded /\ g.dir = f.dir /\ g.maximized = f.maximized
  /\ g.frame = f.frame /\ g.client = f.client /\ g.told = f.told

LEMMA WithPlaceFacts ==
  ASSUME NEW f \in Window, NEW p \in Rects
  PROVE  /\ WithPlace(f, p) \in Window /\ SameFrame(f, WithPlace(f, p))
         /\ Place(WithPlace(f, p)) = p
         /\ f.maximized => /\ WithPlace(f, p).max = p
                           /\ WithPlace(f, p).normal = f.normal
         /\ ~f.maximized => /\ WithPlace(f, p).normal = p
                            /\ WithPlace(f, p).max = f.max
<1>1. CASE f.maximized
  BY <1>1 DEF WithPlace, SameFrame, Place, Window
<1>2. CASE ~f.maximized
  BY <1>2 DEF WithPlace, SameFrame, Place, Window
<1> QED BY <1>1, <1>2

LEMMA SameBorders ==
  ASSUME NEW f, NEW g, SameFrame(f, g)
  PROVE  /\ Total(g) = Total(f) /\ TopLeft(g) = TopLeft(f)
         /\ \A dir : ShadedWidth(g, dir) = ShadedWidth(f, dir)
         /\ Knows(g) <=> Knows(f)
<1>1. Total(g) = Total(f) /\ TopLeft(g) = TopLeft(f)
  BY DEF SameFrame, Total, TopLeft
<1>2. ASSUME NEW dir PROVE ShadedWidth(g, dir) = ShadedWidth(f, dir)
  BY <1>1 DEF SameFrame, ShadedWidth
<1>3. Knows(g) <=> Knows(f)
  BY <1>1 DEF SameFrame, Knows
<1> QED BY <1>1, <1>2, <1>3

\* What update_absolute_geometry makes of the place on the desk
LEMMA UpdatedPlace ==
  ASSUME NEW f \in Window, Vx \in Int
  PROVE  \E p \in Rects :
           /\ UpdateAbsolute(f) = WithPlace(f, p)
           /\ ~f.shaded \/ Side(f.dir) = "N" => p = At(f.frame, Vx)
           /\ f.shaded /\ Side(f.dir) = "W" =>
                p = Rect(f.frame.x + Vx, Place(f).w)
           /\ f.shaded /\ Side(f.dir) = "E" =>
                p = Rect(f.frame.x + Vx + f.frame.w - Place(f).w, Place(f).w)
<1>1. PICK old \in Int : old = Place(f).w
  BY PlaceType, RectFields
<1>2. f.frame \in Rects
  BY DEF Window
<1>3. PICK g \in Rects : g = At(f.frame, Vx)
  BY <1>2, AtType
<1>4. g = Rect(f.frame.x + Vx, f.frame.w) /\ f.frame.x \in Int /\ f.frame.w \in Int
  BY <1>2, <1>3, AtType, RectFields
<1>5. g.x = f.frame.x + Vx /\ g.w = f.frame.w
  BY <1>4, RectType
<1>6. UpdateAbsolute(f) =
        WithPlace(f, IF ~f.shaded \/ Side(f.dir) = "N" THEN g
                     ELSE IF Side(f.dir) = "W" THEN Rect(g.x, old)
                     ELSE Rect(g.x + g.w - old, old))
  BY <1>1, <1>3 DEF UpdateAbsolute
<1>7. CASE ~f.shaded
  <2>1. UpdateAbsolute(f) = WithPlace(f, g)
    BY <1>6, <1>7
  <2> QED BY <1>3, <1>7, <2>1
<1>8. CASE f.shaded /\ Side(f.dir) = "N"
  <2>1. UpdateAbsolute(f) = WithPlace(f, g)
    BY <1>6, <1>8
  <2> QED BY <1>3, <1>8, <2>1
<1>9. CASE f.shaded /\ Side(f.dir) = "W"
  <2>1. UpdateAbsolute(f) = WithPlace(f, Rect(g.x, old))
    BY <1>6, <1>9
  <2>2. Rect(g.x, old) \in Rects
    BY <1>1, <1>4, <1>5, RectType
  <2> QED BY <1>1, <1>5, <1>9, <2>1, <2>2
<1>10. CASE f.shaded /\ Side(f.dir) = "E"
  <2>1. UpdateAbsolute(f) = WithPlace(f, Rect(g.x + g.w - old, old))
    BY <1>6, <1>10
  <2>2. Rect(g.x + g.w - old, old) \in Rects
    BY <1>1, <1>4, <1>5, RectType
  <2> QED BY <1>1, <1>5, <1>10, <2>1, <2>2
<1> QED BY <1>7, <1>8, <1>9, <1>10, Sides

\* The place is made from the frame: afterwards they agree.
LEMMA UpdateAgrees ==
  ASSUME FramesAssumption, NEW f \in Window, Vx \in Int,
         f.shaded /\ Side(f.dir) # "N" => f.frame.w = ShadedWidth(f, f.dir)
  PROVE  /\ UpdateAbsolute(f) \in Window /\ SameFrame(f, UpdateAbsolute(f))
         /\ Agrees(UpdateAbsolute(f), Vx)
<1>1. PICK p \in Rects :
           /\ UpdateAbsolute(f) = WithPlace(f, p)
           /\ ~f.shaded \/ Side(f.dir) = "N" => p = At(f.frame, Vx)
           /\ f.shaded /\ Side(f.dir) = "W" =>
                p = Rect(f.frame.x + Vx, Place(f).w)
           /\ f.shaded /\ Side(f.dir) = "E" =>
                p = Rect(f.frame.x + Vx + f.frame.w - Place(f).w, Place(f).w)
  BY UpdatedPlace
<1>2. PICK u \in Window : u = UpdateAbsolute(f) /\ SameFrame(f, u) /\ Place(u) = p
  BY <1>1, WithPlaceFacts
<1>3. PICK x \in Int, w \in Int : f.frame = Rect(x, w) /\ f.frame.x = x /\ f.frame.w = w
  BY RectFields DEF Window
<1>4. PICK old \in Int : old = Place(f).w
  BY PlaceType, RectFields
<1>5. PICK g \in Rects : g = At(p, -Vx) /\ g = Rect(p.x + (-Vx), p.w)
  BY AtType
<1>6. u.frame = f.frame /\ u.shaded = f.shaded /\ u.dir = f.dir
  BY <1>2 DEF SameFrame
<1>7. ShadedWidth(u, u.dir) = ShadedWidth(f, f.dir)
  BY <1>2, <1>6, SameBorders
<1>8. CASE ~f.shaded \/ Side(f.dir) = "N"
  <2>1. p = Rect(x + Vx, w)
    <3>1. p = At(f.frame, Vx) /\ f.frame \in Rects
      BY <1>1, <1>8 DEF Window
    <3>2. At(f.frame, Vx) = Rect(f.frame.x + Vx, f.frame.w)
      BY <3>1, AtType
    <3> QED BY <1>3, <3>1, <3>2
  <2>2. p.x = x + Vx /\ p.w = w
    <3>1. PICK z \in Int : z = x + Vx
      OBVIOUS
    <3>2. p = Rect(z, w)
      BY <2>1, <3>1
    <3> QED BY <3>1, <3>2, RectType
  <2>3. g = f.frame
    BY <1>3, <1>5, <2>2
  <2>4. f.shaded => ShadedGeometry(u, u.dir, g) = g
    BY <1>6, <1>8, ShadedType
  <2> QED BY <1>2, <1>5, <1>6, <2>3, <2>4 DEF Agrees
<1>9. CASE f.shaded /\ Side(f.dir) = "W"
  <2>1. p = Rect(x + Vx, old)
    BY <1>1, <1>3, <1>4, <1>9
  <2>2. p.x = x + Vx /\ p.w = old
    BY <1>3, <2>1, RectType
  <2>3. g.x = x
    BY <1>3, <1>5, <2>2, RectType
  <2>4. ShadedGeometry(u, u.dir, g) = Rect(x, w)
    BY <1>3, <1>6, <1>7, <1>9, <2>3, ShadedType
  <2> QED BY <1>2, <1>3, <1>5, <1>6, <1>9, <2>4 DEF Agrees
<1>10. CASE f.shaded /\ Side(f.dir) = "E"
  <2>1. p = Rect(x + Vx + w - old, old)
    BY <1>1, <1>3, <1>4, <1>10
  <2>2. p.x = x + Vx + w - old /\ p.w = old
    BY <1>3, <2>1, RectType
  <2>3. g.x = x + w - old /\ g.w = old
    <3>1. p.x + (-Vx) = x + w - old
      BY <2>2
    <3> QED BY <1>3, <1>5, <2>2, <3>1, RectType
  <2>4. g.x + g.w - ShadedWidth(u, u.dir) = x
    BY <1>3, <1>7, <1>10, <2>3
  <2>5. ShadedGeometry(u, u.dir, g) = Rect(x, w)
    BY <1>3, <1>6, <1>7, <1>10, <2>4, ShadedType
  <2> QED BY <1>2, <1>3, <1>5, <1>6, <1>10, <2>5 DEF Agrees
<1> QED BY <1>8, <1>9, <1>10, Sides

\* g has the borders and the state of f.
Alike(f, g) ==
  /\ g.border = f.border /\ g.thickness = f.thickness /\ g.title = f.title
  /\ g.shaded = f.shaded /\ g.dir = f.dir /\ g.maximized = f.maximized

LEMMA AlikeBorders ==
  ASSUME NEW f, NEW g, Alike(f, g)
  PROVE  /\ Total(g) = Total(f) /\ TopLeft(g) = TopLeft(f)
         /\ ShadedWidth(g, g.dir) = ShadedWidth(f, f.dir)
         /\ g.shaded = f.shaded /\ g.dir = f.dir /\ g.maximized = f.maximized
<1>1. Total(g) = Total(f) /\ TopLeft(g) = TopLeft(f)
  BY DEF Alike, Total, TopLeft
<1> QED BY <1>1 DEF Alike, ShadedWidth

LEMMA NotifiedFacts ==
  ASSUME FramesAssumption, NEW f \in Window
  PROVE  /\ Notified(f) \in Window /\ Alike(f, Notified(f))
         /\ Notified(f).frame = f.frame /\ Notified(f).client = f.client
         /\ Notified(f).normal = f.normal /\ Notified(f).max = f.max
         /\ ~f.shaded => Notified(f).told = {f.frame.x + TopLeft(f)}
<1>1. CASE f.shaded
  BY <1>1 DEF Notified, Alike
<1>2. CASE ~f.shaded
  <2>1. f.frame.x \in Int /\ TopLeft(f) \in Int
    BY BorderTypes, RectFields DEF Window
  <2>2. PICK q \in SUBSET Int : q = {f.frame.x + TopLeft(f)}
    <3>1. PICK e \in Int : e = f.frame.x + TopLeft(f)
      BY <2>1
    <3>2. {e} \in SUBSET Int
      OBVIOUS
    <3> QED BY <3>1, <3>2
  <2>3. Notified(f) = [f EXCEPT !.told = q]
    BY <1>2, <2>2 DEF Notified
  <2> QED BY <2>2, <2>3 DEF Alike, Window
<1> QED BY <1>1, <1>2

LEMMA UnshadedWidth ==
  ASSUME NEW f \in Window, Vx \in Int
  PROVE  /\ Unshaded(f) \in Rects
         /\ f.shaded => Unshaded(f) = At(Place(f), -Vx) /\ Unshaded(f).w = Place(f).w
<1>1. Place(f) \in Rects /\ -Vx \in Int /\ f.frame \in Rects
  BY PlaceType DEF Window
<1>2. At(Place(f), -Vx) \in Rects /\ At(Place(f), -Vx) = Rect(Place(f).x + (-Vx), Place(f).w)
  BY <1>1, AtType
<1>3. Place(f).x \in Int /\ Place(f).w \in Int
  BY <1>1, RectFields
<1>4. At(Place(f), -Vx).w = Place(f).w
  BY <1>2, <1>3, RectType
<1> QED BY <1>1, <1>2, <1>4 DEF Unshaded

LEMMA PlaceRoomy ==
  ASSUME NEW f \in Window, Roomy(f)
  PROVE  Place(f).w > Total(f)
  BY DEF Roomy, Place

\* What __frame_setup_window leaves as it is, and what it sets
LEMMA SetupFacts ==
  ASSUME FramesAssumption, NEW f \in Window, NEW g \in Rects,
         NEW send \in BOOLEAN, NEW force \in BOOLEAN, force => send,
         Vx \in Int, Roomy(f),
         NEW s, s = FrameSetup(f, g, send, force)
  PROVE  /\ s \in Window /\ Alike(f, s) /\ s.frame = g /\ s.client > 0
         /\ f.maximized => s.normal = f.normal
         /\ ~f.maximized => s.max = f.max
         /\ ~force /\ g.w = f.frame.w => Place(s) = Place(f)
         /\ f.shaded /\ Side(f.dir) # "N" => Place(s).w = Place(f).w
         /\ Place(s).w \in {Place(f).w, g.w}
         /\ Knows(f) \/ (force /\ send) => (g.w > Total(f) => Knows(s))
         /\ force \/ g.w # f.frame.w =>
              (Fits(f, g) => Agrees(s, Vx))
<1> DEFINE redo == force \/ g.w # f.frame.w
           w == CASE ~redo -> f.client
                  [] redo /\ ~Hidden(f, g) -> Larger(g.w - Total(f), 1)
                  [] OTHER -> IF force \/ ~Hidden(f, f.frame) THEN ClientWidth(f)
                              ELSE f.client
<1>1. /\ g.w \in Int /\ g.x \in Int /\ f.client \in Int /\ Total(f) \in Int
      /\ TopLeft(f) \in Int /\ f.client > 0
      /\ f.frame.w \in Int /\ f.frame.x \in Int
  BY BorderTypes, RectFields DEF Window, Roomy
<1>2. ClientWidth(f) \in Int /\ ClientWidth(f) > 0
  <2>1. CASE f.shaded
    <3>1. Unshaded(f).w = Place(f).w /\ Place(f).w \in Int /\ Place(f).w > Total(f)
      BY <2>1, UnshadedWidth, PlaceRoomy, PlaceType, RectFields
    <3> QED BY <1>1, <2>1, <3>1 DEF ClientWidth
  <2>2. CASE ~f.shaded
    BY <1>1, <2>2 DEF ClientWidth
  <2> QED BY <2>1, <2>2
<1>3. /\ w \in Int /\ w > 0
      /\ ~redo => w = f.client
      /\ redo /\ ~Hidden(f, g) => w = Larger(g.w - Total(f), 1)
  <2>1. CASE ~redo
    <3>1. w = f.client
      BY <2>1, Zenon
    <3> QED BY <1>1, <2>1, <3>1
  <2>2. CASE redo /\ ~Hidden(f, g)
    <3>1. w = Larger(g.w - Total(f), 1)
      BY <2>2
    <3>2. Larger(g.w - Total(f), 1) \in Int /\ Larger(g.w - Total(f), 1) > 0
      BY <1>1 DEF Larger
    <3> QED BY <2>2, <3>1, <3>2
  <2>3. CASE redo /\ Hidden(f, g)
    <3>1. w = IF force \/ ~Hidden(f, f.frame) THEN ClientWidth(f) ELSE f.client
      BY <2>3
    <3> HIDE DEF w, redo
    <3> QED BY <1>1, <1>2, <2>3, <3>1
  <2> QED BY <2>1, <2>2, <2>3
<1>4. PICK c \in Int : c = w
  BY <1>3
<1>5. PICK told \in SUBSET Int : told = IF c = f.client THEN f.told ELSE {}
  BY DEF Window
<1>6. PICK t : t = [f EXCEPT !.client = c, !.told = told, !.frame = g]
  OBVIOUS
<1>7. t \in Window /\ Alike(f, t) /\ t.frame = g /\ t.client = c /\ t.told = told
  BY <1>6 DEF Alike, Window
<1>8. t.normal = f.normal /\ t.max = f.max
  BY <1>6 DEF Window
<1>9. [ClientResized(f, w) EXCEPT !.frame = g] = t
  BY <1>4, <1>5, <1>6 DEF ClientResized
<1>10. PICK u : u = IF redo THEN UpdateAbsolute(t) ELSE t
  OBVIOUS
<1>11. s = IF send \/ (~redo /\ g.x # f.frame.x) THEN Notified(u) ELSE u
  BY <1>9, <1>10 DEF FrameSetup
<1>12. /\ Place(t) = Place(f) /\ Total(t) = Total(f) /\ TopLeft(t) = TopLeft(f)
       /\ ShadedWidth(t, t.dir) = ShadedWidth(f, f.dir)
       /\ t.shaded = f.shaded /\ t.dir = f.dir /\ t.maximized = f.maximized
  BY <1>7, <1>8, AlikeBorders DEF Place
<1> HIDE DEF w
<1>13. /\ u \in Window /\ SameFrame(t, u)
       /\ f.maximized => u.normal = f.normal
       /\ ~f.maximized => u.max = f.max
       /\ ~redo => Place(u) = Place(f)
       /\ f.shaded /\ Side(f.dir) # "N" => Place(u).w = Place(f).w
       /\ Place(u).w \in {Place(f).w, g.w}
  <2>1. CASE ~redo
    BY <1>7, <1>8, <1>10, <1>12, <2>1 DEF SameFrame
  <2>2. CASE redo
    <3>1. u = UpdateAbsolute(t)
      BY <1>10, <2>2
    <3>2. PICK p \in Rects :
           /\ UpdateAbsolute(t) = WithPlace(t, p)
           /\ ~t.shaded \/ Side(t.dir) = "N" => p = At(t.frame, Vx)
           /\ t.shaded /\ Side(t.dir) = "W" =>
                p = Rect(t.frame.x + Vx, Place(t).w)
           /\ t.shaded /\ Side(t.dir) = "E" =>
                p = Rect(t.frame.x + Vx + t.frame.w - Place(t).w, Place(t).w)
      BY <1>7, UpdatedPlace
    <3>3. /\ u \in Window /\ SameFrame(t, u) /\ Place(u) = p
          /\ t.maximized => u.normal = t.normal
          /\ ~t.maximized => u.max = t.max
      BY <1>7, <3>1, <3>2, WithPlaceFacts
    <3>4. Place(t).w \in Int /\ t.frame.x + Vx \in Int /\ t.frame.w \in Int
      <4>1. Place(t).w \in Int
        BY <1>7, PlaceType, RectFields
      <4> QED BY <1>1, <1>7, <4>1
    <3>5. CASE ~f.shaded \/ Side(f.dir) = "N"
      <4>1. p = Rect(g.x + Vx, g.w)
        BY <1>7, <1>12, <3>2, <3>5, AtType
      <4>2. p.w = g.w
        <5>1. g.x + Vx \in Int /\ g.w \in Int
          BY <1>1
        <5> QED BY <4>1, <5>1, RectType
      <4> QED BY <1>8, <1>12, <2>2, <3>3, <3>5, <4>2
    <3>6. CASE f.shaded /\ Side(f.dir) = "W"
      <4>1. p.w = Place(f).w
        BY <1>12, <3>2, <3>4, <3>6, RectType
      <4> QED BY <1>8, <1>12, <2>2, <3>3, <3>6, <4>1
    <3>7. CASE f.shaded /\ Side(f.dir) = "E"
      <4>1. t.frame.x + Vx + t.frame.w - Place(t).w \in Int
        BY <3>4
      <4>2. p.w = Place(f).w
        BY <1>12, <3>2, <3>4, <3>7, <4>1, RectType
      <4> QED BY <1>8, <1>12, <2>2, <3>3, <3>7, <4>2
    <3> QED BY <3>5, <3>6, <3>7, Sides
  <2> QED BY <2>1, <2>2
<1>14. redo /\ Fits(f, g) => Agrees(u, Vx)
  <2>1. SUFFICES ASSUME redo, Fits(f, g) PROVE Agrees(u, Vx)
    OBVIOUS
  <2>2. t.shaded /\ Side(t.dir) # "N" => t.frame.w = ShadedWidth(t, t.dir)
    BY <1>7, <1>12, <2>1 DEF Fits
  <2> QED BY <1>7, <1>10, <2>1, <2>2, UpdateAgrees
<1>15. /\ Alike(f, u) /\ u.frame = g /\ u.client = c /\ u.told = told
       /\ u.shaded = f.shaded /\ TopLeft(u) = TopLeft(f) /\ Total(u) = Total(f)
  <2>1. Alike(f, u) /\ u.frame = g /\ u.client = c /\ u.told = told
    BY <1>7, <1>13 DEF SameFrame, Alike
  <2> QED BY <2>1, AlikeBorders
<1>16. /\ s \in Window /\ Alike(f, s) /\ s.frame = g /\ s.client = c
       /\ s.normal = u.normal /\ s.max = u.max
       /\ Place(s) = Place(u) /\ (Agrees(u, Vx) => Agrees(s, Vx))
       /\ s.shaded = f.shaded /\ TopLeft(s) = TopLeft(f) /\ Total(s) = Total(f)
  <2>1. CASE s = u
    BY <1>13, <1>15, <2>1
  <2>2. CASE s = Notified(u)
    <3>1. /\ s \in Window /\ Alike(u, s) /\ s.frame = u.frame /\ s.client = u.client
          /\ s.normal = u.normal /\ s.max = u.max
      BY <1>13, <2>2, NotifiedFacts
    <3>2. Alike(f, s)
      BY <1>15, <3>1 DEF Alike
    <3>3. Place(s) = Place(u)
      BY <3>1 DEF Place, Alike
    <3>4. Agrees(u, Vx) => Agrees(s, Vx)
      <4>1. \A q \in Rects : ShadedGeometry(s, s.dir, q) = ShadedGeometry(u, u.dir, q)
        BY <3>1, AlikeBorders DEF ShadedGeometry, Alike
      <4>2. At(Place(u), -Vx) \in Rects
        BY <1>13, PlaceType, AtType
      <4> QED BY <3>1, <3>3, <4>1, <4>2 DEF Agrees, Alike
    <3> QED BY <1>15, <3>1, <3>2, <3>3, <3>4, AlikeBorders
  <2> QED BY <1>11, <2>1, <2>2
<1>17. /\ (send \/ (~redo /\ g.x # f.frame.x)) /\ ~f.shaded =>
            s.told = {g.x + TopLeft(f)}
       /\ ~(send \/ (~redo /\ g.x # f.frame.x)) => s.told = told
  BY <1>11, <1>13, <1>15, NotifiedFacts
<1>18. Knows(f) \/ (force /\ send) => (g.w > Total(f) => Knows(s))
  <2>1. SUFFICES ASSUME Knows(f) \/ (force /\ send), g.w > Total(f), ~f.shaded
                 PROVE  c = g.w - Total(f) /\ s.told \subseteq {g.x + TopLeft(f)}
    BY <1>16 DEF Knows
  <2>2. ~Hidden(f, g)
    BY <1>1, <2>1 DEF Hidden
  <2>3. redo => c = g.w - Total(f)
    BY <1>1, <1>3, <1>4, <2>1, <2>2 DEF Larger
  <2>4. CASE ~redo
    <3>1. /\ Knows(f) /\ g.w = f.frame.w
      BY <2>1, <2>4
    <3>2. c = f.client /\ f.client = g.w - Total(f)
          /\ f.told \subseteq {f.frame.x + TopLeft(f)}
      BY <1>3, <1>4, <2>1, <2>4, <3>1 DEF Knows
    <3>3. told = f.told
      BY <1>5, <3>2
    <3>4. CASE g.x = f.frame.x
      <4>1. s.told = told \/ s.told = {g.x + TopLeft(f)}
        BY <1>17, <2>1
      <4> QED BY <3>2, <3>3, <3>4, <4>1
    <3>5. CASE g.x # f.frame.x
      BY <1>17, <2>1, <2>4, <3>2, <3>5
    <3> QED BY <3>4, <3>5
  <2>5. CASE redo /\ send
    BY <1>17, <2>1, <2>3, <2>5
  <2>6. CASE redo /\ ~send
    <3>1. Knows(f) /\ g.w # f.frame.w
      BY <2>1, <2>6
    <3>2. s.told = told
      BY <1>17, <2>6
    <3>3. f.client = f.frame.w - Total(f) /\ f.told \subseteq {f.frame.x + TopLeft(f)}
      BY <2>1, <3>1 DEF Knows
    <3>4. c = g.w - Total(f)
      BY <2>3, <2>6
    <3>5. c # f.client
      BY <1>1, <3>1, <3>3, <3>4
    <3>6. s.told = {}
      BY <1>5, <3>2, <3>5
    <3> QED BY <3>4, <3>6
  <2> QED BY <2>4, <2>5, <2>6
<1> QED BY <1>3, <1>4, <1>13, <1>14, <1>16, <1>18

\* Only the place towards a side of which the window is shaded keeps its width.
LEMMA UpdatedWidth ==
  ASSUME NEW f \in Window, Vx \in Int
  PROVE  /\ f.shaded /\ Side(f.dir) # "N" =>
              Place(UpdateAbsolute(f)).w = Place(f).w
         /\ ~(f.shaded /\ Side(f.dir) # "N") =>
              Place(UpdateAbsolute(f)).w = f.frame.w
<1>1. PICK p \in Rects :
           /\ UpdateAbsolute(f) = WithPlace(f, p)
           /\ ~f.shaded \/ Side(f.dir) = "N" => p = At(f.frame, Vx)
           /\ f.shaded /\ Side(f.dir) = "W" =>
                p = Rect(f.frame.x + Vx, Place(f).w)
           /\ f.shaded /\ Side(f.dir) = "E" =>
                p = Rect(f.frame.x + Vx + f.frame.w - Place(f).w, Place(f).w)
  BY UpdatedPlace
<1>2. Place(UpdateAbsolute(f)) = p
  BY <1>1, WithPlaceFacts
<1>3. PICK g \in Rects : g = f.frame
  BY DEF Window
<1>4. g.x \in Int /\ g.w \in Int /\ Place(f).w \in Int /\ g.x + Vx \in Int
  <2>1. g.x \in Int /\ g.w \in Int /\ Place(f).w \in Int
    BY PlaceType, RectFields
  <2> QED BY <2>1
<1>5. CASE ~f.shaded \/ Side(f.dir) = "N"
  <2>1. p = Rect(g.x + Vx, g.w)
    BY <1>1, <1>3, <1>5, AtType
  <2>2. p.w = g.w
    BY <1>4, <2>1, RectType
  <2> QED BY <1>2, <1>3, <1>5, <2>2
<1>6. CASE f.shaded /\ Side(f.dir) = "W"
  <2>1. p.w = Place(f).w
    BY <1>1, <1>3, <1>4, <1>6, RectType
  <2> QED BY <1>2, <1>6, <2>1
<1>7. CASE f.shaded /\ Side(f.dir) = "E"
  <2>1. g.x + Vx + g.w - Place(f).w \in Int
    BY <1>4
  <2>2. p.w = Place(f).w
    BY <1>1, <1>3, <1>4, <1>7, <2>1, RectType
  <2> QED BY <1>2, <1>7, <2>2
<1> QED BY <1>5, <1>6, <1>7, Sides

\* The place that is made from a frame with room for the client has room.
LEMMA UpdatedRoomy ==
  ASSUME FramesAssumption, NEW f \in Window, Vx \in Int, Roomy(f), Fits(f, f.frame)
  PROVE  /\ UpdateAbsolute(f) \in Window /\ SameFrame(f, UpdateAbsolute(f))
         /\ Agrees(UpdateAbsolute(f), Vx) /\ Roomy(UpdateAbsolute(f))
<1>1. f.shaded /\ Side(f.dir) # "N" => f.frame.w = ShadedWidth(f, f.dir)
  BY DEF Fits
<1>2. PICK u \in Window : u = UpdateAbsolute(f) /\ SameFrame(f, u) /\ Agrees(u, Vx)
  BY <1>1, UpdateAgrees
<1>3. PICK p \in Rects :
           /\ UpdateAbsolute(f) = WithPlace(f, p)
           /\ ~f.shaded \/ Side(f.dir) = "N" => p = At(f.frame, Vx)
           /\ f.shaded /\ Side(f.dir) = "W" =>
                p = Rect(f.frame.x + Vx, Place(f).w)
           /\ f.shaded /\ Side(f.dir) = "E" =>
                p = Rect(f.frame.x + Vx + f.frame.w - Place(f).w, Place(f).w)
  BY UpdatedPlace
<1>4. /\ f.maximized => u.max = p /\ u.normal = f.normal
      /\ ~f.maximized => u.normal = p /\ u.max = f.max
      /\ Place(u) = p
  BY <1>2, <1>3, WithPlaceFacts
<1>5. Place(f).w > Total(f)
  BY PlaceRoomy
<1>6. p.w > Total(f)
  <2>1. CASE f.shaded /\ Side(f.dir) # "N"
    BY <1>2, <1>4, <1>5, <2>1, UpdatedWidth
  <2>2. CASE ~(f.shaded /\ Side(f.dir) # "N")
    BY <1>2, <1>4, <2>2, UpdatedWidth DEF Fits
  <2> QED BY <2>1, <2>2
<1>7. /\ Total(u) = Total(f) /\ u.client > 0 /\ (u.maximized <=> f.maximized)
      /\ Total(f) \in Nat /\ p.w \in Int
  <2>1. Total(u) = Total(f)
    BY <1>2, SameBorders
  <2>2. Total(f) \in Nat /\ p.w \in Int
    BY BorderTypes, RectFields
  <2> QED BY <1>2, <2>1, <2>2 DEF SameFrame, Roomy
<1>8. Roomy(u)
  BY <1>4, <1>6, <1>7 DEF Roomy
<1> QED BY <1>2, <1>8

\* What a command does: the frame is set up, and the place made from it.
LEMMA Settled ==
  ASSUME FramesAssumption, NEW f \in Window, NEW g \in Rects,
         NEW send \in BOOLEAN, Vx \in Int, Roomy(f), Knows(f), Fits(f, g)
  PROVE  /\ Good(UpdateAbsolute(FrameSetup(f, g, send, FALSE)), Vx)
         /\ Alike(f, UpdateAbsolute(FrameSetup(f, g, send, FALSE)))
<1>0. PICK force \in BOOLEAN : force = FALSE
  OBVIOUS
<1>1. PICK s : s = FrameSetup(f, g, send, force)
  OBVIOUS
<1>2. /\ s \in Window /\ Alike(f, s) /\ s.frame = g /\ s.client > 0
      /\ f.maximized => s.normal = f.normal
      /\ ~f.maximized => s.max = f.max
      /\ f.shaded /\ Side(f.dir) # "N" => Place(s).w = Place(f).w
      /\ Place(s).w \in {Place(f).w, g.w}
      /\ g.w > Total(f) => Knows(s)
  <2>1. force => send
    BY <1>0
  <2>2. /\ s \in Window /\ Alike(f, s) /\ s.frame = g /\ s.client > 0
        /\ f.maximized => s.normal = f.normal
        /\ ~f.maximized => s.max = f.max
        /\ f.shaded /\ Side(f.dir) # "N" => Place(s).w = Place(f).w
        /\ Place(s).w \in {Place(f).w, g.w}
        /\ Knows(f) \/ (force /\ send) => (g.w > Total(f) => Knows(s))
    BY <1>1, <2>1, SetupFacts
  <2> QED BY <2>2
<1>3. /\ Total(s) = Total(f) /\ ShadedWidth(s, s.dir) = ShadedWidth(f, f.dir)
      /\ s.shaded = f.shaded /\ s.dir = f.dir /\ s.maximized = f.maximized
  BY <1>2, AlikeBorders
<1>4. Fits(s, s.frame)
  BY <1>2, <1>3 DEF Fits
<1>5. Knows(s)
  <2>1. CASE f.shaded
    BY <1>3, <2>1 DEF Knows
  <2>2. CASE ~f.shaded
    BY <1>2, <2>2 DEF Fits
  <2> QED BY <2>1, <2>2
<1>6. Roomy(s)
  <2>1. Place(s).w > Total(s) /\ Total(s) \in Nat /\ Place(s).w \in Int
    <3>1. CASE f.shaded /\ Side(f.dir) # "N"
      BY <1>2, <1>3, <3>1, PlaceRoomy, PlaceType, RectFields, BorderTypes
    <3>2. CASE ~(f.shaded /\ Side(f.dir) # "N")
      <4>1. g.w > Total(f)
        BY <3>2 DEF Fits
      <4>2. Place(s).w \in {Place(f).w, g.w}
        BY <1>2
      <4> QED BY <1>2, <1>3, <4>1, <4>2, PlaceRoomy, PlaceType, RectFields, BorderTypes
    <3> QED BY <3>1, <3>2
  <2>2. CASE f.maximized
    <3>1. Place(s) = s.max
      BY <1>3, <2>2 DEF Place
    <3> QED BY <1>2, <1>3, <2>1, <2>2, <3>1 DEF Roomy
  <2>3. CASE ~f.maximized
    <3>1. Place(s) = s.normal
      BY <1>3, <2>3 DEF Place
    <3> QED BY <1>2, <1>3, <2>1, <2>3, <3>1 DEF Roomy
  <2> QED BY <2>2, <2>3
<1>7. PICK u \in Window : /\ u = UpdateAbsolute(s) /\ SameFrame(s, u)
                          /\ Agrees(u, Vx) /\ Roomy(u)
  BY <1>2, <1>4, <1>6, UpdatedRoomy
<1>8. Knows(u)
  BY <1>5, <1>7, SameBorders
<1>9. Alike(f, u)
  BY <1>2, <1>7 DEF SameFrame, Alike
<1> QED BY <1>0, <1>1, <1>7, <1>8, <1>9 DEF Good

\* apply_window_updates sets up the frame in any case.
LEMMA Forced ==
  ASSUME FramesAssumption, NEW f \in Window, NEW g \in Rects, Vx \in Int,
         Roomy(f), Fits(f, g)
  PROVE  Good(FrameSetup(f, g, TRUE, TRUE), Vx)
<1>0. PICK yes \in BOOLEAN : yes = TRUE
  OBVIOUS
<1>1. PICK s : s = FrameSetup(f, g, yes, yes)
  OBVIOUS
<1>2. /\ s \in Window /\ Alike(f, s) /\ s.frame = g /\ s.client > 0
      /\ f.maximized => s.normal = f.normal
      /\ ~f.maximized => s.max = f.max
      /\ f.shaded /\ Side(f.dir) # "N" => Place(s).w = Place(f).w
      /\ Place(s).w \in {Place(f).w, g.w}
      /\ g.w > Total(f) => Knows(s)
      /\ Agrees(s, Vx)
  <2>1. /\ s \in Window /\ Alike(f, s) /\ s.frame = g /\ s.client > 0
        /\ f.maximized => s.normal = f.normal
        /\ ~f.maximized => s.max = f.max
        /\ f.shaded /\ Side(f.dir) # "N" => Place(s).w = Place(f).w
        /\ Place(s).w \in {Place(f).w, g.w}
        /\ Knows(f) \/ (yes /\ yes) => (g.w > Total(f) => Knows(s))
        /\ yes \/ g.w # f.frame.w => (Fits(f, g) => Agrees(s, Vx))
    BY <1>1, SetupFacts
  <2> QED BY <1>0, <2>1
<1>3. Total(s) = Total(f) /\ s.shaded = f.shaded /\ s.maximized = f.maximized
  BY <1>2, AlikeBorders
<1>4. Knows(s)
  <2>1. CASE f.shaded
    BY <1>3, <2>1 DEF Knows
  <2>2. CASE ~f.shaded
    BY <1>2, <2>2 DEF Fits
  <2> QED BY <2>1, <2>2
<1>5. Place(s).w > Total(s)
  BY <1>2, <1>3, PlaceRoomy DEF Fits
<1>6. Roomy(s)
  <2>1. Total(f) \in Nat /\ Place(s).w \in Int
    BY <1>2, BorderTypes, PlaceType, RectFields
  <2>2. CASE f.maximized
    <3>1. Place(s) = s.max
      BY <1>3, <2>2 DEF Place
    <3> QED BY <1>2, <1>3, <1>5, <2>1, <2>2, <3>1 DEF Roomy
  <2>3. CASE ~f.maximized
    <3>1. Place(s) = s.normal
      BY <1>3, <2>3 DEF Place
    <3> QED BY <1>2, <1>3, <1>5, <2>1, <2>3, <3>1 DEF Roomy
  <2> QED BY <2>2, <2>3
<1> QED BY <1>0, <1>1, <1>2, <1>4, <1>6 DEF Good

LEMMA ShadedFits ==
  ASSUME FramesAssumption, NEW f \in Window, NEW g \in Rects, g.w > Total(f)
  PROVE  /\ f.shaded => Fits(f, ShadedGeometry(f, f.dir, g))
         /\ ~f.shaded => Fits(f, g)
<1>1. CASE f.shaded /\ Side(f.dir) = "N"
  BY <1>1, ShadedType DEF Fits
<1>2. CASE f.shaded /\ Side(f.dir) = "W"
  <2>1. ShadedGeometry(f, f.dir, g) = Rect(g.x, ShadedWidth(f, f.dir))
    BY <1>2, ShadedType
  <2>2. ShadedGeometry(f, f.dir, g).w = ShadedWidth(f, f.dir)
    BY <2>1, RectFields, RectType, ShadedWidthType
  <2> QED BY <1>2, <2>2 DEF Fits
<1>3. CASE f.shaded /\ Side(f.dir) = "E"
  <2>1. PICK w \in Int : w = ShadedWidth(f, f.dir)
    BY ShadedWidthType
  <2>2. ShadedGeometry(f, f.dir, g) = Rect(g.x + g.w - w, w)
    BY <1>3, <2>1, ShadedType
  <2>3. g.x + g.w - w \in Int
    BY RectFields
  <2>4. ShadedGeometry(f, f.dir, g).w = w
    BY <2>2, <2>3, RectType
  <2> QED BY <1>3, <2>1, <2>4 DEF Fits
<1>4. CASE ~f.shaded
  BY <1>4 DEF Fits
<1> QED BY <1>1, <1>2, <1>3, <1>4, Sides

LEMMA RefittedGood ==
  ASSUME FramesAssumption, NEW f \in Window, Vx \in Int, Roomy(f)
  PROVE  Good(Refitted(f), Vx)
<1>1. PICK g \in Rects : g = At(Place(f), -Vx) /\ g.w = Place(f).w
  <2>1. Place(f) \in Rects /\ -Vx \in Int
    BY PlaceType
  <2>2. Place(f).x + (-Vx) \in Int /\ Place(f).w \in Int
    BY <2>1, RectFields
  <2>3. At(Place(f), -Vx) \in Rects /\ At(Place(f), -Vx) = Rect(Place(f).x + (-Vx), Place(f).w)
    BY <2>1, AtType
  <2> QED BY <2>2, <2>3, RectType
<1>2. PICK d \in Dirs : d = IF f.shaded /\ f.byTitle THEN f.title ELSE f.dir
  BY DEF Window, Dirs
<1>3. PICK t : t = [f EXCEPT !.dir = d]
  OBVIOUS
<1>4. /\ t \in Window /\ t.shaded = f.shaded /\ Total(t) = Total(f)
      /\ Roomy(t)
  BY <1>3 DEF Window, Total, Roomy
<1>5. g.w > Total(t)
  BY <1>1, <1>4, PlaceRoomy
<1>6. PICK e : e = IF f.shaded THEN ShadedGeometry(t, t.dir, g) ELSE g
  OBVIOUS
<1>7. e \in Rects /\ Fits(t, e)
  BY <1>4, <1>5, <1>6, ShadedType, ShadedFits
<1>8. Refitted(f) = FrameSetup(t, e, TRUE, TRUE)
  BY <1>1, <1>2, <1>3, <1>6 DEF Refitted
<1> QED BY <1>4, <1>7, <1>8, Forced

\* The borders of old become those of f, and the client keeps its width.
LEMMA ReborderGood ==
  ASSUME FramesAssumption, NEW old \in Window, NEW f \in Window, Vx \in Int, Roomy(old),
         f.maximized = old.maximized, f.normal = old.normal, f.max = old.max,
         f.client = old.client
  PROVE  Good(Reborder(old, f), Vx)
<1>1. PICK n \in Rects : /\ n = Redecorated(old, f, f.hints.grav, f.normal)
                         /\ n.w = f.normal.w - Total(old) + Total(f)
  BY RedecoratedType DEF Window
<1>2. PICK m \in Rects : /\ m = Redecorated(old, f, "W", f.max)
                         /\ m.w = f.max.w - Total(old) + Total(f)
  BY RedecoratedType DEF Window
<1>3. /\ Total(old) \in Nat /\ Total(f) \in Nat /\ f.normal.w \in Int /\ f.max.w \in Int
      /\ n.w \in Int /\ m.w \in Int
  BY BorderTypes, RectFields DEF Window
<1>4. n.w > Total(f) /\ (f.maximized => m.w > Total(f))
  BY <1>1, <1>2, <1>3 DEF Roomy
<1>5. PICK r : r = [f EXCEPT !.normal = n]
  OBVIOUS
<1>6. CASE f.maximized
  <2>1. PICK s : s = [r EXCEPT !.max = m]
    OBVIOUS
  <2>2. /\ s \in Window /\ Total(s) = Total(f) /\ s.normal = n /\ s.max = m
        /\ s.client = f.client
    BY <1>5, <2>1 DEF Window, Total
  <2>3. Roomy(s)
    BY <1>3, <1>4, <1>6, <2>2 DEF Roomy
  <2>4. r.max = f.max
    BY <1>5 DEF Window
  <2>5. Reborder(old, f) = Refitted(s)
    BY <1>1, <1>2, <1>5, <1>6, <2>1, <2>4 DEF Reborder
  <2> QED BY <2>2, <2>3, <2>5, RefittedGood
<1>7. CASE ~f.maximized
  <2>1. /\ r \in Window /\ Total(r) = Total(f) /\ r.normal = n /\ r.max = f.max
        /\ r.client = f.client /\ r.maximized = f.maximized
    BY <1>5 DEF Window, Total
  <2>2. Roomy(r)
    BY <1>4, <1>7, <2>1 DEF Roomy
  <2>3. Reborder(old, f) = Refitted(r)
    BY <1>1, <1>5, <1>7 DEF Reborder
  <2> QED BY <2>1, <2>2, <2>3, RefittedGood
<1> QED BY <1>6, <1>7

---------------------------------------------------------------------------
(* What leaves a window good                                               *)

LEMMA SameAgrees ==
  ASSUME NEW f, NEW g, NEW v,
         g.border = f.border, g.thickness = f.thickness, g.title = f.title,
         g.shaded = f.shaded, f.shaded => g.dir = f.dir, g.frame = f.frame,
         Place(g) = Place(f), Agrees(f, v)
  PROVE  Agrees(g, v)
<1>1. Total(g) = Total(f)
  BY DEF Total
<1>2. CASE f.shaded
  BY <1>1, <1>2 DEF Agrees, ShadedGeometry
<1>3. CASE ~f.shaded
  BY <1>3 DEF Agrees
<1> QED BY <1>2, <1>3

\* g shows what f does.
SameShown(f, g) ==
  /\ g.border = f.border /\ g.thickness = f.thickness /\ g.title = f.title
  /\ g.shaded = f.shaded /\ g.frame = f.frame /\ g.client = f.client
  /\ g.told = f.told

LEMMA SameKnows ==
  ASSUME NEW f, NEW g, SameShown(f, g)
  PROVE  (Knows(f) => Knows(g)) /\ Total(g) = Total(f)
<1>1. Total(g) = Total(f) /\ TopLeft(g) = TopLeft(f)
  BY DEF Total, TopLeft, SameShown
<1> QED BY <1>1 DEF Knows, SameShown

\* g differs from f in hints, limits and what is to be done with them.
SamePlaces(f, g) == SameFrame(f, g) /\ g.normal = f.normal /\ g.max = f.max

LEMMA SameGood ==
  ASSUME NEW f \in Window, NEW g \in Window, NEW v, SamePlaces(f, g), Good(f, v)
  PROVE  Good(g, v) /\ (Bordered(f) => Bordered(g)) /\ Unshaded(g) = Unshaded(f)
<1>1. Place(g) = Place(f)
  BY DEF SamePlaces, SameFrame, Place
<1>2. Agrees(g, v)
  BY <1>1, SameAgrees DEF SamePlaces, SameFrame, Good
<1>3. Knows(g)
  BY SameKnows DEF SamePlaces, SameFrame, SameShown, Good
<1>4. Total(g) = Total(f)
  BY SameBorders DEF SamePlaces
<1>5. Roomy(g)
  BY <1>4 DEF Roomy, Good, SamePlaces, SameFrame
<1>6. Bordered(f) => Bordered(g)
  BY <1>4 DEF Bordered, SamePlaces, SameFrame
<1>7. Unshaded(g) = Unshaded(f)
  BY <1>1 DEF Unshaded, SamePlaces, SameFrame
<1> QED BY <1>2, <1>3, <1>5, <1>6, <1>7 DEF Good

LEMMA AdoptedFacts ==
  ASSUME NEW f \in Window, hints \in HintSets
  PROVE  Adopted(f) \in Window /\ SamePlaces(f, Adopted(f))
<1>1. CASE f.newHints
  <2>1. hints \in HintsOf
    BY DEF HintsOf
  <2>2. Adopted(f) = [f EXCEPT !.hints = hints, !.newHints = FALSE]
    BY <1>1 DEF Adopted
  <2> QED BY <2>1, <2>2 DEF SamePlaces, SameFrame, Window
<1>2. CASE ~f.newHints
  BY <1>2 DEF Adopted, SamePlaces, SameFrame
<1> QED BY <1>1, <1>2

LEMMA NotifiedGood ==
  ASSUME FramesAssumption, NEW f, NEW v, Good(f, v)
  PROVE  Good(Notified(f), v)
<1>1. f \in Window
  BY DEF Good
<1>2. PICK g : g = Notified(f)
  OBVIOUS
<1>3. /\ g \in Window /\ Alike(f, g) /\ g.frame = f.frame /\ g.client = f.client
      /\ g.normal = f.normal /\ g.max = f.max
      /\ ~f.shaded => g.told = {f.frame.x + TopLeft(f)}
  BY <1>1, <1>2, NotifiedFacts
<1>4. Total(g) = Total(f) /\ TopLeft(g) = TopLeft(f)
  BY <1>3, AlikeBorders
<1>5. Place(g) = Place(f)
  BY <1>3 DEF Place, Alike
<1>6. Agrees(g, v)
  BY <1>3, <1>5, SameAgrees DEF Good, Alike
<1>7. Knows(g) /\ Roomy(g)
  BY <1>3, <1>4 DEF Good, Knows, Roomy, Alike
<1> QED BY <1>2, <1>3, <1>6, <1>7 DEF Good

LEMMA GoodFits ==
  ASSUME FramesAssumption, NEW f, NEW v \in Int, Good(f, v)
  PROVE  /\ f.frame \in Rects /\ f.frame.w \in Int /\ f.frame.w > 0
         /\ \A g \in Rects : g.w = f.frame.w => Fits(f, g)
<1>1. f \in Window /\ f.frame \in Rects /\ Roomy(f) /\ Agrees(f, v)
  BY DEF Good, Window
<1>2. PICK g \in Rects : g = At(Place(f), -v) /\ g.w = Place(f).w
  <2>1. Place(f) \in Rects /\ -v \in Int
    BY <1>1, PlaceType
  <2>2. Place(f).x + (-v) \in Int /\ Place(f).w \in Int
    BY <2>1, RectFields
  <2>3. /\ At(Place(f), -v) \in Rects
        /\ At(Place(f), -v) = Rect(Place(f).x + (-v), Place(f).w)
    BY <2>1, AtType
  <2> QED BY <2>2, <2>3, RectType
<1>3. g.w > Total(f)
  BY <1>1, <1>2, PlaceRoomy
<1>4. f.frame = IF f.shaded THEN ShadedGeometry(f, f.dir, g) ELSE g
  BY <1>1, <1>2 DEF Agrees
<1>5. Fits(f, f.frame)
  BY <1>1, <1>3, <1>4, ShadedFits
<1>6. f.frame.w \in Int /\ Total(f) \in Nat
  BY <1>1, RectFields, BorderTypes
<1>7. f.frame.w > 0
  BY <1>1, <1>5, <1>6, ShadedWidthType DEF Fits
<1> QED BY <1>1, <1>5, <1>6, <1>7 DEF Fits

LEMMA GoodSized ==
  ASSUME FramesAssumption, NEW f, NEW v \in Int, Good(f, v)
  PROVE  Sized(f)
<1>1. f \in Window /\ Roomy(f) /\ f.frame.w > 0
  BY GoodFits DEF Good
<1>2. Total(f) \in Nat /\ f.normal.w \in Int
  BY <1>1, BorderTypes, RectFields DEF Window
<1> QED BY <1>1, <1>2 DEF Sized, Roomy

\* A frame that shows the client, shaded or not, and the place made from it
LEMMA SetupSized ==
  ASSUME FramesAssumption, NEW f \in Window, NEW g \in Rects, g.w > Total(f),
         NEW send \in BOOLEAN, NEW force \in BOOLEAN, force => send,
         Vx \in Int, Roomy(f),
         NEW s, s = FrameSetup(f, g, send, force)
  PROVE  Sized(s) /\ Sized(UpdateAbsolute(s))
<1>1. /\ s \in Window /\ Alike(f, s) /\ s.frame = g /\ s.client > 0
      /\ f.maximized => s.normal = f.normal
      /\ ~f.maximized => s.max = f.max
      /\ Place(s).w \in {Place(f).w, g.w}
  BY SetupFacts
<1>2. /\ Total(f) \in Nat /\ Place(f).w > Total(f) /\ Place(f).w \in Int
      /\ g.w \in Int
  BY BorderTypes, PlaceRoomy, PlaceType, RectFields
<1>3. Place(s).w > 0 /\ s.frame.w > 0
  BY <1>1, <1>2
<1>4. (s.maximized <=> f.maximized)
  BY <1>1 DEF Alike
<1>5. f.normal.w > 0 /\ f.max.w > 0
  <2>1. f.normal.w \in Int /\ f.normal.w > Total(f)
    BY RectFields DEF Window, Roomy
  <2> QED BY <1>2, <2>1 DEF Roomy
<1>6. Sized(s)
  <2>1. CASE f.maximized
    <3>1. Place(s) = s.max
      BY <1>4, <2>1 DEF Place
    <3> QED BY <1>1, <1>3, <1>5, <2>1, <3>1 DEF Sized
  <2>2. CASE ~f.maximized
    <3>1. Place(s) = s.normal
      BY <1>4, <2>2 DEF Place
    <3> QED BY <1>1, <1>3, <1>5, <2>2, <3>1 DEF Sized
  <2> QED BY <2>1, <2>2
<1>7. PICK p \in Rects : UpdateAbsolute(s) = WithPlace(s, p)
  BY <1>1, UpdatedPlace
<1>8. PICK u \in Window :
        /\ u = UpdateAbsolute(s) /\ SameFrame(s, u) /\ Place(u) = p
        /\ s.maximized => u.max = p /\ u.normal = s.normal
        /\ ~s.maximized => u.normal = p /\ u.max = s.max
  BY <1>1, <1>7, WithPlaceFacts
<1>9. p.w > 0
  <2>1. Place(u).w \in {Place(s).w, s.frame.w}
    BY <1>1, <1>8, UpdatedWidth
  <2> QED BY <1>3, <1>8, <2>1
<1>10. u.frame = s.frame /\ u.client = s.client
  BY <1>8 DEF SameFrame
<1>11. Sized(u)
  BY <1>6, <1>8, <1>9, <1>10 DEF Sized
<1> QED BY <1>6, <1>8, <1>11

\* The window as the next state has it
LEMMA BecomesGood ==
  ASSUME FramesAssumption, NEW f, Good(f, Vx), NEW spoilt \in BOOLEAN,
         Becomes(f, spoilt)
  PROVE  /\ Good(fw', Vx') /\ (~crooked' => Bordered(fw'))
         /\ crooked' \in BOOLEAN /\ UNCHANGED <<Vx, hints>>
<1>1. f \in Window
  BY DEF Good
<1>2. PICK m \in Rects : /\ m = IF f.maximized THEN f.max ELSE Rect(0, 1)
                         /\ m.w > 0
  <2>1. CASE f.maximized
    BY <1>1, <2>1 DEF Window, Good, Roomy
  <2>2. CASE ~f.maximized
    BY <2>2, RectType
  <2> QED BY <2>1, <2>2
<1>3. PICK e \in Int : e = IF f.maximized THEN f.defect ELSE 0
  BY <1>1 DEF Window
<1>4. PICK d \in Dirs : d = IF f.shaded THEN f.dir ELSE f.title
  BY <1>1 DEF Window, Dirs
<1>5. PICK g : g = [f EXCEPT !.max = m, !.defect = e, !.dir = d]
  OBVIOUS
<1>6. fw' = g
  BY <1>2, <1>3, <1>4, <1>5 DEF Becomes
<1>7. /\ g \in Window /\ g.border = f.border /\ g.thickness = f.thickness
      /\ g.title = f.title /\ g.shaded = f.shaded /\ g.frame = f.frame
      /\ g.client = f.client /\ g.told = f.told /\ g.maximized = f.maximized
      /\ g.normal = f.normal /\ g.max = m /\ g.dir = d
  BY <1>1, <1>5 DEF Window
<1>8. Place(g) = Place(f)
  BY <1>2, <1>7 DEF Place
<1>9. Agrees(g, Vx)
  BY <1>4, <1>7, <1>8, SameAgrees DEF Good
<1>10. Knows(g)
  BY <1>7, SameKnows DEF Good, SameShown
<1>11. Total(g) = Total(f)
  BY <1>7 DEF Total
<1>12. Roomy(g)
  BY <1>2, <1>7, <1>11 DEF Good, Roomy
<1>13. ~crooked' => Bordered(g)
  <2>1. SUFFICES ASSUME ~crooked', f.shaded, Side(f.dir) # "N" PROVE Total(f) > 0
    BY <1>4, <1>7, <1>11 DEF Bordered
  <2>2. ~Bare(f)
    BY <2>1 DEF Becomes
  <2>3. Total(f) # 0
    BY <2>1, <2>2 DEF Bare
  <2>4. Total(f) \in Nat
    BY <1>1, BorderTypes
  <2> QED BY <2>3, <2>4
<1>14. Vx' = Vx /\ hints' = hints /\ crooked' \in BOOLEAN
  BY DEF Becomes
<1> QED BY <1>6, <1>7, <1>9, <1>10, <1>12, <1>13, <1>14 DEF Good

\* The same of a window whose frame is spoilt
LEMMA BecomesSized ==
  ASSUME NEW f, Sized(f), Becomes(f, TRUE)
  PROVE  Sized(fw') /\ crooked' = TRUE /\ UNCHANGED <<Vx, hints>>
<1>1. f \in Window
  BY DEF Sized
<1>2. PICK m \in Rects : m = (IF f.maximized THEN f.max ELSE Rect(0, 1)) /\ m.w > 0
  <2>1. CASE f.maximized
    BY <1>1, <2>1 DEF Window, Sized
  <2>2. CASE ~f.maximized
    BY <2>2, RectType
  <2> QED BY <2>1, <2>2
<1>3. PICK e \in Int : e = IF f.maximized THEN f.defect ELSE 0
  BY <1>1 DEF Window
<1>4. PICK d \in Dirs : d = IF f.shaded THEN f.dir ELSE f.title
  BY <1>1 DEF Window, Dirs
<1>5. fw' = [f EXCEPT !.max = m, !.defect = e, !.dir = d]
  BY <1>2, <1>3, <1>4 DEF Becomes
<1>6. /\ fw' \in Window /\ fw'.frame = f.frame /\ fw'.client = f.client
      /\ fw'.normal = f.normal /\ fw'.max = m
  BY <1>1, <1>5 DEF Window
<1>7. crooked' = TRUE /\ UNCHANGED <<Vx, hints>>
  BY DEF Becomes
<1> QED BY <1>2, <1>6, <1>7 DEF Sized

---------------------------------------------------------------------------
(* The commands                                                            *)

\* What a command begins with, the hints taken over; the window may be
\* maximized, or no longer.
LEMMA Begun ==
  ASSUME FramesAssumption, NEW f, NEW v, Good(f, v), hints \in HintSets,
         NEW m \in Window, SameShown(f, m), m.dir = f.dir,
         m.normal = f.normal, m.max = f.max,
         NEW g, g = Adopted(m)
  PROVE  /\ g \in Window /\ Knows(g) /\ Total(g) = Total(f)
         /\ SameShown(f, g) /\ g.dir = f.dir
         /\ g.normal = f.normal /\ g.max = f.max
         /\ (g.maximized <=> m.maximized)
<1>1. f \in Window
  BY DEF Good
<1>2. Total(m) = Total(f) /\ Knows(m)
  BY SameKnows DEF Good
<1>3. g \in Window /\ SamePlaces(m, g)
  BY AdoptedFacts
<1>4. Total(g) = Total(f) /\ Knows(g)
  BY <1>2, <1>3, SameBorders DEF SamePlaces
<1>5. SameShown(f, g)
  BY <1>3 DEF SamePlaces, SameFrame, SameShown
<1> QED BY <1>3, <1>4, <1>5 DEF SamePlaces, SameFrame

LEMMA BegunNormal ==
  ASSUME FramesAssumption, NEW f, NEW v, Good(f, v), hints \in HintSets,
         NEW g, g = Adopted([f EXCEPT !.maximized = FALSE])
  PROVE  /\ g \in Window /\ Roomy(g) /\ Knows(g) /\ Total(g) = Total(f)
         /\ g.border = f.border /\ g.shaded = f.shaded /\ g.dir = f.dir
         /\ g.frame = f.frame /\ ~g.maximized
         /\ g.normal = f.normal /\ g.max = f.max
<1>1. f \in Window
  BY DEF Good
<1>2. PICK m : m = [f EXCEPT !.maximized = FALSE]
  OBVIOUS
<1>3. /\ m \in Window /\ SameShown(f, m) /\ m.dir = f.dir
      /\ m.normal = f.normal /\ m.max = f.max /\ ~m.maximized
  BY <1>1, <1>2 DEF Window, SameShown
<1>4. g = Adopted(m)
  BY <1>2
<1>5. /\ g \in Window /\ Knows(g) /\ Total(g) = Total(f)
      /\ SameShown(f, g) /\ g.dir = f.dir
      /\ g.normal = f.normal /\ g.max = f.max
      /\ (g.maximized <=> m.maximized)
  BY <1>3, <1>4, Begun
<1>6. Roomy(g)
  BY <1>3, <1>5 DEF Good, Roomy, SameShown
<1> QED BY <1>3, <1>5, <1>6 DEF SameShown

LEMMA MoveGood ==
  ASSUME FramesAssumption, Good(fw, Vx), Vx \in Int, NEW x \in Int
  PROVE  Good(UpdateAbsolute(FrameSetup(fw, Rect(x, fw.frame.w), TRUE, FALSE)), Vx)
<1>1. fw \in Window /\ Roomy(fw) /\ Knows(fw)
  BY DEF Good
<1>2. fw.frame.w \in Int
  BY GoodFits
<1>3. PICK g \in Rects : g = Rect(x, fw.frame.w) /\ g.w = fw.frame.w
  BY <1>2, RectType
<1>4. Fits(fw, g)
  BY <1>3, GoodFits
<1>5. PICK yes \in BOOLEAN : yes = TRUE
  OBVIOUS
<1> QED BY <1>1, <1>3, <1>4, <1>5, Settled

LEMMA ResizeGood ==
  ASSUME FramesAssumption, SomeSizeFits, Good(fw, Vx), Vx \in Int, hints \in HintSets,
         NEW w \in Int, NEW f, f = Adopted([fw EXCEPT !.maximized = FALSE]),
         NEW g, g = Resized(f.hints.grav, Unshaded(fw), Constrained(f, w) - Unshaded(fw).w)
  PROVE  /\ g \in Rects /\ g.w > Total(f)
         /\ f.shaded =>
              LET n == [f EXCEPT !.normal = g] IN
              Good(UpdateAbsolute(FrameSetup(n, ShadedGeometry(n, n.dir, g), FALSE, FALSE)), Vx)
         /\ ~f.shaded =>
              Good(UpdateAbsolute(FrameSetup(f, g, FALSE, FALSE)), Vx)
<1>1. /\ f \in Window /\ Roomy(f) /\ Knows(f) /\ ~f.maximized
  BY BegunNormal
<1>2. PICK now \in Rects : now = Unshaded(fw)
  BY UnshadedWidth DEF Good
<1>3. PICK c \in Int : c = Constrained(f, w) /\ c > Total(f)
  BY <1>1, ConstrainedFits
<1>4. now.w \in Int
  BY RectFields
<1>5. c - now.w \in Int /\ now.w + (c - now.w) = c
  BY <1>4
<1>6. g = Resized(f.hints.grav, now, c - now.w)
  BY <1>2, <1>3
<1>7. g \in Rects /\ g.w = c
  BY <1>5, <1>6, ResizedType
<1>8. PICK no \in BOOLEAN : no = FALSE
  OBVIOUS
<1>9. CASE f.shaded
  <2>1. PICK n : n = [f EXCEPT !.normal = g]
    OBVIOUS
  <2>2. /\ n \in Window /\ n.shaded /\ Total(n) = Total(f)
        /\ n.max = f.max /\ n.normal = g /\ n.client = f.client
        /\ ~n.maximized
    BY <1>1, <1>7, <1>9, <2>1 DEF Window, Total
  <2>3. Roomy(n) /\ Knows(n)
    BY <1>1, <1>3, <1>7, <2>2 DEF Roomy, Knows
  <2>4. PICK e \in Rects : e = ShadedGeometry(n, n.dir, g) /\ Fits(n, e)
    BY <1>3, <1>7, <2>2, ShadedFits, ShadedType
  <2>5. Good(UpdateAbsolute(FrameSetup(n, e, no, FALSE)), Vx)
    BY <2>2, <2>3, <2>4, Settled
  <2> QED BY <1>3, <1>7, <1>8, <1>9, <2>1, <2>4, <2>5
<1>10. CASE ~f.shaded
  <2>1. Fits(f, g)
    BY <1>1, <1>3, <1>7, <1>10, ShadedFits
  <2>2. Good(UpdateAbsolute(FrameSetup(f, g, no, FALSE)), Vx)
    BY <1>1, <1>7, <2>1, Settled
  <2> QED BY <1>3, <1>7, <1>8, <1>10, <2>2
<1> QED BY <1>9, <1>10

LEMMA ResizeMoveGood ==
  ASSUME FramesAssumption, SomeSizeFits, Good(fw, Vx), Vx \in Int,
         hints \in HintSets, NEW x \in Int, NEW w \in Int,
         NEW f, f = Adopted([fw EXCEPT !.maximized = FALSE]),
         NEW send \in BOOLEAN,
         NEW s, s = UpdateAbsolute(FrameSetup(f, Rect(x, Constrained(f, w)),
                                              send, FALSE))
  PROVE  /\ ~(f.shaded /\ Side(f.dir) # "N") => Good(s, Vx)
         /\ Sized(s)
<1>1. f \in Window /\ Roomy(f) /\ Knows(f)
  BY BegunNormal
<1>2. PICK u \in Int : u = Constrained(f, w) /\ u > Total(f)
  BY <1>1, ConstrainedFits
<1>3. PICK g \in Rects : g = Rect(x, u) /\ g.w = u
  BY RectType
<1>4. PICK no \in BOOLEAN : no = FALSE
  OBVIOUS
<1>5. s = UpdateAbsolute(FrameSetup(f, g, send, no))
  BY <1>2, <1>3, <1>4
<1>6. ASSUME ~(f.shaded /\ Side(f.dir) # "N") PROVE Good(s, Vx)
  <2>1. Fits(f, g)
    BY <1>2, <1>3, <1>6 DEF Fits
  <2> QED BY <1>1, <1>4, <1>5, <2>1, Settled
<1>7. Sized(s)
  <2>1. g.w > Total(f) /\ (no => send)
    BY <1>2, <1>3, <1>4
  <2> QED BY <1>1, <1>5, <2>1, SetupSized
<1> QED BY <1>6, <1>7

LEMMA DefectType ==
  ASSUME FramesAssumption, SomeSizeFits, NEW f \in Window, NEW w \in Int
  PROVE  Defect(f, w) \in Int /\ Wanted(f, w) \in Int
<1>1. PICK d \in Int : d = f.defect
  BY DEF Window
<1>2. w + d \in Int
  OBVIOUS
<1>3. PICK c \in Int : c = Constrained(f, w + d)
  BY <1>2, ConstrainedFits
<1>4. CASE f.maximized
  BY <1>1, <1>2, <1>3, <1>4 DEF Defect, Wanted
<1>5. CASE ~f.maximized
  BY <1>1, <1>5 DEF Defect, Wanted
<1> QED BY <1>4, <1>5

LEMMA BegunMaximized ==
  ASSUME FramesAssumption, NEW f, NEW v, Good(f, v), hints \in HintSets,
         NEW g, g = Adopted([f EXCEPT !.maximized = TRUE, !.defect = 0])
  PROVE  /\ g \in Window /\ Knows(g) /\ Total(g) = Total(f)
         /\ g.normal = f.normal /\ g.max = f.max /\ g.client = f.client
<1>1. f \in Window
  BY DEF Good
<1>2. PICK on \in BOOLEAN : on = TRUE
  OBVIOUS
<1>0. PICK e \in Int : e = 0
  OBVIOUS
<1>3. PICK m : /\ m = [f EXCEPT !.maximized = on, !.defect = e]
               /\ m = [f EXCEPT !.maximized = TRUE, !.defect = 0]
  BY <1>0, <1>2
<1>4. /\ m \in Window /\ SameShown(f, m) /\ m.dir = f.dir
      /\ m.normal = f.normal /\ m.max = f.max
  <2>1. m = [f EXCEPT !.maximized = on, !.defect = e]
    BY <1>3
  <2> QED BY <1>1, <2>1 DEF Window, SameShown
<1>5. g = Adopted(m)
  BY <1>3
<1>6. /\ g \in Window /\ Knows(g) /\ Total(g) = Total(f)
      /\ SameShown(f, g) /\ g.normal = f.normal /\ g.max = f.max
  BY <1>4, <1>5, Begun
<1> QED BY <1>6 DEF SameShown

LEMMA MaximizeGood ==
  ASSUME FramesAssumption, SomeSizeFits, Good(fw, Vx), Vx \in Int, hints \in HintSets,
         NEW x \in Int, NEW w \in Int,
         NEW f, f = Adopted([fw EXCEPT !.maximized = TRUE, !.defect = 0]),
         NEW t, t = [f EXCEPT !.defect = Defect(f, w), !.max = Rect(x, Constrained(f, w))],
         NEW g, t.shaded => g = ShadedGeometry(t, t.dir, t.max), ~t.shaded => g = t.max
  PROVE  Good(UpdateAbsolute(FrameSetup(t, g, TRUE, FALSE)), Vx)
<1>1. /\ f \in Window /\ Knows(f) /\ Total(f) = Total(fw)
      /\ f.normal = fw.normal /\ f.max = fw.max /\ f.client = fw.client
  BY BegunMaximized
<1>2. PICK c \in Int : c = Constrained(f, w) /\ c > Total(f)
  BY <1>1, ConstrainedFits
<1>3. PICK e \in Int : e = Defect(f, w)
  BY <1>1, DefectType
<1>4. PICK r \in Rects : r = Rect(x, c) /\ r.w = c
  BY RectType
<1>5. t = [f EXCEPT !.defect = e, !.max = r]
  BY <1>2, <1>3, <1>4
<1>6. /\ t \in Window /\ Total(t) = Total(f) /\ t.max = r /\ t.normal = f.normal
      /\ t.client = f.client /\ SameShown(f, t)
  BY <1>1, <1>5 DEF Window, Total, SameShown
<1>7. Knows(t)
  BY <1>1, <1>6, SameKnows
<1>8. Total(t) \in Nat
  BY <1>6, BorderTypes
<1>9. Roomy(t)
  BY <1>1, <1>2, <1>4, <1>6, <1>8 DEF Good, Roomy
<1>10. g \in Rects /\ Fits(t, g)
  <2>1. r.w > Total(t) /\ t.max = r
    BY <1>2, <1>4, <1>6
  <2>2. CASE t.shaded
    <3>1. PICK k \in Rects : k = ShadedGeometry(t, t.dir, r) /\ Fits(t, k)
      BY <1>6, <2>1, <2>2, ShadedType, ShadedFits
    <3> QED BY <2>1, <2>2, <3>1
  <2>3. CASE ~t.shaded
    <3>1. Fits(t, r)
      BY <1>6, <2>1, <2>3, ShadedFits
    <3> QED BY <2>1, <2>3, <3>1
  <2> QED BY <2>2, <2>3
<1>11. PICK yes \in BOOLEAN : yes = TRUE
  OBVIOUS
<1> QED BY <1>6, <1>7, <1>9, <1>10, <1>11, Settled

LEMMA ResizeMaximizeGood ==
  ASSUME FramesAssumption, SomeSizeFits, Good(fw, Vx), Vx \in Int, hints \in HintSets,
         ~fw.shaded, NEW w \in Int,
         NEW f, f = Adopted([fw EXCEPT !.maximized = FALSE]),
         NEW g, g = Resized(f.hints.grav, Unshaded(fw), Constrained(f, w) - Unshaded(fw).w),
         NEW m, m = [f EXCEPT !.maximized = TRUE, !.max = g, !.normal = fw.normal,
                              !.defect = g.w - Constrained(f, g.w)]
  PROVE  Good(UpdateAbsolute(FrameSetup(m, g, TRUE, FALSE)), Vx)
<1>1. /\ f \in Window /\ Roomy(f) /\ Knows(f) /\ Total(f) = Total(fw)
      /\ f.shaded = fw.shaded /\ f.normal = fw.normal
  BY BegunNormal
<1>2. g \in Rects /\ g.w > Total(f)
  BY ResizeGood
<1>3. PICK e \in Int : e = g.w - Constrained(f, g.w)
  <2>1. g.w \in Int
    BY <1>2, RectFields
  <2>2. Constrained(f, g.w) \in Int
    BY <1>1, <2>1, ConstrainedFits
  <2> QED BY <2>1, <2>2
<1>4. PICK p \in Rects : p = fw.normal
  BY DEF Good, Window
<1>5. m = [f EXCEPT !.maximized = TRUE, !.max = g, !.normal = p, !.defect = e]
  BY <1>3, <1>4
<1>6. /\ m \in Window /\ Total(m) = Total(f) /\ m.max = g /\ m.normal = p
      /\ m.client = f.client /\ m.shaded = f.shaded /\ SameShown(f, m)
  BY <1>1, <1>2, <1>5 DEF Window, Total, SameShown
<1>7. Knows(m)
  BY <1>1, <1>6, SameKnows
<1>8. Total(m) \in Nat /\ g.w \in Int
  BY <1>2, <1>6, BorderTypes, RectFields
<1>9. Roomy(m)
  BY <1>1, <1>2, <1>4, <1>6, <1>8 DEF Good, Roomy
<1>10. Fits(m, g)
  BY <1>1, <1>2, <1>6, ShadedFits
<1>11. PICK yes \in BOOLEAN : yes = TRUE
  OBVIOUS
<1> QED BY <1>2, <1>6, <1>7, <1>9, <1>10, <1>11, Settled

LEMMA RedecorateGood ==
  ASSUME FramesAssumption, Good(fw, Vx), Vx \in Int,
         NEW b \in Borders, NEW t \in Thicknesses
  PROVE  Good(Reborder(fw, [fw EXCEPT !.border = b, !.unshaped = b, !.thickness = t]), Vx)
<1>1. PICK f : f = [fw EXCEPT !.border = b, !.unshaped = b, !.thickness = t]
  OBVIOUS
<1>2. b \in AllBorders
  BY DEF AllBorders
<1>3. /\ f \in Window /\ f.maximized = fw.maximized /\ f.normal = fw.normal
      /\ f.max = fw.max /\ f.client = fw.client
  BY <1>1, <1>2 DEF Good, Window
<1> QED BY <1>1, <1>3, ReborderGood DEF Good

LEMMA ReshapeGood ==
  ASSUME FramesAssumption, Good(fw, Vx), Vx \in Int, NEW b \in AllBorders
  PROVE  Good(Reborder(fw, [fw EXCEPT !.border = b]), Vx)
<1>1. PICK f : f = [fw EXCEPT !.border = b]
  OBVIOUS
<1>2. /\ f \in Window /\ f.maximized = fw.maximized /\ f.normal = fw.normal
      /\ f.max = fw.max /\ f.client = fw.client
  BY <1>1 DEF Good, Window
<1> QED BY <1>1, <1>2, ReborderGood DEF Good

\* gravity_constrain_size of the place of a maximized window
LEMMA MaxKeepsTotal ==
  ASSUME NEW f \in Window, NEW grav, NEW g
  PROVE  Total(MaxConstrained(f, grav, g)) = Total(f)
<1>1. PICK m, e : MaxConstrained(f, grav, g) = [f EXCEPT !.max = m, !.defect = e]
  BY DEF MaxConstrained
<1>2. PICK s : s = [f EXCEPT !.max = m, !.defect = e]
  OBVIOUS
<1>3. s.border = f.border /\ s.title = f.title /\ s.thickness = f.thickness
  BY <1>2 DEF Window
<1>4. Total(s) = Total(f)
  BY <1>3 DEF Total
<1> QED BY <1>1, <1>2, <1>4

LEMMA MaxConstrainedFacts ==
  ASSUME FramesAssumption, SomeSizeFits, NEW f \in Window, NEW grav, NEW g \in Rects,
         f.normal.w > Total(f), f.client > 0
  PROVE  MaxConstrained(f, grav, g) \in Window /\ Roomy(MaxConstrained(f, grav, g))
         /\ (MaxConstrained(f, grav, g).shaded <=> f.shaded)
<1>1. f.defect \in Int
  BY DEF Window
<1>2. PICK t \in Rects : t = Resized(grav, g, f.defect)
  BY <1>1, ResizedType
<1>3. PICK m \in Rects : m = GravityConstrained(f, grav, t) /\ m.w > Total(f)
  BY GravityType
<1>4. PICK e \in Int : e = t.w - Constrained(f, t.w)
  <2>1. t.w \in Int
    BY RectFields
  <2>2. Constrained(f, t.w) \in Int
    BY <2>1, ConstrainedFits
  <2> QED BY <2>1, <2>2
<1>5. PICK s : s = [f EXCEPT !.max = m, !.defect = e]
  OBVIOUS
<1>6. MaxConstrained(f, grav, g) = s
  BY <1>2, <1>3, <1>4, <1>5 DEF MaxConstrained
<1>7. /\ s \in Window /\ Total(s) = Total(f) /\ s.max = m /\ s.normal = f.normal
      /\ s.client = f.client /\ s.shaded = f.shaded
  BY <1>5 DEF Window, Total
<1>8. Total(f) \in Nat /\ m.w \in Int
  BY BorderTypes, RectFields
<1> QED BY <1>3, <1>6, <1>7, <1>8 DEF Roomy

\* gravity_constrain_size of the normal place
LEMMA NormalPlaced ==
  ASSUME FramesAssumption, NEW f \in Window, NEW p \in Rects, p.w > Total(f),
         Roomy(f), NEW n, n = [f EXCEPT !.normal = p]
  PROVE  /\ n \in Window /\ Roomy(n) /\ Total(n) = Total(f) /\ n.max = f.max
         /\ n.normal = p /\ SameShown(f, n) /\ n.dir = f.dir
         /\ (n.maximized <=> f.maximized)
  BY DEF Window, Total, Roomy, SameShown

LEMMA TitleGood ==
  ASSUME FramesAssumption, SomeSizeFits, Good(fw, Vx), Vx \in Int, hints \in HintSets,
         NEW dir \in {"N", "W", "E"},
         NEW t, t = [fw EXCEPT !.title = dir], NEW f, f = Adopted(t),
         NEW d, d = Total(t) - Total(fw), NEW grav,
         NEW n, n = [f EXCEPT !.normal = GravityConstrained(f, grav, Resized(grav, @, d))]
  PROVE  /\ Good(Refitted(n), Vx) \/ fw.maximized
         /\ \A k : Good(Refitted(MaxConstrained(n, k, Resized(k, n.max, d))), Vx)
<1>1. /\ fw \in Window /\ fw.normal.w > Total(fw) /\ fw.client > 0 /\ fw.max.w > 0
  BY DEF Good, Roomy
<1>2. /\ t \in Window /\ t.normal = fw.normal /\ t.max = fw.max
      /\ t.client = fw.client /\ (t.maximized <=> fw.maximized)
  BY <1>1 DEF Window
<1>3. f \in Window /\ SamePlaces(t, f)
  BY <1>2, AdoptedFacts
<1>4. /\ f.normal = fw.normal /\ f.max = fw.max /\ f.client = fw.client
      /\ (f.maximized <=> fw.maximized)
  BY <1>2, <1>3 DEF SamePlaces, SameFrame
<1>5. d \in Int
  <2>1. Total(t) \in Int /\ Total(fw) \in Int
    BY <1>1, <1>2, BorderTypes
  <2> QED BY <2>1
<1>6. PICK p \in Rects : p = Resized(grav, f.normal, d)
  BY <1>3, <1>5, ResizedType DEF Window
<1>7. PICK q \in Rects : q = GravityConstrained(f, grav, p) /\ q.w > Total(f)
  BY <1>3, GravityType
<1>8. n = [f EXCEPT !.normal = q]
  BY <1>6, <1>7
<1>9. /\ n \in Window /\ Total(n) = Total(f) /\ n.normal = q /\ n.max = f.max
      /\ n.client = f.client /\ (n.maximized <=> fw.maximized)
  BY <1>3, <1>4, <1>8 DEF Window, Total
<1>10. n.normal.w > Total(n) /\ n.client > 0 /\ n.max.w > 0 /\ n.max \in Rects
  BY <1>1, <1>4, <1>7, <1>9 DEF Window
<1>11. ASSUME NEW k PROVE Good(Refitted(MaxConstrained(n, k, Resized(k, n.max, d))), Vx)
  <2>1. PICK r \in Rects : r = Resized(k, n.max, d)
    BY <1>5, <1>10, ResizedType
  <2>2. PICK m \in Window : m = MaxConstrained(n, k, r) /\ Roomy(m)
    BY <1>9, <1>10, MaxConstrainedFacts
  <2> QED BY <2>1, <2>2, RefittedGood
<1>12. ~fw.maximized => Good(Refitted(n), Vx)
  <2>1. ~fw.maximized => Roomy(n)
    BY <1>9, <1>10 DEF Roomy
  <2> QED BY <1>9, <2>1, RefittedGood
<1> QED BY <1>11, <1>12

LEMMA LimitGood ==
  ASSUME FramesAssumption, SomeSizeFits, Good(fw, Vx), Vx \in Int, hints \in HintSets,
         NEW limit \in Limits,
         NEW f, f = Adopted([fw EXCEPT !.limit = limit]), NEW grav,
         NEW n, n = [f EXCEPT !.normal = GravityConstrained(f, grav, @)], NEW k,
         NEW g, g = GravityConstrained(f, k, fw.frame)
  PROVE  /\ ~fw.shaded =>
              /\ ~fw.maximized => Good(FrameSetup(n, g, TRUE, TRUE), Vx)
              /\ Good(FrameSetup(MaxConstrained(n, k, n.max), g, TRUE, TRUE), Vx)
         /\ ~fw.maximized => Sized(FrameSetup(n, g, TRUE, TRUE))
         /\ Sized(FrameSetup(MaxConstrained(n, k, n.max), g, TRUE, TRUE))
<1>0. PICK yes \in BOOLEAN : yes = TRUE
  OBVIOUS
<1>1. /\ fw \in Window /\ fw.client > 0 /\ fw.max.w > 0 /\ fw.frame \in Rects
  BY DEF Good, Roomy, Window
<1>2. PICK t : t = [fw EXCEPT !.limit = limit]
  OBVIOUS
<1>3. /\ t \in Window /\ t.normal = fw.normal /\ t.max = fw.max
      /\ t.client = fw.client /\ (t.maximized <=> fw.maximized)
      /\ t.shaded = fw.shaded
  <2>1. limit \in AllLimits
    BY DEF AllLimits
  <2> QED BY <1>1, <1>2, <2>1 DEF Window
<1>4. f \in Window /\ SamePlaces(t, f)
  BY <1>2, <1>3, AdoptedFacts
<1>5. /\ f.normal = fw.normal /\ f.max = fw.max /\ f.client = fw.client
      /\ (f.maximized <=> fw.maximized) /\ f.shaded = fw.shaded
  BY <1>3, <1>4 DEF SamePlaces, SameFrame
<1>6. PICK q \in Rects : q = GravityConstrained(f, grav, f.normal) /\ q.w > Total(f)
  BY <1>4, GravityType DEF Window
<1>7. n = [f EXCEPT !.normal = q]
  BY <1>6
<1>8. /\ n \in Window /\ Total(n) = Total(f) /\ n.normal = q /\ n.max = f.max
      /\ n.client = f.client /\ (n.maximized <=> fw.maximized)
      /\ n.shaded = fw.shaded
  BY <1>4, <1>5, <1>7 DEF Window, Total
<1>9. n.normal.w > Total(n) /\ n.client > 0 /\ n.max.w > 0 /\ n.max \in Rects
  BY <1>1, <1>5, <1>6, <1>8 DEF Window
<1>10. g \in Rects /\ g.w > Total(f)
  BY <1>1, <1>4, GravityType
<1>11. /\ ~fw.shaded =>
            Good(FrameSetup(MaxConstrained(n, k, n.max), g, TRUE, TRUE), Vx)
       /\ Sized(FrameSetup(MaxConstrained(n, k, n.max), g, TRUE, TRUE))
  <2>1. PICK m \in Window : /\ m = MaxConstrained(n, k, n.max) /\ Roomy(m)
                            /\ (m.shaded <=> n.shaded) /\ Total(m) = Total(n)
    <3>1. n \in Window /\ n.max \in Rects /\ n.normal.w > Total(n) /\ n.client > 0
      BY <1>8, <1>9
    <3>2. PICK big \in Rects : big = n.max
      BY <3>1
    <3>3. MaxConstrained(n, k, big) \in Window
      BY <3>1, MaxConstrainedFacts
    <3>4. Roomy(MaxConstrained(n, k, big))
      BY <3>1, MaxConstrainedFacts
    <3>5. MaxConstrained(n, k, big).shaded <=> n.shaded
      BY <3>1, MaxConstrainedFacts
    <3>6. Total(MaxConstrained(n, k, big)) = Total(n)
      <4>1. \A o \in Window : \A h, b : Total(MaxConstrained(o, h, b)) = Total(o)
        BY MaxKeepsTotal
      <4>2. n \in Window
        BY <1>8
      <4>3. \A h, b : Total(MaxConstrained(n, h, b)) = Total(n)
        BY <4>1, <4>2
      <4> QED BY <4>3
    <3> QED BY <3>2, <3>3, <3>4, <3>5, <3>6
  <2>2. g.w > Total(m)
    BY <1>8, <1>10, <2>1
  <2>3. ASSUME ~fw.shaded PROVE Good(FrameSetup(m, g, TRUE, TRUE), Vx)
    <3>1. Fits(m, g)
      BY <1>8, <2>1, <2>2, <2>3 DEF Fits
    <3> QED BY <1>10, <2>1, <3>1, Forced
  <2>4. Sized(FrameSetup(m, g, yes, yes))
    BY <1>10, <2>1, <2>2, SetupSized
  <2> QED BY <1>0, <2>1, <2>3, <2>4
<1>12. ASSUME ~fw.maximized
       PROVE  /\ ~fw.shaded => Good(FrameSetup(n, g, TRUE, TRUE), Vx)
              /\ Sized(FrameSetup(n, g, TRUE, TRUE))
  <2>1. Roomy(n) /\ g.w > Total(n)
    BY <1>8, <1>9, <1>10, <1>12 DEF Roomy
  <2>2. ASSUME ~fw.shaded PROVE Good(FrameSetup(n, g, TRUE, TRUE), Vx)
    <3>1. Fits(n, g)
      BY <1>8, <2>1, <2>2 DEF Fits
    <3> QED BY <1>8, <1>10, <2>1, <3>1, Forced
  <2>3. Sized(FrameSetup(n, g, yes, yes))
    BY <1>8, <1>10, <2>1, SetupSized
  <2> QED BY <1>0, <2>2, <2>3
<1> QED BY <1>11, <1>12

LEMMA SetupRoomy ==
  ASSUME FramesAssumption, NEW f \in Window, ~f.maximized, Roomy(f), Vx \in Int,
         NEW g \in Rects, g.w = f.normal.w
  PROVE  /\ FrameSetup(f, g, TRUE, FALSE) \in Window
         /\ Roomy(FrameSetup(f, g, TRUE, FALSE))
<1>1. PICK yes \in BOOLEAN : yes = TRUE
  OBVIOUS
<1>2. PICK no \in BOOLEAN : no = FALSE
  OBVIOUS
<1>3. PICK s : s = FrameSetup(f, g, yes, no)
  OBVIOUS
<1>4. no => yes
  BY <1>2
<1>5. /\ s \in Window /\ Alike(f, s) /\ s.client > 0
      /\ ~f.maximized => s.max = f.max
      /\ Place(s).w \in {Place(f).w, g.w}
  BY <1>3, <1>4, SetupFacts
<1>6. ~s.maximized /\ Total(s) = Total(f)
  BY <1>5, AlikeBorders
<1>7. Place(s) = s.normal /\ Place(f) = f.normal
  BY <1>6 DEF Place
<1>8. Roomy(s)
  BY <1>5, <1>6, <1>7 DEF Roomy
<1> QED BY <1>1, <1>2, <1>3, <1>5, <1>8

LEMMA UnmaximizeGood ==
  ASSUME FramesAssumption, Good(fw, Vx), Vx \in Int, fw.maximized,
         NEW p, p \in {fw.normal, fw.max},
         NEW f, f = [fw EXCEPT !.maximized = FALSE, !.normal = p],
         NEW s, s = FrameSetup(f, At(f.normal, -Vx), TRUE, FALSE)
  PROVE  Good(Reborder(s, s), Vx)
<1>1. /\ fw \in Window /\ fw.client > 0 /\ fw.max.w > 0 /\ p \in Rects
      /\ p.w > Total(fw)
  BY DEF Good, Roomy, Window
<1>2. /\ f \in Window /\ f.normal = p /\ f.max = fw.max /\ f.client = fw.client
      /\ ~f.maximized /\ Total(f) = Total(fw)
  BY <1>1 DEF Window, Total
<1>3. Roomy(f)
  BY <1>1, <1>2 DEF Roomy
<1>4. PICK g \in Rects : g = At(f.normal, -Vx) /\ g.w = p.w
  <2>1. p.x + (-Vx) \in Int /\ p.w \in Int /\ -Vx \in Int
    BY <1>1, RectFields
  <2>2. At(p, -Vx) \in Rects /\ At(p, -Vx) = Rect(p.x + (-Vx), p.w)
    BY <1>1, <2>1, AtType
  <2> QED BY <1>2, <2>1, <2>2, RectType
<1>5. s \in Window /\ Roomy(s)
  BY <1>2, <1>3, <1>4, SetupRoomy
<1> QED BY <1>5, ReborderGood

LEMMA PageGood ==
  ASSUME FramesAssumption, Good(fw, Vx), Vx \in Int, NEW v \in Int
  PROVE  /\ Good(FrameSetup(fw, At(fw.frame, Vx - v), FALSE, FALSE), v)
         /\ Bordered(fw) => Bordered(FrameSetup(fw, At(fw.frame, Vx - v), FALSE, FALSE))
<1>1. /\ fw \in Window /\ Roomy(fw) /\ Knows(fw) /\ fw.frame \in Rects
      /\ Agrees(fw, Vx)
  BY DEF Good, Window
<1>2. PICK x \in Int, w \in Int : fw.frame = Rect(x, w) /\ fw.frame.x = x /\ fw.frame.w = w
  BY <1>1, RectFields
<1>3. PICK g \in Rects : g = At(fw.frame, Vx - v) /\ g = Rect(x + (Vx - v), w) /\ g.w = w
  <2>1. Vx - v \in Int /\ x + (Vx - v) \in Int
    OBVIOUS
  <2>2. At(fw.frame, Vx - v) \in Rects /\ At(fw.frame, Vx - v) = Rect(x + (Vx - v), w)
    BY <1>1, <1>2, <2>1, AtType
  <2> QED BY <2>1, <2>2, RectType
<1>4. PICK no \in BOOLEAN : no = FALSE
  OBVIOUS
<1>5. PICK s : s = FrameSetup(fw, g, no, no)
  OBVIOUS
<1>6. /\ s \in Window /\ Alike(fw, s) /\ s.frame = g /\ s.client > 0
      /\ fw.maximized => s.normal = fw.normal
      /\ ~fw.maximized => s.max = fw.max
      /\ Place(s) = Place(fw)
      /\ g.w > Total(fw) => Knows(s)
  <2>1. /\ s \in Window /\ Alike(fw, s) /\ s.frame = g /\ s.client > 0
        /\ fw.maximized => s.normal = fw.normal
        /\ ~fw.maximized => s.max = fw.max
        /\ ~no /\ g.w = fw.frame.w => Place(s) = Place(fw)
        /\ Knows(fw) \/ (no /\ no) => (g.w > Total(fw) => Knows(s))
    BY <1>1, <1>5, SetupFacts
  <2> QED BY <1>1, <1>2, <1>3, <1>4, <2>1
<1>7. /\ Total(s) = Total(fw) /\ ShadedWidth(s, s.dir) = ShadedWidth(fw, fw.dir)
      /\ s.shaded = fw.shaded /\ s.dir = fw.dir /\ s.maximized = fw.maximized
  BY <1>6, AlikeBorders
<1>8. Fits(fw, g)
  BY <1>2, <1>3, GoodFits
<1>9. Knows(s)
  BY <1>6, <1>7, <1>8 DEF Fits, Knows
<1>10. Roomy(s)
  BY <1>1, <1>6, <1>7 DEF Roomy, Place
<1>11. Agrees(s, v)
  <2>1. PICK y \in Int, u \in Int : Place(fw) = Rect(y, u) /\ Place(fw).x = y /\ Place(fw).w = u
    BY <1>1, PlaceType, RectFields
  <2>2. PICK old \in Rects : /\ old = At(Place(fw), -Vx) /\ old = Rect(y + (-Vx), u)
                             /\ old.x = y + (-Vx) /\ old.w = u
    <3>1. y + (-Vx) \in Int /\ -Vx \in Int
      OBVIOUS
    <3>2. Place(fw) \in Rects
      BY <1>1, PlaceType
    <3>3. At(Place(fw), -Vx) \in Rects /\ At(Place(fw), -Vx) = Rect(y + (-Vx), u)
      BY <2>1, <3>1, <3>2, AtType
    <3> QED BY <3>1, <3>3, RectType
  <2>3. PICK new \in Rects : /\ new = At(Place(s), -v) /\ new = Rect(y + (-v), u)
                             /\ new.x = y + (-v) /\ new.w = u
    <3>1. y + (-v) \in Int /\ -v \in Int
      OBVIOUS
    <3>2. PICK q \in Rects : q = Place(s) /\ q.x = y /\ q.w = u
      BY <1>1, <1>6, <2>1, PlaceType
    <3>3. At(q, -v) \in Rects /\ At(q, -v) = Rect(y + (-v), u)
      BY <3>1, <3>2, AtType
    <3> QED BY <3>1, <3>2, <3>3, RectType
  <2>4. PICK c \in Int : c = ShadedWidth(fw, fw.dir)
    BY <1>1, ShadedWidthType
  <2>5. fw.frame = IF fw.shaded THEN ShadedGeometry(fw, fw.dir, old) ELSE old
    BY <1>1, <2>2 DEF Agrees
  <2>6. CASE ~fw.shaded
    <3>1. x = y + (-Vx) /\ w = u
      BY <1>2, <2>2, <2>5, <2>6
    <3>2. x + (Vx - v) = y + (-v)
      BY <3>1
    <3>3. g = new
      BY <1>3, <2>3, <3>1, <3>2
    <3> QED BY <1>6, <1>7, <2>3, <2>6, <3>3 DEF Agrees
  <2>7. CASE fw.shaded /\ Side(fw.dir) = "N"
    <3>1. fw.frame = old /\ ShadedGeometry(s, s.dir, new) = new
      BY <1>1, <1>6, <1>7, <2>5, <2>7, ShadedType
    <3>2. x = y + (-Vx) /\ w = u
      BY <1>2, <2>2, <3>1
    <3>3. x + (Vx - v) = y + (-v)
      BY <3>2
    <3>4. g = new
      BY <1>3, <2>3, <3>2, <3>3
    <3> QED BY <1>6, <1>7, <2>3, <2>7, <3>1, <3>4 DEF Agrees
  <2>8. CASE fw.shaded /\ Side(fw.dir) = "W"
    <3>1. fw.frame = Rect(y + (-Vx), c)
      BY <1>1, <2>2, <2>4, <2>5, <2>8, ShadedType
    <3>2. ShadedGeometry(s, s.dir, new) = Rect(y + (-v), c)
      BY <1>6, <1>7, <2>3, <2>4, <2>8, ShadedType
    <3>3. y + (-Vx) \in Int
      OBVIOUS
    <3>4. x = y + (-Vx) /\ w = c
      BY <1>2, <3>1, <3>3, RectType
    <3>5. x + (Vx - v) = y + (-v)
      BY <3>4
    <3>6. g = ShadedGeometry(s, s.dir, new)
      BY <1>3, <3>2, <3>4, <3>5
    <3> QED BY <1>6, <1>7, <2>3, <2>8, <3>6 DEF Agrees
  <2>9. CASE fw.shaded /\ Side(fw.dir) = "E"
    <3>1. fw.frame = Rect(y + (-Vx) + u - c, c)
      BY <1>1, <2>2, <2>4, <2>5, <2>9, ShadedType
    <3>2. ShadedGeometry(s, s.dir, new) = Rect(y + (-v) + u - c, c)
      BY <1>6, <1>7, <2>3, <2>4, <2>9, ShadedType
    <3>3. y + (-Vx) + u - c \in Int
      OBVIOUS
    <3>4. x = y + (-Vx) + u - c /\ w = c
      BY <1>2, <3>1, <3>3, RectType
    <3>5. x + (Vx - v) = y + (-v) + u - c
      BY <3>4
    <3>6. g = ShadedGeometry(s, s.dir, new)
      BY <1>3, <3>2, <3>4, <3>5
    <3> QED BY <1>6, <1>7, <2>3, <2>9, <3>6 DEF Agrees
  <2> QED BY <2>6, <2>7, <2>8, <2>9, Sides
<1>12. Bordered(fw) => Bordered(s)
  BY <1>7 DEF Bordered
<1> QED BY <1>3, <1>4, <1>5, <1>6, <1>9, <1>10, <1>11, <1>12 DEF Good

LEMMA ClientResizedFacts ==
  ASSUME NEW f \in Window, NEW c \in Int
  PROVE  \E r \in Window :
           /\ r = ClientResized(f, c) /\ r.client = c /\ Alike(f, r)
           /\ r.frame = f.frame /\ r.normal = f.normal /\ r.max = f.max
<1>1. PICK told \in SUBSET Int : told = IF c = f.client THEN f.told ELSE {}
  BY DEF Window
<1>2. PICK r : r = [f EXCEPT !.client = c, !.told = told]
  OBVIOUS
<1>3. r = ClientResized(f, c)
  BY <1>1, <1>2 DEF ClientResized
<1>4. /\ r \in Window /\ r.client = c /\ Alike(f, r)
      /\ r.frame = f.frame /\ r.normal = f.normal /\ r.max = f.max
  BY <1>2 DEF Alike, Window
<1> QED BY <1>3, <1>4

LEMMA UnshadedFacts ==
  ASSUME NEW f, Good(f, Vx), Vx \in Int
  PROVE  /\ Unshaded(f) \in Rects /\ Unshaded(f) = At(Place(f), -Vx)
         /\ Unshaded(f).w = Place(f).w /\ Unshaded(f).w > Total(f)
<1>1. f \in Window /\ Roomy(f) /\ Agrees(f, Vx)
  BY DEF Good
<1>2. PICK g \in Rects : g = At(Place(f), -Vx) /\ g.w = Place(f).w
  <2>1. Place(f) \in Rects /\ -Vx \in Int
    BY <1>1, PlaceType
  <2>2. Place(f).x + (-Vx) \in Int /\ Place(f).w \in Int
    BY <2>1, RectFields
  <2>3. /\ At(Place(f), -Vx) \in Rects
        /\ At(Place(f), -Vx) = Rect(Place(f).x + (-Vx), Place(f).w)
    BY <2>1, AtType
  <2> QED BY <2>2, <2>3, RectType
<1>3. Unshaded(f) = g
  BY <1>1, <1>2 DEF Agrees, Unshaded
<1> QED BY <1>1, <1>2, <1>3, PlaceRoomy

\* The width of the client's window in a frame of full size
LEMMA ClientWidthFacts ==
  ASSUME FramesAssumption, NEW f, Good(f, Vx), Vx \in Int
  PROVE  /\ ClientWidth(f) \in Int /\ ClientWidth(f) > 0
         /\ ClientWidth(f) = Unshaded(f).w - Total(f)
<1>1. f \in Window /\ f.client > 0 /\ f.client \in Int /\ Total(f) \in Nat
  BY BorderTypes DEF Good, Roomy, Window
<1>2. Unshaded(f).w \in Int /\ Unshaded(f).w > Total(f)
  BY UnshadedFacts, RectFields
<1>3. CASE f.shaded
  BY <1>1, <1>2, <1>3 DEF ClientWidth
<1>4. CASE ~f.shaded
  BY <1>1, <1>2, <1>4 DEF ClientWidth, Good, Knows, Unshaded
<1> QED BY <1>3, <1>4

LEMMA ShadeGood ==
  ASSUME FramesAssumption, NEW f, Good(f, Vx), Vx \in Int, NEW dir \in Dirs
  PROVE  Good(Shade(f, TRUE, dir), Vx)
<1>1. f \in Window /\ Roomy(f)
  BY DEF Good
<1>2. PICK un \in Rects : un = Unshaded(f) /\ un.w = Place(f).w /\ un.w > Total(f)
  BY UnshadedFacts
<1>3. PICK end \in Rects : end = ShadedGeometry(f, dir, un)
  BY <1>1, ShadedType
<1>4. PICK on \in BOOLEAN : on = TRUE
  OBVIOUS
<1>5. PICK s : s = [f EXCEPT !.shaded = on, !.dir = dir, !.frame = end]
  OBVIOUS
<1>6. /\ s \in Window /\ s.shaded /\ s.dir = dir /\ s.frame = end
      /\ s.border = f.border /\ s.thickness = f.thickness /\ s.title = f.title
      /\ (s.maximized <=> f.maximized) /\ s.normal = f.normal /\ s.max = f.max
      /\ s.client = f.client
  BY <1>1, <1>4, <1>5 DEF Window
<1>7. PICK c \in Int : c = ClientWidth(f) /\ c > 0
  BY ClientWidthFacts
<1>8. PICK r \in Window :
           /\ r = ClientResized(s, c) /\ r.client = c /\ Alike(s, r)
           /\ r.frame = s.frame /\ r.normal = s.normal /\ r.max = s.max
  BY <1>6, ClientResizedFacts
<1>9. PICK before : before <=> Hidden(f, f.frame)
  OBVIOUS
<1>10. PICK after : after <=> end.w <= Total(f) \/ Across(dir)
  OBVIOUS
<1>11. PICK t \in {s, r} : /\ Shade(f, TRUE, dir) \in {UpdateAbsolute(t), Notified(UpdateAbsolute(t))}
  <2>1. s = [f EXCEPT !.shaded = TRUE, !.dir = dir, !.frame = end]
    BY <1>4, <1>5
  <2> QED BY <1>2, <1>3, <1>7, <1>8, <2>1 DEF Shade
<1>12. /\ t \in Window /\ t.shaded /\ t.dir = dir /\ t.frame = end /\ t.client > 0
       /\ t.border = f.border /\ t.thickness = f.thickness /\ t.title = f.title
       /\ (t.maximized <=> f.maximized) /\ t.normal = f.normal /\ t.max = f.max
  <2>1. CASE t = s
    BY <1>1, <1>6, <2>1 DEF Roomy
  <2>2. CASE t = r
    BY <1>6, <1>7, <1>8, <2>2 DEF Alike
  <2> QED BY <1>11, <2>1, <2>2
<1>13. Total(t) = Total(f) /\ ShadedWidth(t, dir) = ShadedWidth(f, dir)
  <2>1. Total(t) = Total(f)
    BY <1>12 DEF Total
  <2> QED BY <1>12, <2>1 DEF ShadedWidth
<1>14. Roomy(t) /\ Knows(t)
  BY <1>1, <1>12, <1>13 DEF Roomy, Knows
<1>15. Fits(t, t.frame)
  <2>1. ShadedGeometry(t, dir, un) = end
    BY <1>3, <1>12, <1>13 DEF ShadedGeometry
  <2> QED BY <1>2, <1>12, <1>13, <2>1, ShadedFits
<1>16. PICK u : u = UpdateAbsolute(t)
  OBVIOUS
<1>17. u \in Window /\ SameFrame(t, u) /\ Agrees(u, Vx) /\ Roomy(u)
  BY <1>12, <1>14, <1>15, <1>16, UpdatedRoomy
<1>18. Good(u, Vx)
  BY <1>14, <1>17, SameBorders DEF Good
<1> QED BY <1>11, <1>16, <1>18, NotifiedGood

LEMMA UnshadeGood ==
  ASSUME FramesAssumption, NEW f, Good(f, Vx), Bordered(f), Vx \in Int,
         f.shaded, NEW dir
  PROVE  Good(Shade(f, FALSE, dir), Vx)
<1>1. f \in Window /\ Roomy(f)
  BY DEF Good
<1>2. PICK un \in Rects : un = Unshaded(f) /\ un.w = Place(f).w /\ un.w > Total(f)
  BY UnshadedFacts
<1>3. PICK off \in BOOLEAN : off = FALSE
  OBVIOUS
<1>4. PICK s : s = [f EXCEPT !.shaded = off, !.frame = un]
  OBVIOUS
<1>5. /\ s \in Window /\ ~s.shaded /\ s.dir = f.dir /\ s.frame = un
      /\ s.border = f.border /\ s.thickness = f.thickness /\ s.title = f.title
      /\ (s.maximized <=> f.maximized) /\ s.normal = f.normal /\ s.max = f.max
  BY <1>1, <1>3, <1>4 DEF Window
<1>6. s = [f EXCEPT !.shaded = FALSE, !.dir = @, !.frame = un]
  BY <1>1, <1>3, <1>4 DEF Window
<1>7. PICK c \in Int : c = ClientWidth(f) /\ c > 0 /\ c = un.w - Total(f)
  BY <1>2, ClientWidthFacts
<1>8. PICK r \in Window :
           /\ r = ClientResized(s, c) /\ r.client = c /\ Alike(s, r)
           /\ r.frame = s.frame /\ r.normal = s.normal /\ r.max = s.max
  BY <1>5, ClientResizedFacts
<1>9. Total(f) \in Nat /\ un.w \in Int /\ ~(un.w <= Total(f))
  BY <1>1, <1>2, BorderTypes, RectFields
<1>10. Hidden(f, f.frame)
  <2>1. CASE Across(f.dir)
    BY <2>1 DEF Hidden
  <2>2. CASE ~Across(f.dir)
    <3>1. f.dir \in {"W", "E"}
      BY <1>1, <2>2 DEF Across, Window, Dirs
    <3>2. Side(f.dir) # "N"
      <4>1. CASE f.dir = "W"
        BY <4>1 DEF Side
      <4>2. CASE f.dir = "E"
        BY <4>2 DEF Side
      <4> QED BY <3>1, <4>1, <4>2
    <3>3. Total(f) > 0
      BY <3>2 DEF Bordered
    <3>4. ShadedWidth(f, f.dir) = Total(f)
      BY <1>1, <3>1, <3>3, ShadedWidthType
    <3>5. f.frame.w = Total(f)
      BY <3>2, <3>4, GoodFits DEF Fits
    <3> QED BY <1>9, <3>5 DEF Hidden
  <2> QED BY <2>1, <2>2
<1>11. Shade(f, FALSE, dir) = Notified(UpdateAbsolute(r))
  BY <1>2, <1>6, <1>7, <1>8, <1>9, <1>10 DEF Shade
<1>12. Total(r) = Total(f) /\ ~r.shaded /\ TopLeft(r) = TopLeft(s)
  <2>1. Total(r) = Total(s) /\ ~r.shaded
    BY <1>5, <1>8, AlikeBorders
  <2> QED BY <1>5, <1>8, <2>1, AlikeBorders DEF Total
<1>13. Roomy(r)
  BY <1>1, <1>5, <1>7, <1>8, <1>12 DEF Roomy, Alike
<1>14. Fits(r, r.frame)
  BY <1>2, <1>5, <1>8, <1>12 DEF Fits
<1>15. PICK u : u = UpdateAbsolute(r)
  OBVIOUS
<1>16. u \in Window /\ SameFrame(r, u) /\ Agrees(u, Vx) /\ Roomy(u)
  BY <1>13, <1>14, <1>15, UpdatedRoomy
<1>17. Good(Notified(u), Vx)
  <2>1. ~u.shaded /\ u.client = u.frame.w - Total(u)
    BY <1>5, <1>7, <1>8, <1>12, <1>16, SameBorders DEF SameFrame
  <2>2. PICK n : n = Notified(u)
    OBVIOUS
  <2>3. /\ n \in Window /\ Alike(u, n) /\ n.frame = u.frame /\ n.client = u.client
        /\ n.normal = u.normal /\ n.max = u.max
        /\ n.told = {u.frame.x + TopLeft(u)}
    BY <1>16, <2>1, <2>2, NotifiedFacts
  <2>4. Total(n) = Total(u) /\ TopLeft(n) = TopLeft(u)
    BY <2>3, AlikeBorders
  <2>5. Place(n) = Place(u)
    BY <2>3 DEF Place, Alike
  <2>6. Agrees(n, Vx)
    BY <1>16, <2>3, <2>5, SameAgrees DEF Alike
  <2>7. Knows(n) /\ Roomy(n)
    BY <1>16, <2>1, <2>3, <2>4 DEF Knows, Roomy, Alike
  <2> QED BY <2>2, <2>3, <2>6, <2>7 DEF Good
<1> QED BY <1>11, <1>15, <1>17

---------------------------------------------------------------------------
(* The client                                                              *)

LEMMA BelievedFacts ==
  ASSUME FramesAssumption, NEW f \in Window, NEW w,
         NEW method \in {"auto", "grav", "static"},
         NEW g, g = [Believed(f, w) EXCEPT !.method = method]
  PROVE  g \in Window /\ SamePlaces(f, g)
<1>1. CASE f.hints.max = 1 /\ w > 1
  <2>1. f.hints \in HintSets
    <3>1. PICK h \in HintsOf : h = f.hints
      BY DEF Window
    <3>2. CASE h \in HintSets
      BY <3>1, <3>2
    <3>3. CASE h \notin HintSets
      <4>1. PICK k \in HintSets : h = [k EXCEPT !.max = MaxSize]
        BY <3>3 DEF HintsOf
      <4>2. h.max = MaxSize
        BY <4>1 DEF FramesAssumption
      <4> QED BY <1>1, <3>1, <4>2 DEF MaxSize
    <3> QED BY <3>2, <3>3
  <2>2. PICK k \in HintsOf : k = [f.hints EXCEPT !.max = MaxSize]
    BY <2>1 DEF HintsOf
  <2>3. Believed(f, w) = [f EXCEPT !.hints = k]
    BY <1>1, <2>2 DEF Believed
  <2>4. g = [f EXCEPT !.hints = k, !.method = method]
    BY <2>3
  <2> QED BY <2>4 DEF SamePlaces, SameFrame, Window
<1>2. CASE ~(f.hints.max = 1 /\ w > 1)
  <2>1. g = [f EXCEPT !.method = method]
    BY <1>2 DEF Believed
  <2> QED BY <2>1 DEF SamePlaces, SameFrame, Window
<1> QED BY <1>1, <1>2

LEMMA MaybeMember ==
  ASSUME NEW S, NEW x \in Maybe(S), x # {}
  PROVE  The(x) \in S
<1>1. PICK e \in S : x = {e}
  BY DEF Maybe
<1>2. \A z \in {e} : z = e
  OBVIOUS
<1>3. The(x) = e
  BY <1>1 DEF The
<1> QED BY <1>3

LEMMA SamePlacesTwice ==
  ASSUME NEW f, NEW g, NEW h, SamePlaces(f, g), SamePlaces(g, h)
  PROVE  SamePlaces(f, h)
  BY DEF SamePlaces, SameFrame

---------------------------------------------------------------------------
(* The width that the client asked for last                                *)

\* What decides which sizes a window may have, and where its size is kept
SizeFields ==
  {"hints", "newHints", "limit", "border", "thickness", "title", "maximized"}

SameSizing(f, g) ==
  DOMAIN g = DOMAIN f /\ \A k \in SizeFields : g[k] = f[k]

LEMMA SizingTwice ==
  ASSUME NEW f, NEW g, NEW h, SameSizing(f, g), SameSizing(g, h)
  PROVE  SameSizing(f, h)
  BY DEF SameSizing

LEMMA SizedBoth ==
  ASSUME NEW f, NEW g, SameSizing(f, g), SizeFields \subseteq DOMAIN f
  PROVE  /\ Total(g) = Total(f) /\ (g.maximized <=> f.maximized)
         /\ g.newHints <=> f.newHints
         /\ g.hints = f.hints /\ g.limit = f.limit
         /\ \A w : Constrained(g, w) = Constrained(f, w)
<1>1. /\ g.border = f.border /\ g.thickness = f.thickness /\ g.title = f.title
      /\ (g.maximized <=> f.maximized) /\ (g.newHints <=> f.newHints)
      /\ g.hints = f.hints /\ g.limit = f.limit
  BY DEF SameSizing, SizeFields
<1>2. Total(g) = Total(f)
  BY <1>1 DEF Total
<1>3. ASSUME NEW w PROVE Constrained(g, w) = Constrained(f, w)
  BY <1>1, <1>2 DEF Constrained
<1> QED BY <1>1, <1>2, <1>3

LEMMA WithPlaceSizing ==
  ASSUME NEW f, SizeFields \subseteq DOMAIN f, NEW p
  PROVE  SameSizing(f, WithPlace(f, p))
<1>1. CASE f.maximized
  BY <1>1 DEF WithPlace, SameSizing, SizeFields
<1>2. CASE ~f.maximized
  BY <1>2 DEF WithPlace, SameSizing, SizeFields
<1> QED BY <1>1, <1>2

LEMMA UpdatedSizing ==
  ASSUME NEW f, SizeFields \subseteq DOMAIN f
  PROVE  SameSizing(f, UpdateAbsolute(f))
<1>1. \E p : UpdateAbsolute(f) = WithPlace(f, p)
  BY DEF UpdateAbsolute
<1> QED BY <1>1, WithPlaceSizing

LEMMA NotifiedSizing ==
  ASSUME NEW f, SizeFields \subseteq DOMAIN f
  PROVE  SameSizing(f, Notified(f))
<1>1. CASE f.shaded
  BY <1>1 DEF Notified, SameSizing
<1>2. CASE ~f.shaded
  BY <1>2 DEF Notified, SameSizing, SizeFields
<1> QED BY <1>1, <1>2

LEMMA ResizedSizing ==
  ASSUME NEW f, SizeFields \subseteq DOMAIN f, NEW w
  PROVE  SameSizing(f, ClientResized(f, w))
  BY DEF ClientResized, SameSizing, SizeFields

LEMMA SetupSizing ==
  ASSUME NEW f, SizeFields \subseteq DOMAIN f, NEW g, NEW send, NEW force
  PROVE  SameSizing(f, FrameSetup(f, g, send, force))
<1>1. PICK w, t, s :
        /\ t = [ClientResized(f, w) EXCEPT !.frame = g]
        /\ s \in {t, UpdateAbsolute(t)}
        /\ FrameSetup(f, g, send, force) \in {s, Notified(s)}
  BY Zenon DEF FrameSetup
<1>2. SameSizing(f, ClientResized(f, w))
  BY ResizedSizing
<1>3. SameSizing(ClientResized(f, w), t)
  <2>1. PICK r : r = ClientResized(f, w)
    OBVIOUS
  <2>2. SizeFields \subseteq DOMAIN r
    BY <1>2, <2>1 DEF SameSizing
  <2> QED BY <1>1, <2>1, <2>2 DEF SameSizing, SizeFields
<1>4. SameSizing(f, t)
  BY <1>2, <1>3, SizingTwice
<1>5. SameSizing(t, UpdateAbsolute(t))
  BY <1>4, UpdatedSizing DEF SameSizing
<1>6. SameSizing(f, s)
  BY <1>1, <1>4, <1>5, SizingTwice
<1>7. SameSizing(s, Notified(s))
  BY <1>6, NotifiedSizing DEF SameSizing
<1> QED BY <1>1, <1>6, <1>7, SizingTwice

LEMMA WindowSized ==
  ASSUME NEW f \in Window
  PROVE  SizeFields \subseteq DOMAIN f
  BY DEF Window, SizeFields

\* The window has the width that its client asked for.
Served(f, a) ==
  /\ ~f.maximized /\ ~f.newHints
  /\ f.normal.w = Constrained(f, The(a) + Total(f))
  /\ f.hints.max = 1 => The(a) = 1

LEMMA KeptServed ==
  ASSUME NEW f \in Window, NEW g, SameSizing(f, g), g.normal.w = f.normal.w,
         NEW a, Served(f, a)
  PROVE  Served(g, a)
<1>1. /\ Total(g) = Total(f) /\ (g.maximized <=> f.maximized)
      /\ (g.newHints <=> f.newHints)
      /\ g.hints = f.hints
      /\ \A w : Constrained(g, w) = Constrained(f, w)
  BY WindowSized, SizedBoth
<1> QED BY <1>1 DEF Served

LEMMA BecomesServed ==
  ASSUME NEW f \in Window, NEW spoilt, Becomes(f, spoilt), NEW a, Served(f, a)
  PROVE  Served(fw', a)
<1>1. PICK m, e, d : fw' = [f EXCEPT !.max = m, !.defect = e, !.dir = d]
  BY DEF Becomes
<1>2. SizeFields \cup {"normal"} \subseteq DOMAIN f
  BY DEF Window, SizeFields
<1>3. SameSizing(f, fw') /\ fw'.normal = f.normal
  BY <1>1, <1>2 DEF SameSizing, SizeFields
<1> QED BY <1>3, KeptServed

LEMMA UpdatedNormal ==
  ASSUME NEW f \in Window, Vx \in Int, ~f.maximized
  PROVE  /\ f.shaded /\ Side(f.dir) # "N" =>
              UpdateAbsolute(f).normal.w = f.normal.w
         /\ ~(f.shaded /\ Side(f.dir) # "N") =>
              UpdateAbsolute(f).normal.w = f.frame.w
<1>1. ~UpdateAbsolute(f).maximized
  BY WindowSized, UpdatedSizing, SizedBoth
<1>2. Place(f) = f.normal /\ Place(UpdateAbsolute(f)) = UpdateAbsolute(f).normal
  BY <1>1 DEF Place
<1> QED BY <1>2, UpdatedWidth

LEMMA NotifiedNormal ==
  ASSUME FramesAssumption, NEW f \in Window
  PROVE  Notified(f).normal = f.normal /\ SameSizing(f, Notified(f))
  BY NotifiedFacts, WindowSized, NotifiedSizing

LEMMA ShadeServed ==
  ASSUME FramesAssumption, NEW f, Good(f, Vx), Vx \in Int, NEW dir \in Dirs,
         NEW on \in BOOLEAN, NEW a, Served(f, a)
  PROVE  Shade(f, on, dir) \in Window /\ Served(Shade(f, on, dir), a)
<1>1. f \in Window /\ ~f.maximized
  BY DEF Good, Served
<1>2. PICK un \in Rects : un = Unshaded(f) /\ un.w = f.normal.w
  BY <1>1, UnshadedFacts DEF Place
<1>3. PICK end \in Rects :
        end = IF on THEN ShadedGeometry(f, dir, un) ELSE un
  BY <1>1, <1>2, ShadedType
<1>4. PICK d \in Dirs : d = IF on THEN dir ELSE f.dir
  BY <1>1 DEF Window
<1>5. PICK s : s = [f EXCEPT !.shaded = on, !.dir = d, !.frame = end]
  OBVIOUS
<1>6. /\ s \in Window /\ (s.shaded <=> on) /\ s.dir = d /\ s.frame = end
      /\ s.normal = f.normal /\ ~s.maximized
  BY <1>1, <1>5 DEF Window
<1>7. SameSizing(f, s)
  BY <1>1, <1>5, WindowSized DEF SameSizing, SizeFields
<1>8. PICK c \in Int : c = ClientWidth(f)
  BY ClientWidthFacts
<1>9. PICK r \in Window :
           /\ r = ClientResized(s, c) /\ r.client = c /\ Alike(s, r)
           /\ r.frame = s.frame /\ r.normal = s.normal /\ r.max = s.max
  BY <1>6, ClientResizedFacts
<1>10. SameSizing(s, r)
  BY <1>6, <1>9, WindowSized, ResizedSizing
<1>11. PICK t \in {s, r} :
         Shade(f, on, dir) \in {UpdateAbsolute(t), Notified(UpdateAbsolute(t))}
  <2>1. s = [f EXCEPT !.shaded = on, !.dir = IF on THEN dir ELSE @, !.frame = end]
    BY <1>1, <1>4, <1>5 DEF Window
  <2> QED BY <1>2, <1>3, <1>8, <1>9, <2>1 DEF Shade
<1>12. /\ t \in Window /\ (t.shaded <=> on) /\ t.dir = d /\ t.frame = end
       /\ t.normal = f.normal /\ ~t.maximized
  <2>1. CASE t = s
    BY <1>6, <2>1
  <2>2. CASE t = r
    BY <1>6, <1>9, <2>2 DEF Alike
  <2> QED BY <1>11, <2>1, <2>2
<1>13. SameSizing(f, t)
  BY <1>7, <1>10, <1>11, SizingTwice
<1>14. PICK u : u = UpdateAbsolute(t)
  OBVIOUS
<1>15. SameSizing(f, u)
  BY <1>12, <1>13, <1>14, UpdatedSizing, SizingTwice, WindowSized
<1>16. u.normal.w = f.normal.w
  <2>1. CASE on /\ Side(d) # "N"
    BY <1>12, <1>14, <2>1, UpdatedNormal
  <2>2. CASE ~(on /\ Side(d) # "N")
    <3>1. end.w = un.w
      BY <1>1, <1>2, <1>3, <1>4, <2>2, ShadedType
    <3> QED BY <1>2, <1>12, <1>14, <2>2, <3>1, UpdatedNormal
  <2> QED BY <2>1, <2>2
<1>17. Served(u, a)
  BY <1>1, <1>15, <1>16, KeptServed
<1>18. u \in Window
  BY <1>12, <1>14, UpdatedPlace, WithPlaceFacts
<1>19. Served(Notified(u), a) /\ Notified(u) \in Window
  BY <1>17, <1>18, NotifiedNormal, NotifiedFacts, KeptServed
<1> QED BY <1>11, <1>14, <1>17, <1>18, <1>19

LEMMA FrameWidth ==
  ASSUME FramesAssumption, NEW f, NEW v \in Int, Good(f, v), ~f.maximized,
         ~(f.shaded /\ Side(f.dir) # "N")
  PROVE  f.frame.w = f.normal.w
<1>1. f \in Window /\ f.normal \in Rects /\ Agrees(f, v)
  BY DEF Good, Window
<1>2. PICK g \in Rects : g = At(f.normal, -v) /\ g.w = f.normal.w
  <2>1. f.normal.x + (-v) \in Int /\ f.normal.w \in Int
    BY <1>1, RectFields
  <2>2. At(f.normal, -v) \in Rects /\ At(f.normal, -v) = Rect(f.normal.x + (-v), f.normal.w)
    BY <1>1, AtType
  <2> QED BY <2>1, <2>2, RectType
<1>3. f.frame = IF f.shaded THEN ShadedGeometry(f, f.dir, g) ELSE g
  BY <1>1, <1>2 DEF Agrees, Place
<1>4. f.shaded => Side(f.dir) = "N" /\ ShadedGeometry(f, f.dir, g) = g
  BY <1>1, <1>2, ShadedType
<1> QED BY <1>2, <1>3, <1>4

LEMMA MoveServed ==
  ASSUME FramesAssumption, Good(fw, Vx), Vx \in Int, NEW x \in Int,
         NEW a, Served(fw, a)
  PROVE  Served(UpdateAbsolute(FrameSetup(fw, Rect(x, fw.frame.w), TRUE, FALSE)), a)
<1>1. fw \in Window /\ Roomy(fw) /\ ~fw.maximized
  BY DEF Good, Served
<1>2. PICK g \in Rects : g = Rect(x, fw.frame.w) /\ g.w = fw.frame.w
  BY GoodFits, RectType
<1>3. PICK yes \in BOOLEAN : yes = TRUE
  OBVIOUS
<1>4. PICK no \in BOOLEAN : no = FALSE
  OBVIOUS
<1>5. PICK s : s = FrameSetup(fw, g, yes, no)
  OBVIOUS
<1>6. s \in Window /\ Alike(fw, s) /\ s.frame = g /\ Place(s) = Place(fw)
  <2>1. no => yes
    BY <1>4
  <2>2. /\ s \in Window /\ Alike(fw, s) /\ s.frame = g
        /\ ~no /\ g.w = fw.frame.w => Place(s) = Place(fw)
    BY <1>1, <1>5, <2>1, SetupFacts
  <2> QED BY <1>2, <1>4, <2>2
<1>7. SameSizing(fw, s) /\ SameSizing(fw, UpdateAbsolute(s))
  <2>1. SameSizing(fw, s)
    BY <1>1, <1>5, WindowSized, SetupSizing
  <2>2. SameSizing(s, UpdateAbsolute(s))
    BY <1>6, WindowSized, UpdatedSizing
  <2> QED BY <2>1, <2>2, SizingTwice
<1>8. s.shaded = fw.shaded /\ s.dir = fw.dir /\ ~s.maximized /\ s.normal = fw.normal
  BY <1>1, <1>6 DEF Alike, Place
<1>9. UpdateAbsolute(s).normal.w = fw.normal.w
  <2>1. CASE fw.shaded /\ Side(fw.dir) # "N"
    BY <1>6, <1>8, <2>1, UpdatedNormal
  <2>2. CASE ~(fw.shaded /\ Side(fw.dir) # "N")
    <3>1. UpdateAbsolute(s).normal.w = fw.frame.w
      BY <1>2, <1>6, <1>8, <2>2, UpdatedNormal
    <3> QED BY <1>1, <2>2, <3>1, FrameWidth
  <2> QED BY <2>1, <2>2
<1>10. Served(UpdateAbsolute(s), a)
  BY <1>1, <1>7, <1>9, KeptServed
<1> QED BY <1>2, <1>3, <1>4, <1>5, <1>10

LEMMA PageServed ==
  ASSUME FramesAssumption, Good(fw, Vx), Vx \in Int, NEW d \in Int,
         NEW a, Served(fw, a)
  PROVE  Served(FrameSetup(fw, At(fw.frame, d), FALSE, FALSE), a)
<1>1. fw \in Window /\ Roomy(fw) /\ ~fw.maximized /\ fw.frame \in Rects
  BY GoodFits DEF Good, Served
<1>2. PICK g \in Rects : g = At(fw.frame, d) /\ g.w = fw.frame.w
  <2>1. fw.frame.x + d \in Int /\ fw.frame.w \in Int
    BY <1>1, RectFields
  <2>2. At(fw.frame, d) \in Rects /\ At(fw.frame, d) = Rect(fw.frame.x + d, fw.frame.w)
    BY <1>1, AtType
  <2> QED BY <2>1, <2>2, RectType
<1>3. PICK no \in BOOLEAN : no = FALSE
  OBVIOUS
<1>4. PICK s : s = FrameSetup(fw, g, no, no)
  OBVIOUS
<1>5. s \in Window /\ Alike(fw, s) /\ Place(s) = Place(fw)
  <2>1. /\ s \in Window /\ Alike(fw, s)
        /\ ~no /\ g.w = fw.frame.w => Place(s) = Place(fw)
    BY <1>1, <1>4, SetupFacts
  <2> QED BY <1>2, <1>3, <2>1
<1>6. SameSizing(fw, s)
  BY <1>1, <1>4, WindowSized, SetupSizing
<1>7. s.normal = fw.normal
  BY <1>1, <1>5 DEF Alike, Place
<1> QED BY <1>1, <1>2, <1>3, <1>4, <1>6, <1>7, KeptServed

LEMMA UpdatedType ==
  ASSUME NEW f \in Window, Vx \in Int
  PROVE  UpdateAbsolute(f) \in Window
<1>1. PICK p \in Rects : UpdateAbsolute(f) = WithPlace(f, p)
  BY UpdatedPlace
<1> QED BY <1>1, WithPlaceFacts

\* The width of the place on the desk after the frame was set up
LEMMA SetupNormal ==
  ASSUME FramesAssumption, NEW s \in Window, Roomy(s), ~s.maximized, Vx \in Int,
         NEW e \in Rects, NEW no \in BOOLEAN,
         NEW r, r = UpdateAbsolute(FrameSetup(s, e, no, no))
  PROVE  /\ r \in Window /\ SameSizing(s, r)
         /\ s.shaded /\ Side(s.dir) # "N" => r.normal.w = s.normal.w
         /\ ~(s.shaded /\ Side(s.dir) # "N") => r.normal.w = e.w
<1>2. PICK u : u = FrameSetup(s, e, no, no)
  OBVIOUS
<1>3. /\ u \in Window /\ Alike(s, u) /\ u.frame = e
      /\ s.shaded /\ Side(s.dir) # "N" => Place(u).w = Place(s).w
  BY <1>2, SetupFacts
<1>4. u.shaded = s.shaded /\ u.dir = s.dir /\ ~u.maximized
  BY <1>3 DEF Alike
<1>5. r = UpdateAbsolute(u)
  BY <1>2
<1>6. r \in Window
  BY <1>3, <1>5, UpdatedType
<1>7. SameSizing(s, u) /\ SameSizing(u, r)
  BY <1>2, <1>3, <1>5, WindowSized, SetupSizing, UpdatedSizing
<1>8. u.normal = Place(u) /\ s.normal = Place(s)
  BY <1>4 DEF Place
<1>9. /\ s.shaded /\ Side(s.dir) # "N" => r.normal.w = s.normal.w
      /\ ~(s.shaded /\ Side(s.dir) # "N") => r.normal.w = e.w
  <2>1. CASE s.shaded /\ Side(s.dir) # "N"
    BY <1>3, <1>4, <1>5, <1>8, <2>1, UpdatedNormal
  <2>2. CASE ~(s.shaded /\ Side(s.dir) # "N")
    BY <1>3, <1>4, <1>5, <2>2, UpdatedNormal
  <2> QED BY <2>1, <2>2
<1> QED BY <1>6, <1>7, <1>9, SizingTwice

\* A place or a width that a client asks for becomes that of the window.
LEMMA AskedServed ==
  ASSUME FramesAssumption, NEW f, Good(f, Vx), Vx \in Int, ~f.maximized,
         NEW n \in Rects, n.w > Total(f), NEW p \in Rects, p.w > Total(f),
         f.shaded => p = n,
         NEW s \in Window, Roomy(s), ~s.maximized, SameShown(f, s), SameSizing(f, s),
         s.normal = p,
         NEW e, f.shaded => e = ShadedGeometry(s, s.dir, n), ~f.shaded => e = n,
         NEW no \in BOOLEAN, NEW r, r = UpdateAbsolute(FrameSetup(s, e, no, no))
  PROVE  r \in Window /\ SameSizing(f, r) /\ r.normal.w = n.w
<1>1. s.shaded = f.shaded
  BY DEF SameShown
<1>2. e \in Rects /\ (Side(s.dir) = "N" => e = n)
  BY ShadedType
<1>6. /\ r \in Window /\ SameSizing(s, r)
      /\ s.shaded /\ Side(s.dir) # "N" => r.normal.w = s.normal.w
      /\ ~(s.shaded /\ Side(s.dir) # "N") => r.normal.w = e.w
  BY <1>2, SetupNormal
<1>7. r.normal.w = n.w
  BY <1>1, <1>2, <1>6
<1> QED BY <1>6, <1>7, SizingTwice

LEMMA WidthMember ==
  ASSUME FramesAssumption, NEW a \in Maybe(Widths), a # {}
  PROVE  The(a) \in Nat /\ The(a) > 0
<1>1. The(a) \in Widths
  BY MaybeMember
<1>2. \A e \in Widths : e \in Nat /\ e > 0
  BY DEF FramesAssumption
<1> QED BY <1>1, <1>2

LEMMA AdoptedSizing ==
  ASSUME NEW f \in Window
  PROVE  /\ ~Adopted(f).newHints /\ (Adopted(f).maximized <=> f.maximized)
         /\ ~f.newHints => Adopted(f) = f
<1>1. CASE f.newHints
  <2>1. PICK no \in BOOLEAN : no = FALSE
    OBVIOUS
  <2>2. Adopted(f) = [f EXCEPT !.hints = hints, !.newHints = no]
    BY <1>1, <2>1 DEF Adopted
  <2> QED BY <1>1, <2>1, <2>2 DEF Window
<1>2. CASE ~f.newHints
  BY <1>2 DEF Adopted
<1> QED BY <1>1, <1>2

\* A maximum of one pixel is replaced, or all stays.
LEMMA BelievedSizing ==
  ASSUME FramesAssumption, NEW f \in Window, NEW w, NEW g, g = Believed(f, w)
  PROVE  /\ g \in Window /\ (g.maximized <=> f.maximized)
         /\ (g.newHints <=> f.newHints)
         /\ f.hints.max = 1 /\ w > 1 => g.hints.max = MaxSize
         /\ ~(f.hints.max = 1 /\ w > 1) => g = f
<1>1. CASE f.hints.max = 1 /\ w > 1
  <2>1. PICK h \in HintsOf : h = f.hints
    BY DEF Window
  <2>2. PICK k : k = [h EXCEPT !.max = MaxSize]
    OBVIOUS
  <2>3. k.max = MaxSize
    BY <2>1, <2>2 DEF HintsOf, FramesAssumption
  <2>4. g = [f EXCEPT !.hints = k]
    BY <1>1, <2>1, <2>2 DEF Believed
  <2>5. k \in HintsOf
    BY <2>1, <2>2 DEF HintsOf
  <2> QED BY <1>1, <2>3, <2>4, <2>5 DEF Window
<1>2. CASE ~(f.hints.max = 1 /\ w > 1)
  BY <1>2 DEF Believed
<1> QED BY <1>1, <1>2

LEMMA MethodSizing ==
  ASSUME NEW f \in Window, NEW method, NEW g, g = [f EXCEPT !.method = method]
  PROVE  SameSizing(f, g)
  BY WindowSized DEF SameSizing, SizeFields

LEMMA NormalSized ==
  ASSUME NEW f \in Window, NEW p, NEW s, s = [f EXCEPT !.normal = p]
  PROVE  SameSizing(f, s) /\ s.normal = p
  BY WindowSized DEF SameSizing, SizeFields, Window

---------------------------------------------------------------------------
(* What the client asks for                                                *)

\* A place or a width that a client asks for leaves the window good.
LEMMA AskedGood ==
  ASSUME FramesAssumption, NEW f, Good(f, Vx), Vx \in Int,
         NEW n \in Rects, n.w > Total(f), NEW p \in Rects, p.w > Total(f),
         NEW s, s = [f EXCEPT !.normal = p]
  PROVE  /\ f.shaded => Good(UpdateAbsolute(FrameSetup(s,
                               ShadedGeometry(s, s.dir, n), FALSE, FALSE)), Vx)
         /\ ~f.shaded => Good(UpdateAbsolute(FrameSetup(s, n, FALSE, FALSE)), Vx)
<1>1. f \in Window /\ Roomy(f) /\ Knows(f)
  BY DEF Good
<1>2. /\ s \in Window /\ Roomy(s) /\ Total(s) = Total(f) /\ SameShown(f, s)
  BY <1>1, NormalPlaced
<1>3. Knows(s) /\ s.shaded = f.shaded
  BY <1>1, <1>2, SameKnows DEF SameShown
<1>4. PICK no \in BOOLEAN : no = FALSE
  OBVIOUS
<1>5. CASE f.shaded
  <2>1. PICK e \in Rects : e = ShadedGeometry(s, s.dir, n) /\ Fits(s, e)
    BY <1>2, <1>3, <1>5, ShadedFits, ShadedType
  <2>2. Good(UpdateAbsolute(FrameSetup(s, e, no, FALSE)), Vx)
    BY <1>2, <1>3, <2>1, Settled
  <2> QED BY <1>4, <1>5, <2>1, <2>2
<1>6. CASE ~f.shaded
  <2>1. Fits(s, n)
    BY <1>2, <1>3, <1>6, ShadedFits
  <2>2. Good(UpdateAbsolute(FrameSetup(s, n, no, FALSE)), Vx)
    BY <1>2, <1>3, <2>1, Settled
  <2> QED BY <1>4, <1>6, <2>2
<1> QED BY <1>5, <1>6

LEMMA ConfiguredFacts ==
  ASSUME FramesAssumption, SomeSizeFits, hints \in HintSets,
         NEW f0, Good(f0, Vx), Vx \in Int,
         NEW x0 \in Maybe(Places), NEW w0 \in Maybe(Widths), NEW force, NEW grav,
         NEW method \in {"auto", "grav", "static"}
  PROVE  /\ Good(Configured(f0, x0, w0, force, grav, method), Vx)
         /\ \A a \in Maybe(Widths) :
              /\ a # {} /\ ~f0.maximized
              /\ w0 = a \/ (w0 = {} /\ Served(f0, a))
              => Served(Configured(f0, x0, w0, force, grav, method), a)
<1> DEFINE f == [Believed(Adopted(f0), IF w0 = {} THEN f0.client ELSE The(w0))
                   EXCEPT !.method = method]
           x == IF f.shaded THEN {} ELSE x0
           w == IF f.maximized THEN {} ELSE w0
           g == Unshaded(f)
           side == IF f.shaded /\ Side(f.dir) # "N" THEN Side(f.dir) ELSE grav
           ref == IF (force \/ method = "grav") /\ grav # "Static"
                    THEN Half((Offset(grav) + 1) * Total(f)) ELSE TopLeft(f)
           wide == IF w = {} THEN g.w ELSE The(w) + Total(f)
           new == Constrained(f, Wanted(f, wide))
           n == IF x = {} THEN Resized(side, g, new - g.w)
                ELSE Rect(The(x) - ref, new)
           t == [f EXCEPT !.defect = Defect(f, wide)]
           s == [t EXCEPT !.normal = IF f.shaded THEN n ELSE @]
           r == IF n = g THEN t
                ELSE UpdateAbsolute(FrameSetup(s,
                       IF f.shaded THEN ShadedGeometry(s, s.dir, n) ELSE n,
                       FALSE, FALSE))
<1>1. Configured(f0, x0, w0, force, grav, method) = Notified(r)
  BY DEF Configured
<1> HIDE DEF f, x, w, g, side, ref, wide, new, n, t, s, r
<1>2. f0 \in Window
  BY DEF Good
<1>3. f \in Window /\ SamePlaces(f0, f)
  <2>1. Adopted(f0) \in Window /\ SamePlaces(f0, Adopted(f0))
    BY <1>2, AdoptedFacts
  <2>2. f \in Window /\ SamePlaces(Adopted(f0), f)
    BY <2>1, BelievedFacts DEF f
  <2> QED BY <2>1, <2>2, SamePlacesTwice
<1>4. Good(f, Vx)
  BY <1>2, <1>3, SameGood
<1>5. x \in Maybe(Places) /\ w \in Maybe(Widths)
  BY DEF x, w, Maybe
<1>6. g \in Rects /\ g.w \in Int
  BY <1>3, UnshadedWidth, RectFields DEF g
<1>7. Places \subseteq Int /\ Widths \subseteq Int
  BY DEF FramesAssumption
<1>8. ref \in Int
  <2>1. PICK k \in Int : k = Offset(grav) + 1
    BY OffsetInt
  <2>2. Total(f) \in Int /\ TopLeft(f) \in Int
    BY <1>3, BorderTypes
  <2>3. Half(k * Total(f)) \in Int
    BY <2>2, ProductInt, HalfInt
  <2> QED BY <2>1, <2>2, <2>3 DEF ref
<1>9. wide \in Int
  <2>1. CASE w = {}
    BY <1>6, <2>1 DEF wide
  <2>2. CASE w # {}
    <3>1. The(w) \in Int
      BY <1>5, <1>7, <2>2, MaybeMember
    <3>2. Total(f) \in Int
      BY <1>3, BorderTypes
    <3> QED BY <2>2, <3>1, <3>2 DEF wide
  <2> QED BY <2>1, <2>2
<1>10. new \in Int /\ new > Total(f)
  <2>1. Wanted(f, wide) \in Int
    BY <1>3, <1>9, DefectType
  <2> QED BY <1>3, <2>1, ConstrainedFits DEF new
<1>11. n \in Rects /\ n.w = new
  <2>1. CASE x = {}
    <3>1. new - g.w \in Int /\ g.w + (new - g.w) = new
      BY <1>6, <1>10
    <3>2. n = Resized(side, g, new - g.w)
      BY <2>1 DEF n
    <3> QED BY <1>6, <3>1, <3>2, ResizedType
  <2>2. CASE x # {}
    <3>1. The(x) \in Int
      BY <1>5, <1>7, <2>2, MaybeMember
    <3>2. The(x) - ref \in Int
      BY <1>8, <3>1
    <3>3. n = Rect(The(x) - ref, new)
      BY <2>2 DEF n
    <3> QED BY <1>10, <3>2, <3>3, RectType
  <2> QED BY <2>1, <2>2
<1>12. PICK d \in Int : d = Defect(f, wide)
  BY <1>3, <1>9, DefectType
<1>13. t = [f EXCEPT !.defect = d]
  BY <1>12 DEF t
<1>14. t \in Window /\ SamePlaces(f, t)
  BY <1>3, <1>13 DEF SamePlaces, SameFrame, Window
<1>15. /\ Good(t, Vx) /\ Total(t) = Total(f) /\ t.shaded = f.shaded
       /\ t.normal \in Rects /\ t.normal.w > Total(t)
  <2>1. Good(t, Vx)
    BY <1>3, <1>4, <1>14, SameGood
  <2>2. Total(t) = Total(f) /\ t.shaded = f.shaded
    BY <1>14, SameBorders DEF SamePlaces, SameFrame
  <2> QED BY <2>1, <2>2 DEF Good, Roomy, Window
<1>16. PICK p \in Rects : /\ p = IF f.shaded THEN n ELSE t.normal
                          /\ p.w > Total(t)
  BY <1>10, <1>11, <1>15
<1>17. /\ f.shaded => Good(UpdateAbsolute(FrameSetup(s,
                             ShadedGeometry(s, s.dir, n), FALSE, FALSE)), Vx)
       /\ ~f.shaded => Good(UpdateAbsolute(FrameSetup(s, n, FALSE, FALSE)), Vx)
  <2>1. s = [t EXCEPT !.normal = p]
    BY <1>16 DEF s
  <2> QED BY <1>10, <1>11, <1>15, <1>16, <2>1, AskedGood
<1>18. Good(r, Vx)
  <2>1. CASE n = g
    BY <1>15, <2>1 DEF r
  <2>2. CASE n # g /\ f.shaded
    <3>1. r = UpdateAbsolute(FrameSetup(s, ShadedGeometry(s, s.dir, n), FALSE, FALSE))
      BY <2>2 DEF r
    <3> QED BY <1>17, <2>2, <3>1
  <2>3. CASE n # g /\ ~f.shaded
    <3>1. r = UpdateAbsolute(FrameSetup(s, n, FALSE, FALSE))
      BY <2>3 DEF r
    <3> QED BY <1>17, <2>3, <3>1
  <2> QED BY <2>1, <2>2, <2>3
<1>19. ASSUME NEW a \in Maybe(Widths), a # {}, ~f0.maximized,
              w0 = a \/ (w0 = {} /\ Served(f0, a))
       PROVE  Served(Notified(r), a)
  <2>1. PICK v : v = IF w0 = {} THEN f0.client ELSE The(w0)
    OBVIOUS
  <2>2. PICK A \in Nat : A = The(a) /\ A > 0
    BY <1>19, WidthMember
  <2>3. PICK b \in Window : /\ b = Adopted(f0) /\ ~b.maximized /\ ~b.newHints
                            /\ ~f0.newHints => b = f0
    BY <1>2, <1>19, AdoptedFacts, AdoptedSizing
  <2>4. /\ ~f.maximized /\ ~f.newHints
        /\ b.hints.max = 1 /\ v > 1 => f.hints.max = MaxSize
        /\ ~(b.hints.max = 1 /\ v > 1) => SameSizing(b, f)
    <3>1. PICK z : z = Believed(b, v) /\ f = [z EXCEPT !.method = method]
      BY <2>1, <2>3 DEF f
    <3>2. /\ z \in Window /\ (z.maximized <=> b.maximized)
          /\ (z.newHints <=> b.newHints)
          /\ b.hints.max = 1 /\ v > 1 => z.hints.max = MaxSize
          /\ ~(b.hints.max = 1 /\ v > 1) => z = b
      BY <3>1, BelievedSizing
    <3>3. SameSizing(z, f)
      BY <3>1, <3>2, MethodSizing
    <3>4. /\ (f.maximized <=> z.maximized) /\ (f.newHints <=> z.newHints)
          /\ f.hints = z.hints
      BY <3>2, <3>3, WindowSized, SizedBoth
    <3> QED BY <2>3, <3>2, <3>3, <3>4
  <2>5. w = w0 /\ Wanted(f, wide) = wide
    BY <1>19, <2>4 DEF w, Wanted
  <2>6. g.w = f.normal.w /\ f.normal = f0.normal /\ Total(f) = Total(f0)
    <3>1. g.w = Place(f).w
      BY <1>4, UnshadedFacts DEF g
    <3> QED BY <1>3, <2>4, <3>1, SameBorders DEF Place, SamePlaces
  <2>7. new = Constrained(f, A + Total(f)) /\ (f.hints.max = 1 => A = 1)
    <3>1. CASE w0 = a
      <4>1. new = Constrained(f, A + Total(f))
        BY <1>19, <2>2, <2>5, <3>1 DEF new, wide
      <4>2. v = A
        BY <1>19, <2>1, <2>2, <3>1
      <4>3. CASE b.hints.max = 1 /\ v > 1
        BY <2>4, <4>1, <4>3 DEF MaxSize
      <4>4. CASE ~(b.hints.max = 1 /\ v > 1)
        <5>1. f.hints = b.hints
          BY <2>3, <2>4, <4>4, WindowSized, SizedBoth
        <5>2. b.hints.max = 1 => A = 1
          BY <2>2, <4>2, <4>4
        <5> QED BY <4>1, <5>1, <5>2
      <4> QED BY <4>3, <4>4
    <3>2. CASE w0 = {} /\ Served(f0, a)
      <4>1. b = f0 /\ (f0.hints.max = 1 => A = 1)
        BY <2>2, <2>3, <3>2 DEF Served
      <4>2. wide = Constrained(f0, A + Total(f))
        BY <2>2, <2>5, <2>6, <3>2 DEF wide, Served
      <4>3. new = Constrained(f, wide)
        BY <2>5 DEF new
      <4>4. PICK T \in Nat : T = Total(f) /\ A + T \in Int
        BY <1>3, BorderTypes
      <4>5. CASE f0.hints.max = 1 /\ v > 1
        <5>1. A = 1 /\ f.hints.max = MaxSize
          BY <2>4, <4>1, <4>5
        <5>2. wide = T + 1
          BY <1>2, <2>6, <4>2, <4>4, <4>5, ConstrainedOne
        <5>3. wide = A + T
          BY <5>1, <5>2
        <5> QED BY <4>3, <4>4, <5>1, <5>3
      <4>6. CASE ~(f0.hints.max = 1 /\ v > 1)
        <5>1. f.hints = f0.hints /\ Constrained(f, A + T) = Constrained(f0, A + T)
          BY <1>2, <2>4, <4>1, <4>6, WindowSized, SizedBoth
        <5>2. wide = Constrained(f, A + T)
          BY <4>2, <4>4, <5>1
        <5>3. Constrained(f, wide) = wide
          BY <1>3, <4>4, <5>2, ConstrainedTwice
        <5> QED BY <4>1, <4>3, <4>4, <5>1, <5>2, <5>3
      <4> QED BY <4>5, <4>6
    <3> QED BY <1>19, <3>1, <3>2
  <2>8. SameSizing(f, t) /\ t.normal = f.normal /\ ~t.maximized
    <3>1. SameSizing(f, t) /\ t.normal = f.normal
      BY <1>3, <1>13, WindowSized DEF SameSizing, SizeFields, Window
    <3> QED BY <1>3, <2>4, <3>1, WindowSized, SizedBoth
  <2>9. r \in Window /\ SameSizing(t, r) /\ r.normal.w = new
    <3>1. CASE n = g
      <4>1. r = t
        BY <3>1 DEF r
      <4> QED BY <1>11, <1>14, <2>6, <2>8, <3>1, <4>1 DEF SameSizing
    <3>2. CASE n # g
      <4>1. PICK no \in BOOLEAN : no = FALSE
        OBVIOUS
      <4>2. PICK e : /\ e = IF f.shaded THEN ShadedGeometry(s, s.dir, n) ELSE n
                     /\ r = UpdateAbsolute(FrameSetup(s, e, no, no))
        BY <3>2, <4>1 DEF r
      <4>3. s = [t EXCEPT !.normal = p]
        BY <1>16 DEF s
      <4>4. /\ s \in Window /\ Roomy(s) /\ SameShown(t, s)
            /\ SameSizing(t, s) /\ s.normal = p
        <5>1. Roomy(t)
          BY <1>15 DEF Good
        <5> QED BY <1>14, <1>16, <4>3, <5>1, NormalPlaced, NormalSized
      <4>5. ~s.maximized
        BY <1>14, <2>8, <4>4, WindowSized, SizedBoth
      <4>6. /\ n.w > Total(t) /\ (t.shaded => p = n)
            /\ t.shaded => e = ShadedGeometry(s, s.dir, n)
            /\ ~t.shaded => e = n
        BY <1>10, <1>11, <1>15, <1>16, <4>2
      <4>7. r \in Window /\ SameSizing(t, r) /\ r.normal.w = n.w
        BY <1>11, <1>15, <1>16, <2>8, <4>2, <4>4, <4>5, <4>6, AskedServed
      <4> QED BY <1>11, <4>7
    <3> QED BY <3>1, <3>2
  <2>10. Served(r, a)
    <3>1. SameSizing(f, r)
      BY <2>8, <2>9, SizingTwice
    <3>2. /\ Total(r) = Total(f) /\ ~r.maximized /\ ~r.newHints
          /\ r.hints = f.hints
          /\ Constrained(r, A + Total(f)) = Constrained(f, A + Total(f))
      BY <1>3, <2>4, <3>1, WindowSized, SizedBoth
    <3> QED BY <2>2, <2>7, <2>9, <3>2 DEF Served
  <2> QED BY <2>9, <2>10, NotifiedNormal, KeptServed
<1> QED BY <1>1, <1>18, <1>19, NotifiedGood

---------------------------------------------------------------------------
(* The events that wait                                                    *)

LEMMA FirstIn ==
  ASSUME NEW S \in SUBSET Nat, S # {}
  PROVE  First(S) \in S
<1>1. PICK m \in S : \A j \in S : m <= j
  BY NatSetHasMin
<1> QED BY <1>1 DEF First

LEMMA LastIn ==
  ASSUME NEW n \in Nat, NEW S \in SUBSET (1 .. n), S # {}
  PROVE  Last(S) \in S
<1> DEFINE T == {n - i : i \in S}
<1>1. T \in SUBSET Nat /\ T # {}
  <2>1. \A i \in S : n - i \in Nat
    OBVIOUS
  <2> QED BY <2>1
<1>2. PICK m \in T : \A k \in T : m <= k
  <2> HIDE DEF T
  <2> QED BY <1>1, NatSetHasMin
<1>3. PICK i \in S : m = n - i
  BY <1>2
<1>4. ASSUME NEW j \in S PROVE j <= i
  <2>1. n - i <= n - j
    BY <1>2, <1>3, <1>4
  <2>2. i \in Int /\ j \in Int
    OBVIOUS
  <2> QED BY <2>1, <2>2
<1> QED BY <1>4 DEF Last

LEMMA MessageFields ==
  ASSUME NEW m \in Messages, m.type = "request"
  PROVE  m.x \in Maybe(Places) /\ m.w \in Maybe(Widths)
<1>1. m # Changed
  BY DEF Changed
<1>2. PICK x \in Maybe(Places), w \in Maybe(Widths) : m = Request(x, w)
  BY <1>1 DEF Messages
<1> QED BY <1>2 DEF Request

\* The requests that name something, and the values in them
LEMMA NamingFacts ==
  ASSUME NEW q \in Seq(Messages), NEW k \in {"x", "w"},
         NEW D, D = IF k = "x" THEN Maybe(Places) ELSE Maybe(Widths)
  PROVE  /\ Foremost(q, k) \in D /\ Rearmost(q, k) \in D
         /\ Foremost(q, k) = {} <=> Naming(q, k) = {}
         /\ Rearmost(q, k) = {} <=> Naming(q, k) = {}
<1>1. Len(q) \in Nat /\ DOMAIN q = 1 .. Len(q)
  OBVIOUS
<1>2. Naming(q, k) \in SUBSET (1 .. Len(q)) /\ Naming(q, k) \in SUBSET Nat
  BY <1>1 DEF Naming, Requests
<1>3. ASSUME NEW i \in Naming(q, k) PROVE q[i][k] \in D /\ q[i][k] # {}
  <2>1. q[i] \in Messages /\ q[i].type = "request" /\ q[i][k] # {}
    BY <1>1, <1>3 DEF Naming, Requests
  <2>2. q[i].x \in Maybe(Places) /\ q[i].w \in Maybe(Widths)
    BY <2>1, MessageFields
  <2> QED BY <2>1, <2>2
<1>4. {} \in D
  BY DEF Maybe
<1>5. CASE Naming(q, k) = {}
  BY <1>4, <1>5 DEF Foremost, Rearmost
<1>6. CASE Naming(q, k) # {}
  <2>1. First(Naming(q, k)) \in Naming(q, k)
    BY <1>2, <1>6, FirstIn
  <2>2. Last(Naming(q, k)) \in Naming(q, k)
    BY <1>1, <1>2, <1>6, LastIn
  <2> QED BY <1>3, <1>6, <2>1, <2>2 DEF Foremost, Rearmost
<1> QED BY <1>5, <1>6

\* The one request that is left has the values that it was given.
LEMMA LeftFacts ==
  ASSUME NEW q \in Seq(Messages), Requests(q) # {},
         NEW x \in Maybe(Places), NEW w \in Maybe(Widths),
         NEW m, m = Left(q, Request(x, w))
  PROVE  m \in Seq(Messages) /\ Foremost(m, "w") = w
<1>1. PICK r : r = Request(x, w)
  OBVIOUS
<1>2. r \in Messages /\ r.type = "request" /\ r["w"] = w
  BY <1>1 DEF Messages, Request
<1>3. PICK last : last = Last(Requests(q))
  OBVIOUS
<1>4. Len(q) \in Nat /\ DOMAIN q = 1 .. Len(q)
  OBVIOUS
<1>5. last \in Requests(q) /\ last \in 1 .. Len(q)
  <2>1. Requests(q) \in SUBSET (1 .. Len(q))
    BY <1>4 DEF Requests
  <2> QED BY <1>3, <1>4, <2>1, LastIn
<1>6. PICK s : s = [q EXCEPT ![last] = r]
  OBVIOUS
<1>7. /\ s \in Seq(Messages) /\ Len(s) = Len(q) /\ s[last] = r
      /\ \A i \in DOMAIN q : i # last => s[i] = q[i]
  BY <1>2, <1>4, <1>5, <1>6
<1>8. PICK K : K = (DOMAIN q \ Requests(q)) \cup {last}
  OBVIOUS
<1>9. K \in SUBSET (1 .. Len(s)) /\ last \in K
  BY <1>4, <1>5, <1>7, <1>8
<1>10. m = Subsequence(s, K)
  BY <1>1, <1>3, <1>6, <1>8 DEF Left
<1>11. /\ m \in Seq(Messages)
       /\ \A k \in DOMAIN m : \E i \in K : m[k] = s[i]
       /\ \A i \in K : \E k \in DOMAIN m : m[k] = s[i]
  <2>1. /\ Subsequence(s, K) \in Seq(Messages)
        /\ \A k \in DOMAIN Subsequence(s, K) : \E i \in K : Subsequence(s, K)[k] = s[i]
        /\ \A i \in K : \E k \in DOMAIN Subsequence(s, K) : Subsequence(s, K)[k] = s[i]
    BY <1>7, <1>9, SubsequenceFacts
  <2> QED BY <1>10, <2>1
<1>12. ASSUME NEW k \in Requests(m) PROVE m[k] = r
  <2>1. k \in DOMAIN m /\ m[k].type = "request"
    BY <1>12 DEF Requests
  <2>2. PICK i \in K : m[k] = s[i]
    BY <1>11, <2>1
  <2>3. CASE i # last
    <3>1. i \in DOMAIN q /\ i \notin Requests(q)
      BY <1>8, <2>3
    <3>2. s[i] = q[i]
      BY <1>7, <2>3, <3>1
    <3> QED BY <2>1, <2>2, <3>1, <3>2 DEF Requests
  <2> QED BY <1>7, <2>2, <2>3
<1>13. PICK k \in DOMAIN m : m[k] = r
  BY <1>7, <1>9, <1>11
<1>14. k \in Requests(m)
  BY <1>2, <1>13 DEF Requests
<1>15. CASE w = {}
  <2>1. Naming(m, "w") = {}
    BY <1>2, <1>12, <1>15 DEF Naming
  <2> QED BY <1>11, <1>15, <2>1 DEF Foremost
<1>16. CASE w # {}
  <2>1. k \in Naming(m, "w")
    BY <1>2, <1>13, <1>14, <1>16 DEF Naming
  <2>2. Naming(m, "w") \in SUBSET Nat
    BY <1>11 DEF Naming, Requests
  <2>3. First(Naming(m, "w")) \in Naming(m, "w")
    BY <2>1, <2>2, FirstIn
  <2>4. m[First(Naming(m, "w"))] = r
    BY <1>12, <2>3 DEF Naming
  <2> QED BY <1>2, <1>11, <2>1, <2>4 DEF Foremost
<1> QED BY <1>15, <1>16

LEMMA HeadAndTail ==
  ASSUME NEW M, NEW s \in Seq(M), s # <<>>
  PROVE  Head(s) \in M /\ Tail(s) \in Seq(M) /\ s = <<Head(s)>> \o Tail(s)
<1>1. PICK h \in M : h = Head(s) /\ h = s[1]
  OBVIOUS
<1>2. PICK t \in Seq(M) : /\ t = Tail(s) /\ Len(t) = Len(s) - 1
                          /\ \A i \in 1 .. Len(t) : t[i] = s[i + 1]
  BY HeadTailProperties
<1>3. PICK o \in Seq(M) : o = <<h>> /\ Len(o) = 1 /\ o[1] = h
  <2>1. <<h>> \in Seq(M) /\ Len(<<h>>) = 1 /\ <<h>>[1] = h
    OBVIOUS
  <2> QED BY <2>1
<1>4. PICK c : c = o \o t
  OBVIOUS
<1>5. /\ c \in Seq(M) /\ Len(c) = Len(o) + Len(t)
      /\ \A i \in 1 .. Len(o) + Len(t) : c[i] = IF i <= Len(o) THEN o[i] ELSE t[i - Len(o)]
  BY <1>4, ConcatProperties
<1>6. Len(s) \in Nat /\ Len(t) \in Nat
  OBVIOUS
<1>7. Len(c) = Len(s)
  BY <1>2, <1>3, <1>5, <1>6
<1>8. ASSUME NEW i \in 1 .. Len(c) PROVE c[i] = s[i]
  <2>1. c[i] = IF i <= 1 THEN o[i] ELSE t[i - 1]
    BY <1>3, <1>5
  <2>2. CASE i = 1
    BY <1>1, <1>3, <2>1, <2>2
  <2>3. CASE i # 1
    <3>1. i - 1 \in 1 .. Len(t)
      BY <1>2, <1>6, <1>7, <2>3
    <3>2. t[i - 1] = s[i - 1 + 1]
      BY <1>2, <3>1
    <3>3. i \in Int /\ i > 1
      BY <1>6, <1>7, <2>3
    <3>4. t[i - 1] = s[i]
      BY <3>2, <3>3
    <3> QED BY <2>1, <3>3, <3>4
  <2> QED BY <2>2, <2>3
<1>9. c = s
  BY <1>5, <1>7, <1>8, SeqEqual
<1> QED BY <1>1, <1>2, <1>3, <1>4, <1>9

\* Merging keeps the foremost width.
LEMMA MergedFacts ==
  ASSUME NEW r \in Messages, NEW q \in Seq(Messages), Requests(q) # {}
  PROVE  /\ Merged(r, q) \in Seq(Messages)
         /\ Foremost(Merged(r, q), "w") = Foremost(<<r>> \o q, "w")
<1>1. PICK all \in Seq(Messages) : all = <<r>> \o q
  <2>1. <<r>> \in Seq(Messages)
    OBVIOUS
  <2>2. <<r>> \o q \in Seq(Messages)
    BY <2>1, ConcatProperties
  <2> QED BY <2>2
<1>2. PICK x \in Maybe(Places) : x = Foremost(all, "x")
  BY NamingFacts
<1>3. PICK w \in Maybe(Widths) : w = Foremost(all, "w")
  <2>1. "w" # "x"
    OBVIOUS
  <2> QED BY <2>1, NamingFacts
<1>4. Merged(r, q) = Left(q, Request(x, w))
  BY <1>1, <1>2, <1>3 DEF Merged
<1> QED BY <1>1, <1>3, <1>4, LeftFacts

LEMMA AwaitedFacts ==
  ASSUME NEW q \in Seq(Messages), NEW method
  PROVE  /\ Awaited(q, method) \in Maybe(Widths)
         /\ Awaited(q, method) = {} <=> Naming(q, "w") = {}
<1>1. "w" # "x"
  OBVIOUS
<1>2. /\ Foremost(q, "w") \in Maybe(Widths) /\ Rearmost(q, "w") \in Maybe(Widths)
      /\ Foremost(q, "w") = {} <=> Naming(q, "w") = {}
      /\ Rearmost(q, "w") = {} <=> Naming(q, "w") = {}
  BY <1>1, NamingFacts
<1> QED BY <1>2 DEF Awaited

---------------------------------------------------------------------------
(* A new window                                                            *)

LEMMA NewGood ==
  ASSUME FramesAssumption, SomeSizeFits, NEW h \in HintSets, NEW x \in Places,
         NEW w \in Widths, NEW b \in Borders, NEW method \in Methods
  PROVE  Good(NewWindow(h, x, w, b, method), 0) /\ Bordered(NewWindow(h, x, w, b, method))
<1>1. /\ h \in HintsOf /\ x \in Int /\ w \in Int /\ w > 0 /\ b \in AllBorders
      /\ b \in Nat /\ TitleThickness \in Thicknesses
      /\ method \in {"auto", "grav", "static"}
  BY DEF FramesAssumption, HintsOf, AllBorders, Thicknesses
<1>2. PICK l \in AllLimits : l = [min |-> 0, max |-> MaxSize]
  BY DEF AllLimits
<1>3. PICK place \in Rects : place = Rect(x, w)
  BY <1>1, RectType
<1>4. PICK small \in Rects : small = Rect(0, 1) /\ small.w = 1
  BY RectType
<1>5. PICK no \in BOOLEAN : no = FALSE
  OBVIOUS
<1>6. PICK yes \in BOOLEAN : yes = TRUE
  OBVIOUS
<1>7. PICK f : f = [hints |-> h, newHints |-> no, limit |-> l,
            border |-> b, unshaped |-> b, thickness |-> TitleThickness,
            title |-> "N", shaded |-> no, dir |-> "N", byTitle |-> yes,
            maximized |-> no, max |-> small, defect |-> 0,
            normal |-> place, frame |-> place,
            client |-> w, told |-> {}, method |-> method]
  OBVIOUS
<1>8. f \in Window /\ ~f.shaded /\ ~f.maximized /\ f.max = small
  BY <1>1, <1>5, <1>7 DEF Window, Dirs
<1>9. PICK b2 \in Nat : b2 = Total(f)
  BY <1>8, BorderTypes
<1>10. PICK wide \in Rects : wide = Rect(x, w + Total(f))
  <2>1. w + Total(f) \in Int
    BY <1>1, <1>9
  <2> QED BY <1>1, <2>1, RectType
<1>11. PICK g \in Rects : g = GravityConstrained(f, h.grav, wide) /\ g.w > Total(f)
  BY <1>8, GravityType
<1>12. PICK c \in Int : c = g.w - Total(f) /\ c > 0
  <2>1. g.w \in Int
    BY RectFields
  <2> QED BY <1>9, <1>11, <2>1
<1>13. PICK s : s = [f EXCEPT !.frame = g, !.normal = g, !.client = c]
  OBVIOUS
<1>14. NewWindow(h, x, w, b, method) = Notified(s)
  <2>1. f = [hints |-> h, newHints |-> FALSE, limit |-> [min |-> 0, max |-> MaxSize],
            border |-> b, unshaped |-> b, thickness |-> TitleThickness,
            title |-> "N", shaded |-> FALSE, dir |-> "N", byTitle |-> TRUE,
            maximized |-> FALSE, max |-> Rect(0, 1), defect |-> 0,
            normal |-> Rect(x, w), frame |-> Rect(x, w),
            client |-> w, told |-> {}, method |-> method]
    BY <1>2, <1>3, <1>4, <1>5, <1>6, <1>7
  <2>2. g = GravityConstrained(f, h.grav, Rect(x, w + Total(f)))
    BY <1>10, <1>11
  <2>3. s = [f EXCEPT !.frame = g, !.normal = g, !.client = g.w - Total(f)]
    BY <1>12, <1>13
  <2> QED BY <2>1, <2>2, <2>3, Zenon DEF NewWindow
<1>15. /\ s \in Window /\ ~s.shaded /\ ~s.maximized /\ s.max = small
       /\ s.frame = g /\ s.normal = g /\ s.client = c /\ s.told = {}
       /\ Total(s) = Total(f)
  <2>1. f.told = {}
    BY <1>7
  <2> QED BY <1>8, <1>13, <2>1 DEF Window, Total
<1>16. Agrees(s, 0)
  <2>1. At(g, -0) = g
    <3>0. g.x \in Int
      BY RectFields
    <3>1. PICK e \in Int : e = g.x
      BY <3>0
    <3>2. e + (-0) = e /\ -0 \in Int
      OBVIOUS
    <3>3. At(g, -0) = Rect(g.x + (-0), g.w) /\ g = Rect(g.x, g.w)
      BY <3>2, AtType, RectFields
    <3> QED BY <3>1, <3>2, <3>3
  <2>2. Place(s) = g
    BY <1>15 DEF Place
  <2> QED BY <1>15, <2>1, <2>2 DEF Agrees
<1>17. Knows(s) /\ Roomy(s)
  BY <1>4, <1>11, <1>12, <1>15 DEF Knows, Roomy
<1>18. Good(s, 0)
  BY <1>15, <1>16, <1>17 DEF Good
<1>19. Good(Notified(s), 0)
  BY <1>18, NotifiedGood
<1>20. ~Notified(s).shaded
  BY <1>15, NotifiedFacts DEF Alike
<1> QED BY <1>14, <1>19, <1>20 DEF Bordered

LEMMA FInvInit ==
  ASSUME FramesAssumption, SomeSizeFits, Init
  PROVE  FInv
<1>0. crooked = FALSE
  BY DEF Init
<1>1. Vx = 0 /\ hints \in HintSets /\ queue = <<>> /\ Vx \in Pages
  BY DEF Init, FramesAssumption
<1>2. PICK x \in Places, w \in Widths, b \in Borders, method \in Methods :
        fw = NewWindow(hints, x, w, b, method)
  BY DEF Init
<1>3. Good(fw, Vx) /\ Bordered(fw)
  BY <1>1, <1>2, NewGood
<1>4. queue \in Seq(Messages)
  BY <1>1
<1>5. Sized(fw)
  <2>1. Vx \in Int
    BY <1>1
  <2> QED BY <1>3, <2>1, GoodSized
<1> QED BY <1>0, <1>1, <1>3, <1>4, <1>5 DEF FInv

---------------------------------------------------------------------------
(* Every step                                                              *)

LEMMA StraightKept ==
  ASSUME FramesAssumption, Good(fw', Vx'), ~crooked' => Bordered(fw'),
         crooked' \in BOOLEAN, Vx' \in Pages, hints' \in HintSets,
         queue' \in Seq(Messages)
  PROVE  FInv'
<1>1. Vx' \in Int
  BY DEF FramesAssumption
<1>2. Sized(fw')
  BY <1>1, GoodSized
<1> QED BY <1>2 DEF FInv

LEMMA OverrideGood ==
  ASSUME FramesAssumption, Straight, NEW f, Good(f, Vx),
         Command(f) \/ Override(f, FALSE)
  PROVE  FInv'
<1>0. PICK no \in BOOLEAN : no = FALSE
  OBVIOUS
<1>1. Becomes(f, no) /\ UNCHANGED queue
  BY <1>0 DEF Command, Override
<1>2. /\ Good(fw', Vx') /\ (~crooked' => Bordered(fw'))
      /\ crooked' \in BOOLEAN /\ UNCHANGED <<Vx, hints>>
  BY <1>1, BecomesGood
<1>3. Vx' \in Pages /\ hints' \in HintSets /\ queue' \in Seq(Messages)
  BY <1>1, <1>2 DEF Straight
<1> QED BY <1>2, <1>3, StraightKept

LEMMA OverrideSized ==
  ASSUME FramesAssumption, Straight, NEW f, Sized(f), Override(f, TRUE)
  PROVE  FInv'
<1>1. Becomes(f, TRUE) /\ UNCHANGED queue
  BY DEF Override
<1>2. Sized(fw') /\ crooked' = TRUE /\ UNCHANGED <<Vx, hints>>
  BY <1>1, BecomesSized
<1>3. Vx' \in Pages /\ hints' \in HintSets /\ queue' \in Seq(Messages)
  BY <1>1, <1>2 DEF Straight
<1> QED BY <1>2, <1>3 DEF FInv

LEMMA ShadeStep ==
  ASSUME FramesAssumption, Straight, Vx \in Int, NEW dir \in Maybe(ShadeDirs),
         NEW again, WindowShade(dir, again)
  PROVE  FInv'
<1>1. PICK on \in BOOLEAN :
        on = IF dir = {} THEN ~fw.shaded ELSE ~fw.shaded \/ again
  OBVIOUS
<1>2. PICK new : new = IF dir = {} THEN fw.title ELSE The(dir)
  OBVIOUS
<1>3. fw \in Window /\ Good(fw, Vx) /\ Bordered(fw)
  BY DEF Straight, Good
<1>4. new \in Dirs
  <2>1. CASE dir = {}
    BY <1>2, <1>3, <2>1 DEF Dirs, Window
  <2>2. CASE dir # {}
    BY <1>2, <2>2, MaybeMember DEF FramesAssumption, Dirs
  <2> QED BY <2>1, <2>2
<1>5. PICK title \in BOOLEAN : title = IF on THEN dir = {} ELSE fw.byTitle
  BY <1>3 DEF Window
<1>6. PICK f : f = [fw EXCEPT !.byTitle = title]
  OBVIOUS
<1>7. Command(Shade(f, on, new))
  BY <1>1, <1>2, <1>5, <1>6 DEF WindowShade
<1>8. f \in Window /\ SamePlaces(fw, f)
  BY <1>3, <1>6 DEF SamePlaces, SameFrame, Window
<1>9. Good(f, Vx) /\ Bordered(f)
  BY <1>3, <1>8, SameGood
<1>10. CASE on = TRUE
  <2>1. Good(Shade(f, TRUE, new), Vx)
    BY <1>4, <1>9, ShadeGood
  <2>2. Command(Shade(f, TRUE, new))
    BY <1>7, <1>10
  <2> QED BY <2>1, <2>2, OverrideGood
<1>11. CASE on = FALSE
  <2>1. f.shaded
    BY <1>1, <1>8, <1>11 DEF SamePlaces, SameFrame
  <2>2. Good(Shade(f, FALSE, new), Vx)
    BY <1>9, <2>1, UnshadeGood
  <2>3. Command(Shade(f, FALSE, new))
    BY <1>7, <1>11
  <2> QED BY <2>2, <2>3, OverrideGood
<1> QED BY <1>10, <1>11

LEMMA SizeStep ==
  ASSUME FramesAssumption, SomeSizeFits, Straight, Vx \in Int,
         NEW x \in Int, NEW w \in Int,
         Move(x) \/ Resize(w) \/ ResizeMove(x, w) \/ Maximize(x, w) \/ ResizeMaximize(w)
  PROVE  FInv'
<1>1. Good(fw, Vx) /\ hints \in HintSets
  BY DEF Straight
<1>2. CASE Move(x)
  <2>1. Command(UpdateAbsolute(FrameSetup(fw, Rect(x, fw.frame.w), TRUE, FALSE)))
    BY <1>2 DEF Move
  <2> QED BY <1>1, <2>1, MoveGood, OverrideGood
<1>3. PICK f : f = Adopted([fw EXCEPT !.maximized = FALSE])
  OBVIOUS
<1>4. PICK g : g = Resized(f.hints.grav, Unshaded(fw), Constrained(f, w) - Unshaded(fw).w)
  OBVIOUS
<1>5. CASE Resize(w)
  <2>1. PICK n : n = [f EXCEPT !.normal = g]
    OBVIOUS
  <2>2. PICK s : s = IF f.shaded
                       THEN FrameSetup(n, ShadedGeometry(n, n.dir, g), FALSE, FALSE)
                     ELSE FrameSetup(f, g, FALSE, FALSE)
    OBVIOUS
  <2>3. Override(UpdateAbsolute(s), FALSE)
    BY <1>3, <1>4, <1>5, <2>1, <2>2 DEF Resize
  <2>4. Good(UpdateAbsolute(s), Vx)
    <3>1. /\ f.shaded => Good(UpdateAbsolute(FrameSetup(n, ShadedGeometry(n, n.dir, g), FALSE, FALSE)), Vx)
          /\ ~f.shaded => Good(UpdateAbsolute(FrameSetup(f, g, FALSE, FALSE)), Vx)
      BY <1>1, <1>3, <1>4, <2>1, ResizeGood
    <3> QED BY <2>2, <3>1
  <2> QED BY <2>3, <2>4, OverrideGood
<1>6. CASE ResizeMove(x, w)
  <2>1. f \in Window
    BY <1>1, <1>3, BegunNormal
  <2>2. PICK send \in BOOLEAN : send = ~f.shaded
    OBVIOUS
  <2>3. PICK s : s = UpdateAbsolute(FrameSetup(f, Rect(x, Constrained(f, w)),
                                              send, FALSE))
    OBVIOUS
  <2>4. Override(s, f.shaded /\ Side(f.dir) # "N")
    BY <1>3, <1>6, <2>2, <2>3 DEF ResizeMove
  <2>5. (~(f.shaded /\ Side(f.dir) # "N") => Good(s, Vx)) /\ Sized(s)
    BY <1>1, <1>3, <2>3, ResizeMoveGood
  <2>6. CASE f.shaded /\ Side(f.dir) # "N"
    <3>1. Override(s, TRUE)
      BY <2>4, <2>6
    <3> QED BY <2>5, <3>1, OverrideSized
  <2>7. CASE ~(f.shaded /\ Side(f.dir) # "N")
    <3>1. Override(s, FALSE)
      BY <2>4, <2>7
    <3> QED BY <2>5, <2>7, <3>1, OverrideGood
  <2> QED BY <2>6, <2>7
<1>7. CASE Maximize(x, w)
  <2>1. PICK m : m = Adopted([fw EXCEPT !.maximized = TRUE, !.defect = 0])
    OBVIOUS
  <2>2. PICK t : t = [m EXCEPT !.defect = Defect(m, w), !.max = Rect(x, Constrained(m, w))]
    OBVIOUS
  <2>3. PICK e : e = IF t.shaded THEN ShadedGeometry(t, t.dir, t.max) ELSE t.max
    OBVIOUS
  <2>4. Override(UpdateAbsolute(FrameSetup(t, e, TRUE, FALSE)), FALSE)
    BY <1>7, <2>1, <2>2, <2>3 DEF Maximize
  <2>5. Good(UpdateAbsolute(FrameSetup(t, e, TRUE, FALSE)), Vx)
    <3>1. (t.shaded => e = ShadedGeometry(t, t.dir, t.max)) /\ (~t.shaded => e = t.max)
      BY <2>3
    <3> QED BY <1>1, <2>1, <2>2, <3>1, MaximizeGood
  <2> QED BY <2>4, <2>5, OverrideGood
<1>8. CASE ResizeMaximize(w)
  <2>1. PICK m : m = [f EXCEPT !.maximized = TRUE, !.max = g, !.normal = fw.normal,
                               !.defect = g.w - Constrained(f, g.w)]
    OBVIOUS
  <2>2. ~fw.shaded /\ Override(UpdateAbsolute(FrameSetup(m, g, TRUE, FALSE)), FALSE)
    BY <1>3, <1>4, <1>8, <2>1 DEF ResizeMaximize
  <2>3. Good(UpdateAbsolute(FrameSetup(m, g, TRUE, FALSE)), Vx)
    BY <1>1, <1>3, <1>4, <2>1, <2>2, ResizeMaximizeGood
  <2> QED BY <2>2, <2>3, OverrideGood
<1> QED BY <1>2, <1>5, <1>6, <1>7, <1>8

LEMMA BorderStep ==
  ASSUME FramesAssumption, Straight, Vx \in Int,
         \/ \E b \in Borders, t \in Thicknesses : Redecorate(b, t)
         \/ \E shaped \in BOOLEAN : ReshapeBorder(shaped)
         \/ \E forget \in BOOLEAN : Unmaximize(forget)
  PROVE  FInv'
<1>1. Good(fw, Vx) /\ fw \in Window
  BY DEF Straight, Good
<1>2. ASSUME NEW b \in Borders, NEW t \in Thicknesses, Redecorate(b, t)
      PROVE  FInv'
  <2>1. Override(Reborder(fw, [fw EXCEPT !.border = b, !.unshaped = b, !.thickness = t]), FALSE)
    BY <1>2 DEF Redecorate
  <2> QED BY <1>1, <2>1, RedecorateGood, OverrideGood
<1>3. ASSUME NEW shaped \in BOOLEAN, ReshapeBorder(shaped)
      PROVE  FInv'
  <2>1. PICK b \in AllBorders : b = IF shaped THEN 0 ELSE fw.unshaped
    BY <1>1 DEF AllBorders, Window
  <2>2. Override(Reborder(fw, [fw EXCEPT !.border = b]), FALSE)
    BY <1>3, <2>1 DEF ReshapeBorder
  <2> QED BY <1>1, <2>1, <2>2, ReshapeGood, OverrideGood
<1>4. ASSUME NEW forget \in BOOLEAN, Unmaximize(forget)
      PROVE  FInv'
  <2>1. PICK p \in {fw.normal, fw.max} : p = IF forget THEN fw.max ELSE fw.normal
    OBVIOUS
  <2>2. PICK f : f = [fw EXCEPT !.maximized = FALSE, !.normal = p]
    OBVIOUS
  <2>3. PICK s : s = FrameSetup(f, At(f.normal, -Vx), TRUE, FALSE)
    OBVIOUS
  <2>4. fw.maximized /\ Override(Reborder(s, s), FALSE)
    BY <1>4, <2>1, <2>2, <2>3 DEF Unmaximize
  <2> QED BY <1>1, <2>1, <2>2, <2>3, <2>4, UnmaximizeGood, OverrideGood
<1> QED BY <1>2, <1>3, <1>4

LEMMA StyleStep ==
  ASSUME FramesAssumption, SomeSizeFits, Straight, Vx \in Int,
         \/ \E dir \in {"N", "W", "E"} : TitleDir(dir)
         \/ \E limit \in Limits : LimitSize(limit)
  PROVE  FInv'
<1>1. Good(fw, Vx) /\ hints \in HintSets
  BY DEF Straight
<1>2. ASSUME NEW dir \in {"N", "W", "E"}, TitleDir(dir)
      PROVE  FInv'
  <2>1. PICK t : t = [fw EXCEPT !.title = dir]
    OBVIOUS
  <2>2. PICK f, d, grav :
          f = Adopted(t) /\ d = Total(t) - Total(fw) /\ grav = fw.hints.grav
    OBVIOUS
  <2>3. PICK n : n = [f EXCEPT !.normal = GravityConstrained(f, grav, Resized(grav, @, d))]
    OBVIOUS
  <2>4. PICK k : k = f.hints.grav
    OBVIOUS
  <2>5. PICK r : r = Refitted(IF fw.maximized
           THEN MaxConstrained(n, k, Resized(k, n.max, d)) ELSE n)
    OBVIOUS
  <2>6. Override(r, FALSE)
    BY <1>2, <2>1, <2>2, <2>3, <2>4, <2>5 DEF TitleDir
  <2>7. Good(r, Vx)
    <3>1. /\ Good(Refitted(n), Vx) \/ fw.maximized
          /\ Good(Refitted(MaxConstrained(n, k, Resized(k, n.max, d))), Vx)
      BY <1>1, <2>1, <2>2, <2>3, TitleGood
    <3> QED BY <2>5, <3>1
  <2> QED BY <2>6, <2>7, OverrideGood
<1>3. ASSUME NEW limit \in Limits, LimitSize(limit)
      PROVE  FInv'
  <2>1. PICK f, grav :
          f = Adopted([fw EXCEPT !.limit = limit]) /\ grav = fw.hints.grav
    OBVIOUS
  <2>2. PICK n : n = [f EXCEPT !.normal = GravityConstrained(f, grav, @)]
    OBVIOUS
  <2>3. PICK k : k = f.hints.grav
    OBVIOUS
  <2>4. PICK g : g = GravityConstrained(f, k, fw.frame)
    OBVIOUS
  <2>5. PICK r : r = FrameSetup(IF fw.maximized THEN MaxConstrained(n, k, n.max) ELSE n,
                       g, TRUE, TRUE)
    OBVIOUS
  <2>6. Override(r, fw.shaded)
    BY <1>3, <2>1, <2>2, <2>3, <2>4, <2>5 DEF LimitSize
  <2>7. (~fw.shaded => Good(r, Vx)) /\ Sized(r)
    <3>1. /\ ~fw.shaded =>
               /\ ~fw.maximized => Good(FrameSetup(n, g, TRUE, TRUE), Vx)
               /\ Good(FrameSetup(MaxConstrained(n, k, n.max), g, TRUE, TRUE), Vx)
          /\ ~fw.maximized => Sized(FrameSetup(n, g, TRUE, TRUE))
          /\ Sized(FrameSetup(MaxConstrained(n, k, n.max), g, TRUE, TRUE))
      BY <1>1, <2>1, <2>2, <2>4, LimitGood
    <3> QED BY <2>5, <3>1
  <2>8. fw.shaded \in BOOLEAN
    BY <1>1 DEF Good, Window
  <2>9. CASE fw.shaded = TRUE
    BY <2>6, <2>7, <2>9, OverrideSized
  <2>10. CASE fw.shaded = FALSE
    BY <2>6, <2>7, <2>10, OverrideGood
  <2> QED BY <2>8, <2>9, <2>10
<1> QED BY <1>2, <1>3

LEMMA ClientStep ==
  ASSUME FramesAssumption, SomeSizeFits, Straight, Vx \in Int,
         \/ \E x \in Maybe(Places), w \in Maybe(Widths) : Configure(x, w)
         \/ \E h \in HintSets : ChangeHints(h)
         \/ HandleHints
         \/ HandleRequest
         \/ \E x \in Maybe(Places), w \in Maybe(Widths), h \in HintSets :
              EwmhMoveResize(x, w, h.grav)
  PROVE  FInv'
<1>1. /\ Good(fw, Vx) /\ fw \in Window /\ hints \in HintSets
      /\ queue \in Seq(Messages) /\ Bordered(fw) /\ Vx \in Pages
      /\ crooked = FALSE
  BY DEF Straight, Good
<1>2. ASSUME NEW x \in Maybe(Places), NEW w \in Maybe(Widths), Configure(x, w)
      PROVE  FInv'
  <2>1. Request(x, w) \in Messages
    BY DEF Messages
  <2>2. queue' \in Seq(Messages)
    BY <1>1, <1>2, <2>1 DEF Configure
  <2>3. fw' = fw /\ Vx' = Vx /\ hints' = hints /\ crooked' = crooked
    BY <1>2 DEF Configure
  <2> QED BY <1>1, <2>2, <2>3, StraightKept
<1>3. ASSUME NEW h \in HintSets, ChangeHints(h)
      PROVE  FInv'
  <2>1. Changed \in Messages
    BY DEF Messages
  <2>2. queue' \in Seq(Messages)
    BY <1>1, <1>3, <2>1 DEF ChangeHints
  <2>3. fw' = fw /\ Vx' = Vx /\ hints' \in HintSets /\ crooked' = crooked
    BY <1>3 DEF ChangeHints
  <2> QED BY <1>1, <2>2, <2>3, StraightKept
<1>4. CASE HandleHints
  <2>1. PICK new \in BOOLEAN : new = TRUE
    OBVIOUS
  <2>2. fw' = [fw EXCEPT !.newHints = new] /\ UNCHANGED <<Vx, hints, crooked>>
    BY <1>4, <2>1 DEF HandleHints
  <2>3. fw' \in Window /\ SamePlaces(fw, fw')
    BY <1>1, <2>2 DEF SamePlaces, SameFrame, Window
  <2>4. Good(fw', Vx) /\ Bordered(fw')
    BY <1>1, <2>3, SameGood
  <2>5. queue' \in Seq(Messages)
    BY <1>1, <1>4 DEF HandleHints
  <2>6. Good(fw', Vx')
    BY <2>2, <2>4
  <2> QED BY <1>1, <2>2, <2>4, <2>5, <2>6, StraightKept
<1>5. CASE HandleRequest
  <2>1. PICK r : r = Head(queue) /\ r \in Messages /\ r.type = "request"
    <3>1. queue # <<>> /\ Head(queue).type = "request"
      BY <1>5 DEF HandleRequest
    <3>2. Head(queue) \in Messages
      BY <1>1, <3>1
    <3> QED BY <3>1, <3>2
  <2>2. PICK q \in Seq(Messages) : q = Tail(queue)
    <3>1. queue # <<>>
      BY <1>5 DEF HandleRequest
    <3>2. Tail(queue) \in Seq(Messages)
      BY <1>1, <3>1
    <3> QED BY <3>2
  <2>3. CASE fw.method # "auto" /\ Requests(q) # {}
    <3>1. queue' = Merged(r, q) /\ UNCHANGED <<fw, Vx, hints, crooked>>
      BY <1>5, <2>1, <2>2, <2>3 DEF HandleRequest
    <3>2. queue' \in Seq(Messages)
      BY <2>1, <2>3, <3>1, MergedFacts
    <3> QED BY <1>1, <3>1, <3>2, StraightKept
  <2>4. CASE ~(fw.method # "auto" /\ Requests(q) # {})
    <3>1. PICK f, x : f = Adopted(fw) /\ x = IF fw.shaded THEN {} ELSE r.x
      OBVIOUS
    <3>2. /\ queue' = q
          /\ \E method \in Detected(f, x) :
               Becomes(Configured(fw, r.x, r.w, FALSE, f.hints.grav, method), FALSE)
      BY <1>5, <2>1, <2>2, <2>4, <3>1 DEF HandleRequest
    <3>3. PICK method \in Detected(f, x) :
               Becomes(Configured(fw, r.x, r.w, FALSE, f.hints.grav, method), FALSE)
      BY <3>2
    <3>4. method \in {"auto", "grav", "static"}
      <4>1. f \in Window
        BY <1>1, <3>1, AdoptedFacts
      <4>2. f.method \in {"auto", "grav", "static"}
        BY <4>1 DEF Window
      <4> QED BY <4>2 DEF Detected
    <3>5. r.x \in Maybe(Places) /\ r.w \in Maybe(Widths)
      BY <2>1, MessageFields
    <3>11. PICK no \in BOOLEAN : no = FALSE
      OBVIOUS
    <3>6. PICK grav : grav = f.hints.grav
      OBVIOUS
    <3>7. PICK s : s = Configured(fw, r.x, r.w, no, grav, method)
      OBVIOUS
    <3>8. Good(s, Vx)
      BY <1>1, <3>4, <3>5, <3>7, ConfiguredFacts
    <3>9. Becomes(s, no)
      BY <3>3, <3>11, <3>6, <3>7
    <3>10. /\ Good(fw', Vx') /\ (~crooked' => Bordered(fw'))
           /\ crooked' \in BOOLEAN /\ UNCHANGED <<Vx, hints>>
      BY <3>11, <3>8, <3>9, BecomesGood
    <3> QED BY <1>1, <2>2, <3>2, <3>10, StraightKept
  <2> QED BY <2>3, <2>4
<1>6. ASSUME NEW x \in Maybe(Places), NEW w \in Maybe(Widths), NEW grav,
             EwmhMoveResize(x, w, grav)
      PROVE  FInv'
  <2>1. PICK yes : yes = TRUE
    OBVIOUS
  <2>2. PICK method \in {"auto", "grav", "static"} : method = fw.method
    BY <1>1 DEF Window
  <2>3. PICK s : s = Configured(fw, x, w, yes, grav, method)
    OBVIOUS
  <2>4. Good(s, Vx)
    BY <1>1, <2>3, ConfiguredFacts
  <2>5. Override(s, FALSE)
    BY <1>6, <2>1, <2>2, <2>3 DEF EwmhMoveResize
  <2> QED BY <2>4, <2>5, OverrideGood
<1> QED BY <1>2, <1>3, <1>4, <1>5, <1>6

LEMMA FInvStep ==
  ASSUME FramesAssumption, SomeSizeFits, Straight, Step
  PROVE  FInv'
<1>0. Pages \subseteq Nat /\ Places \subseteq Int /\ Widths \subseteq Int
  BY DEF FramesAssumption
<1>1. Good(fw, Vx) /\ fw \in Window /\ Vx \in Int /\ Vx \in Pages /\ Total(fw) \in Int
  <2>1. Good(fw, Vx) /\ fw \in Window /\ Vx \in Pages
    BY DEF Straight, Good
  <2> QED BY <1>0, <2>1, BorderTypes
<1>2. \A w \in Widths : w + Total(fw) \in Int
  BY <1>0, <1>1
<1>4. CASE \E dir \in Maybe(ShadeDirs), again \in BOOLEAN : WindowShade(dir, again)
  BY <1>1, <1>4, ShadeStep
<1>5. CASE \E x \in Places : Move(x)
  <2>1. PICK x \in Int : Move(x)
    BY <1>0, <1>5
  <2> QED BY <1>1, <2>1, SizeStep
<1>6. ASSUME NEW v \in Pages, Page(v) PROVE FInv'
  <2>1. /\ Vx' = v /\ UNCHANGED <<hints, queue, crooked>>
        /\ fw' = FrameSetup(fw, At(fw.frame, Vx - v), FALSE, FALSE)
    BY <1>6 DEF Page
  <2>2. v \in Int
    BY <1>0
  <2>3. Good(fw', v) /\ (Bordered(fw) => Bordered(fw'))
    BY <1>1, <2>1, <2>2, PageGood
  <2>4. /\ Good(fw', Vx') /\ Bordered(fw') /\ crooked' = FALSE
        /\ hints' \in HintSets /\ queue' \in Seq(Messages)
    BY <2>1, <2>3 DEF Straight
  <2> QED BY <2>1, <2>4, StraightKept
<1>7. CASE \E w \in Widths : Resize(w + Total(fw)) \/ ResizeMaximize(w + Total(fw))
  <2>1. PICK w \in Int : Resize(w) \/ ResizeMaximize(w)
    BY <1>2, <1>7
  <2>2. 0 \in Int
    OBVIOUS
  <2> QED BY <1>1, <2>1, <2>2, SizeStep
<1>8. CASE \E x \in Places, w \in Widths :
             ResizeMove(x, w + Total(fw)) \/ Maximize(x, w + Total(fw))
  <2>1. PICK x \in Int, w \in Int : ResizeMove(x, w) \/ Maximize(x, w)
    BY <1>0, <1>2, <1>8
  <2> QED BY <1>1, <2>1, SizeStep
<1>9. CASE \/ \E b \in Borders, t \in {0, TitleThickness} : Redecorate(b, t)
           \/ \E shaped \in BOOLEAN : ReshapeBorder(shaped)
           \/ \E forget \in BOOLEAN : Unmaximize(forget)
  BY <1>1, <1>9, BorderStep DEF Thicknesses
<1>10. CASE \/ \E dir \in {"N", "W", "E"} : TitleDir(dir)
            \/ \E limit \in Limits : LimitSize(limit)
  BY <1>1, <1>10, StyleStep
<1>11. CASE \/ \E x \in Maybe(Places), w \in Maybe(Widths) : Configure(x, w)
            \/ \E h \in HintSets : ChangeHints(h)
            \/ HandleHints
            \/ HandleRequest
            \/ \E x \in Maybe(Places), w \in Maybe(Widths), h \in HintSets :
                 EwmhMoveResize(x, w, h.grav)
  BY <1>1, <1>11, ClientStep
<1> QED BY <1>4, <1>5, <1>6, <1>7, <1>8, <1>9, <1>10, <1>11 DEF Step

LEMMA FInvNext ==
  ASSUME FramesAssumption, SomeSizeFits, FInv, [Next]_vars
  PROVE  FInv'
<1>1. CASE UNCHANGED vars
  BY <1>1 DEF vars, FInv
<1>2. CASE Next
  <2>1. Straight /\ Step
    BY <1>2 DEF FInv, Straight, Next
  <2> QED BY <2>1, FInvStep
<1> QED BY <1>1, <1>2


---------------------------------------------------------------------------
(* The requests of the client                                              *)

\* The client has the width that its requests came to, or one waits.
LInv ==
  /\ FInv /\ asked \in Maybe(Widths)
  /\ IF Awaited(queue, fw.method) # {} THEN asked = Awaited(queue, fw.method)
     ELSE asked # {} => Served(fw, asked)

\* A step that says what the client is to have otherwise
LEMMA ExpectsKeeps ==
  ASSUME FInv', NEW a \in Maybe(Widths), Expects(a),
         Awaited(queue', fw'.method) = {} /\ a # {} => Served(fw', a)
  PROVE  LInv'
<1>1. PICK w \in Maybe(Widths) : w = Awaited(queue', fw'.method)
  BY AwaitedFacts DEF FInv
<1>2. asked' = IF w = {} THEN a ELSE w
  BY <1>1 DEF Expects
<1> QED BY <1>1, <1>2 DEF LInv

\* A step that keeps the widths in the queue, and the width of the window
LEMMA AskedKept ==
  ASSUME LInv, FInv', Expects(asked),
         Naming(queue', "w") = {} => Naming(queue, "w") = {},
         asked # {} /\ Served(fw, asked) => Served(fw', asked)
  PROVE  LInv'
<1>1. queue \in Seq(Messages) /\ queue' \in Seq(Messages) /\ asked \in Maybe(Widths)
  BY DEF LInv, FInv
<1>2. ASSUME Awaited(queue', fw'.method) = {}, asked # {} PROVE Served(fw', asked)
  <2>1. Naming(queue, "w") = {}
    BY <1>1, <1>2, AwaitedFacts
  <2>2. Awaited(queue, fw.method) = {}
    BY <1>1, <2>1, AwaitedFacts
  <2> QED BY <1>2, <2>2 DEF LInv
<1> QED BY <1>1, <1>2, ExpectsKeeps

LEMMA ShadeKept ==
  ASSUME FramesAssumption, LInv, Straight, Vx \in Int,
         NEW dir \in Maybe(ShadeDirs), NEW again, WindowShade(dir, again)
  PROVE  /\ UNCHANGED queue /\ Expects(asked)
         /\ asked # {} /\ Served(fw, asked) => Served(fw', asked)
<1>1. PICK on \in BOOLEAN :
        on = IF dir = {} THEN ~fw.shaded ELSE ~fw.shaded \/ again
  OBVIOUS
<1>2. PICK new : new = IF dir = {} THEN fw.title ELSE The(dir)
  OBVIOUS
<1>3. fw \in Window /\ Good(fw, Vx)
  BY DEF Straight, Good
<1>4. new \in Dirs
  <2>1. CASE dir = {}
    BY <1>2, <1>3, <2>1 DEF Dirs, Window
  <2>2. CASE dir # {}
    BY <1>2, <2>2, MaybeMember DEF FramesAssumption, Dirs
  <2> QED BY <2>1, <2>2
<1>5. PICK title \in BOOLEAN : title = IF on THEN dir = {} ELSE fw.byTitle
  BY <1>3 DEF Window
<1>6. PICK f : f = [fw EXCEPT !.byTitle = title]
  OBVIOUS
<1>7. Command(Shade(f, on, new))
  BY <1>1, <1>2, <1>5, <1>6 DEF WindowShade
<1>8. f \in Window /\ SamePlaces(fw, f) /\ SameSizing(fw, f) /\ f.normal = fw.normal
  BY <1>3, <1>6, WindowSized DEF SamePlaces, SameFrame, Window, SameSizing, SizeFields
<1>9. Good(f, Vx)
  BY <1>3, <1>8, SameGood
<1>10. ASSUME Served(fw, asked) PROVE Served(fw', asked)
  <2>1. Served(f, asked)
    BY <1>3, <1>8, <1>10, KeptServed
  <2>2. PICK s : s = Shade(f, on, new)
    OBVIOUS
  <2>3. s \in Window /\ Served(s, asked)
    BY <1>4, <1>9, <2>1, <2>2, ShadeServed
  <2> QED BY <1>7, <2>2, <2>3, BecomesServed DEF Command
<1> QED BY <1>7, <1>10 DEF Command

LEMMA MoveKept ==
  ASSUME FramesAssumption, LInv, Straight, Vx \in Int, NEW x \in Int, Move(x)
  PROVE  /\ UNCHANGED queue /\ Expects(asked)
         /\ asked # {} /\ Served(fw, asked) => Served(fw', asked)
<1>1. Good(fw, Vx)
  BY DEF Straight
<1>2. PICK s : s = UpdateAbsolute(FrameSetup(fw, Rect(x, fw.frame.w), TRUE, FALSE))
  OBVIOUS
<1>3. Command(s)
  BY <1>2 DEF Move
<1>4. ASSUME Served(fw, asked) PROVE Served(fw', asked)
  <2>1. Served(s, asked)
    BY <1>1, <1>2, <1>4, MoveServed
  <2>2. s \in Window
    BY <1>1, <1>2, MoveGood DEF Good
  <2> QED BY <1>3, <2>1, <2>2, BecomesServed DEF Command
<1> QED BY <1>3, <1>4 DEF Command

LEMMA PageKept ==
  ASSUME FramesAssumption, LInv, Straight, Vx \in Int, NEW v \in Int, Page(v)
  PROVE  /\ UNCHANGED queue /\ Expects(asked)
         /\ asked # {} /\ Served(fw, asked) => Served(fw', asked)
<1>1. Good(fw, Vx)
  BY DEF Straight
<1>2. Vx - v \in Int
  OBVIOUS
<1>3. fw' = FrameSetup(fw, At(fw.frame, Vx - v), FALSE, FALSE)
  BY DEF Page
<1>4. ASSUME Served(fw, asked) PROVE Served(fw', asked)
  BY <1>1, <1>2, <1>3, <1>4, PageServed
<1> QED BY <1>4 DEF Page

\* An event that is appended
LEMMA AppendKept ==
  ASSUME LInv, FInv', NEW m \in Messages, queue' = Append(queue, m), fw' = fw,
         Expects(asked)
  PROVE  LInv'
<1>1. queue \in Seq(Messages)
  BY DEF LInv, FInv
<1>2. Naming(queue, "w") \subseteq Naming(queue', "w")
  <2>1. ASSUME NEW i \in DOMAIN queue
        PROVE  i \in DOMAIN queue' /\ queue'[i] = queue[i]
    BY <1>1, <2>1
  <2> QED BY <2>1 DEF Naming, Requests
<1> QED BY <1>2, AskedKept

\* The events behind the first one
LEMMA TailNames ==
  ASSUME NEW q \in Seq(Messages), q # <<>>,
         NEW r, r = Head(q), r.type = "request", Naming(Tail(q), "w") = {}
  PROVE  /\ r["w"] # {} => \A method : Awaited(q, method) = r["w"]
         /\ r["w"] = {} => Naming(q, "w") = {}
<1>1. Len(q) \in Nat /\ DOMAIN q = 1 .. Len(q) /\ 1 \in DOMAIN q /\ q[1] = r
  OBVIOUS
<1>2. ASSUME NEW i \in Naming(q, "w"), i # 1 PROVE FALSE
  <2>1. i \in 1 .. Len(q) /\ q[i].type = "request" /\ q[i]["w"] # {}
    BY <1>1, <1>2 DEF Naming, Requests
  <2>2. i - 1 \in DOMAIN Tail(q) /\ Tail(q)[i - 1] = q[i]
    BY <1>1, <1>2, <2>1
  <2>3. i - 1 \in Naming(Tail(q), "w")
    BY <2>1, <2>2 DEF Naming, Requests
  <2> QED BY <2>3
<1>3. 1 \in Naming(q, "w") <=> r["w"] # {}
  BY <1>1 DEF Naming, Requests
<1>4. ASSUME r["w"] # {}, NEW method PROVE Awaited(q, method) = r["w"]
  <2>1. Naming(q, "w") # {} /\ \A i \in Naming(q, "w") : i = 1
    BY <1>2, <1>3, <1>4
  <2>2. Naming(q, "w") \in SUBSET Nat /\ Naming(q, "w") \in SUBSET (1 .. Len(q))
    BY <1>1 DEF Naming, Requests
  <2>3. First(Naming(q, "w")) = 1 /\ Last(Naming(q, "w")) = 1
    BY <1>1, <2>1, <2>2, FirstIn, LastIn
  <2> QED BY <1>1, <2>1, <2>3 DEF Awaited, Foremost, Rearmost
<1> QED BY <1>2, <1>3, <1>4

\* The first request is answered.
LEMMA RequestKept ==
  ASSUME FramesAssumption, SomeSizeFits, LInv, FInv', Straight, Vx \in Int,
         HandleRequest, ~(fw.method # "auto" /\ Requests(Tail(queue)) # {})
  PROVE  LInv'
<1>1. /\ Good(fw, Vx) /\ fw \in Window /\ hints \in HintSets
      /\ queue \in Seq(Messages) /\ asked \in Maybe(Widths)
  BY DEF LInv, Straight, Good
<1>2. PICK r : r = Head(queue) /\ r \in Messages /\ r.type = "request" /\ queue # <<>>
  <2>1. queue # <<>> /\ Head(queue).type = "request"
    BY DEF HandleRequest
  <2>2. Head(queue) \in Messages
    BY <1>1, <2>1
  <2> QED BY <2>1, <2>2
<1>3. PICK f, x : f = Adopted(fw) /\ x = IF fw.shaded THEN {} ELSE r.x
  OBVIOUS
<1>4. PICK a \in Maybe(Widths) : a = IF fw.maximized THEN {} ELSE asked
  BY <1>1 DEF Maybe
<1>5. /\ queue' = Tail(queue) /\ Expects(a)
      /\ \E method \in Detected(f, x) :
           Becomes(Configured(fw, r.x, r.w, FALSE, f.hints.grav, method), FALSE)
  BY <1>2, <1>3, <1>4 DEF HandleRequest
<1>6. PICK method \in Detected(f, x) :
        Becomes(Configured(fw, r.x, r.w, FALSE, f.hints.grav, method), FALSE)
  BY <1>5
<1>7. method \in {"auto", "grav", "static"}
  <2>1. f \in Window
    BY <1>1, <1>3, AdoptedFacts
  <2>2. f.method \in {"auto", "grav", "static"}
    BY <2>1 DEF Window
  <2> QED BY <2>2 DEF Detected
<1>8. r.x \in Maybe(Places) /\ r.w \in Maybe(Widths)
  BY <1>2, MessageFields
<1>9. PICK no, grav : no = FALSE /\ grav = f.hints.grav
  OBVIOUS
<1>10. PICK s : s = Configured(fw, r.x, r.w, no, grav, method)
  OBVIOUS
<1>11. Becomes(s, no)
  BY <1>6, <1>9, <1>10
<1>12. ASSUME Awaited(queue', fw'.method) = {}, a # {} PROVE Served(fw', a)
  <2>1. a = asked /\ ~fw.maximized
    BY <1>4, <1>12
  <2>2. Naming(Tail(queue), "w") = {}
    <3>1. Tail(queue) \in Seq(Messages)
      BY <1>1, <1>2
    <3> QED BY <1>5, <1>12, <3>1, AwaitedFacts
  <2>3. r.w = a \/ (r.w = {} /\ Served(fw, a))
    <3>1. CASE r.w # {}
      <4>1. Awaited(queue, fw.method) = r.w
        BY <1>1, <1>2, <2>2, <3>1, TailNames
      <4> QED BY <2>1, <3>1, <4>1 DEF LInv
    <3>2. CASE r.w = {}
      <4>1. Naming(queue, "w") = {}
        BY <1>1, <1>2, <2>2, <3>2, TailNames
      <4>2. Awaited(queue, fw.method) = {}
        BY <1>1, <4>1, AwaitedFacts
      <4> QED BY <1>12, <2>1, <3>2, <4>2 DEF LInv
    <3> QED BY <3>1, <3>2
  <2>4. s \in Window /\ Served(s, a)
    BY <1>1, <1>7, <1>8, <1>10, <1>12, <2>1, <2>3, ConfiguredFacts DEF Good
  <2> QED BY <1>11, <2>4, BecomesServed
<1> QED BY <1>5, <1>12, ExpectsKeeps

\* Requests are merged.
LEMMA MergeKept ==
  ASSUME LInv, FInv', HandleRequest,
         fw.method # "auto", Requests(Tail(queue)) # {}
  PROVE  LInv'
<1>1. queue \in Seq(Messages) /\ queue # <<>>
  BY DEF LInv, FInv, HandleRequest
<1>2. PICK r \in Messages, q \in Seq(Messages) :
        r = Head(queue) /\ q = Tail(queue) /\ queue = <<r>> \o q
  BY <1>1, HeadAndTail
<1>3. queue' = Merged(r, q) /\ UNCHANGED <<fw, asked>>
  BY <1>2 DEF HandleRequest
<1>4. Foremost(queue', "w") = Foremost(queue, "w")
  BY <1>2, <1>3, MergedFacts
<1>5. Awaited(queue', fw'.method) = Awaited(queue, fw.method)
  BY <1>3, <1>4 DEF Awaited
<1> QED BY <1>3, <1>5 DEF LInv

LEMMA LInvStep ==
  ASSUME FramesAssumption, SomeSizeFits, LInv, FInv', Straight, Step
  PROVE  LInv'
<1>0. Pages \subseteq Nat /\ Places \subseteq Int
  BY DEF FramesAssumption
<1>1. Vx \in Int /\ queue \in Seq(Messages) /\ asked \in Maybe(Widths)
  <2>1. Vx \in Pages /\ queue \in Seq(Messages) /\ asked \in Maybe(Widths)
    BY DEF Straight, LInv
  <2> QED BY <1>0, <2>1
\* The frame changes, and the width that was asked for stays.
<1>2. ASSUME UNCHANGED queue, Expects(asked),
             asked # {} /\ Served(fw, asked) => Served(fw', asked)
      PROVE  LInv'
  BY <1>2, AskedKept
\* Somebody else decides on the width.
<1>3. ASSUME Expects({}) PROVE LInv'
  <2>1. {} \in Maybe(Widths)
    BY DEF Maybe
  <2> QED BY <1>3, <2>1, ExpectsKeeps
<1>4. CASE \E dir \in Maybe(ShadeDirs), again \in BOOLEAN : WindowShade(dir, again)
  BY <1>1, <1>2, <1>4, ShadeKept
<1>5. CASE \E x \in Places : Move(x)
  <2>1. PICK x \in Int : Move(x)
    BY <1>0, <1>5
  <2> QED BY <1>1, <1>2, <2>1, MoveKept
<1>6. CASE \E v \in Pages : Page(v)
  <2>1. PICK v \in Int : Page(v)
    BY <1>0, <1>6
  <2> QED BY <1>1, <1>2, <2>1, PageKept
<1>7. CASE \/ \E w \in Widths : Resize(w + Total(fw)) \/ ResizeMaximize(w + Total(fw))
           \/ \E x \in Places, w \in Widths :
                ResizeMove(x, w + Total(fw)) \/ Maximize(x, w + Total(fw))
           \/ \E b \in Borders, t \in {0, TitleThickness} : Redecorate(b, t)
           \/ \E shaped \in BOOLEAN : ReshapeBorder(shaped)
           \/ \E dir \in {"N", "W", "E"} : TitleDir(dir)
           \/ \E limit \in Limits : LimitSize(limit)
           \/ \E forget \in BOOLEAN : Unmaximize(forget)
           \/ \E x \in Maybe(Places), w \in Maybe(Widths), h \in HintSets :
                EwmhMoveResize(x, w, h.grav)
           \/ HandleHints
  <2>1. Expects({})
    BY <1>7, Zenon DEF Resize, ResizeMaximize, ResizeMove, Maximize, Redecorate,
         ReshapeBorder, TitleDir, LimitSize, Unmaximize, EwmhMoveResize,
         HandleHints, Override
  <2> QED BY <1>3, <2>1
<1>8. ASSUME NEW x \in Maybe(Places), NEW w \in Maybe(Widths), Configure(x, w)
      PROVE  LInv'
  <2>1. Request(x, w) \in Messages
    BY DEF Messages
  <2>2. queue' = Append(queue, Request(x, w)) /\ fw' = fw /\ Expects(asked)
    BY <1>8 DEF Configure
  <2> QED BY <2>1, <2>2, AppendKept
<1>9. ASSUME NEW h \in HintSets, ChangeHints(h) PROVE LInv'
  <2>1. Changed \in Messages
    BY DEF Messages
  <2>2. queue' = Append(queue, Changed) /\ fw' = fw /\ Expects(asked)
    BY <1>9 DEF ChangeHints
  <2> QED BY <2>1, <2>2, AppendKept
<1>10. CASE HandleRequest
  BY <1>1, <1>10, RequestKept, MergeKept
<1> QED BY <1>4, <1>5, <1>6, <1>7, <1>8, <1>9, <1>10 DEF Step

LEMMA LInvNext ==
  ASSUME FramesAssumption, SomeSizeFits, LInv, [Next]_vars
  PROVE  LInv'
<1>1. FInv /\ FInv'
  BY FInvNext DEF LInv
<1>2. CASE UNCHANGED vars
  BY <1>1, <1>2 DEF vars, LInv
<1>3. CASE Next
  <2>1. Straight /\ Step
    BY <1>1, <1>3 DEF FInv, Straight, Next
  <2> QED BY <1>1, <2>1, LInvStep
<1> QED BY <1>2, <1>3

---------------------------------------------------------------------------
LEMMA FInvTypes ==
  ASSUME FramesAssumption, FInv
  PROVE  TypeOK
<1>1. Sized(fw) /\ fw \in Window /\ Vx \in Pages
  BY DEF FInv, Sized
<1>2. ASSUME NEW g \in Rects, g.w > 0 PROVE g \in [x : Int, w : Nat \ {0}]
  BY <1>2 DEF Rects
<1>3. fw.frame \in Rects /\ fw.normal \in Rects /\ fw.max \in Rects
  BY <1>1 DEF Window
<1>4. {fw.frame, fw.normal, fw.max} \subseteq [x : Int, w : Nat \ {0}]
  BY <1>1, <1>2, <1>3 DEF Sized
<1>5. fw.client \in Nat \ {0} /\ fw.defect \in Int /\ fw.dir \in Dirs
  <2>1. fw.client \in Int /\ fw.defect \in Int /\ fw.dir \in Dirs
    BY <1>1 DEF Window
  <2> QED BY <1>1, <2>1 DEF Sized
<1> QED BY <1>1, <1>4, <1>5 DEF TypeOK, Dirs

LEMMA FInvHolds ==
  ASSUME FramesAssumption, SomeSizeFits
  PROVE  Spec => []FInv
<1>1. Init => FInv
  BY FInvInit
<1>2. FInv /\ [Next]_vars => FInv'
  BY FInvNext
<1> QED BY <1>1, <1>2, PTL DEF Spec

(* The frame, the client and the places of a window have at least a pixel: *)
(* constrain_size finds a size that the hints and the styles allow, however*)
(* a command or a request reaches it (frame.c, geometry.c).                *)
THEOREM TypeCorrect ==
  ASSUME FramesAssumption, SomeSizeFits
  PROVE  Spec => []TypeOK
<1>1. FInv => TypeOK
  BY FInvTypes
<1> QED BY <1>1, FInvHolds, PTL

(* Commands compute the frame of a shaded window from its place on the     *)
(* desk, and its place from the frame, each on its own; yet after every    *)
(* sequence of commands, requests of the client and changes of its hints   *)
(* the frame is where the place says (geometry.c:580), and a client that   *)
(* is shown fills its frame and was not told a place where it is not. That *)
(* ends only with the three steps that FramesKept names.                   *)
THEOREM FramesTrue ==
  ASSUME FramesAssumption, SomeSizeFits
  PROVE  Spec => []FramesKept
<1>1. FInv => FramesKept
  BY DEF FInv, Good, Agrees, Knows, FramesKept, FramesAgree, ClientKnows
<1> QED BY <1>1, FInvHolds, PTL

(* However many requests of the client wait, and whatever moves, shades or *)
(* pages the window meanwhile, merging them loses no width (events.c:1050),*)
(* and in the end the client has the width that they came to, as far as    *)
(* its hints and the styles allow: a shaded window keeps the width that it *)
(* will have, and a request that names no width keeps the one before.      *)
THEOREM RequestsAnswered ==
  ASSUME FramesAssumption, SomeSizeFits
  PROVE  Spec => []RequestsServed
<1>1. Init => LInv
  <2>1. Init => FInv
    BY FInvInit
  <2>2. Init => queue = <<>> /\ asked = {}
    BY DEF Init
  <2>3. queue = <<>> => Naming(queue, "w") = {}
    BY DEF Naming, Requests
  <2>4. Init => Awaited(queue, fw.method) = {}
    BY <2>2, <2>3 DEF Awaited, Foremost, Rearmost
  <2> QED BY <2>1, <2>2, <2>4 DEF LInv, Maybe
<1>2. LInv /\ [Next]_vars => LInv'
  BY LInvNext
<1>3. LInv => RequestsServed
  BY DEF LInv, Served, RequestsServed
<1> QED BY <1>1, <1>2, <1>3, PTL DEF Spec
===============================================================================
