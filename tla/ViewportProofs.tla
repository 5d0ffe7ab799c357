---------------------------- MODULE ViewportProofs ----------------------------
(***************************************************************************)
(* Proofs about Viewport: the types of its variables, and that only        *)
(* showing a window on another desk leaves it, on the desk, elsewhere than *)
(* it is on the screen.                                                    *)
(***************************************************************************)
EXTENDS Viewport, TLAPS

LastPage == (MaxPages - 1) * W

Window ==
  [frame : Int, normal : Int, max : Int, offset : Int, icon : Int,
   maximized : BOOLEAN, sticky : BOOLEAN, iconified : BOOLEAN,
   iconSticky : BOOLEAN, iconMoved : BOOLEAN, here : BOOLEAN]

MoveState == [on : BOOLEAN, opaque : BOOLEAN, vx : 0 .. LastPage, icon : Int]

Types ==
  /\ Vx \in 0 .. LastPage /\ VxMax \in 0 .. LastPage
  /\ fw \in Window /\ moving \in MoveState

\* The place of f on the desk is that on a screen at v.
Agree(f, v) == (IF f.maximized THEN f.max ELSE f.normal) = f.frame + v

\* An opaque move leaves the place on the desk behind, so that nothing is said
\* of a window in motion; and only such a move is opaque.
Placed == ~fw.iconified /\ ~moving.on => Agree(fw, Vx)

TInv == Types /\ (~moving.on => ~moving.opaque)

\* A step that keeps the types and leaves the window in its place
Keeps == TInv' /\ (Placed => Placed')

---------------------------------------------------------------------------
(* The arithmetic of pages                                                 *)

LEMMA Product == ASSUME NEW a \in Nat, NEW b \in Nat PROVE a * b \in Nat
  BY SMT

LEMMA ProductInt == ASSUME NEW a \in Int, NEW b \in Int PROVE a * b \in Int
  BY SMT

LEMMA Inputs ==
  ASSUME ViewportAssumption
  PROVE  /\ MaxPages \in Nat \ {0} /\ ScrollSteps \subseteq Int
         /\ \A arg \in PageArgs : arg.val \in Int /\ arg.suffix \in {"", "p", "w"}
  BY DEF ViewportAssumption

LEMMA Bounds ==
  ASSUME ViewportAssumption
  PROVE  W \in Nat \ {0} /\ LastPage \in Nat
<1>1. W \in Nat \ {0} /\ MaxPages \in Nat \ {0}
  BY DEF ViewportAssumption
<1> QED BY <1>1, Product, MaxPages - 1 \in Nat DEF LastPage

LEMMA PageOnDesk ==
  ASSUME ViewportAssumption, NEW p \in 1 .. MaxPages
  PROVE  p * W - W \in 0 .. LastPage
<1>1. W \in Nat \ {0} /\ MaxPages \in Nat \ {0} /\ LastPage \in Nat
  BY Bounds DEF ViewportAssumption
<1>2. p - 1 \in Nat /\ MaxPages - p \in Nat
  BY <1>1
<1>3. (p - 1) * W \in Nat /\ (MaxPages - p) * W \in Nat
  BY <1>1, <1>2, Product
<1>4. p * W - W = (p - 1) * W
  BY <1>1
<1>5. (MaxPages - 1) * W = (p - 1) * W + (MaxPages - p) * W
  BY <1>1
<1> QED BY <1>1, <1>3, <1>4, <1>5 DEF LastPage

LEMMA QuotientInt ==
  ASSUME NEW a \in Int, NEW b \in Int, b > 0
  PROVE  Quotient(a, b) \in Int
  BY DEF Quotient

LEMMA RemainderInt ==
  ASSUME NEW a \in Int, NEW b \in Int, b > 0
  PROVE  Remainder(a, b) \in Int
<1>1. PICK q \in Int : q = Quotient(a, b)
  BY QuotientInt
<1> QED BY <1>1 DEF Remainder

LEMMA MultipleInt ==
  ASSUME ViewportAssumption, NEW x \in Int
  PROVE  Multiple(x) \in Int
<1>1. PICK q \in Int : q = x \div W
  BY Bounds
<1> QED BY <1>1, Bounds DEF Multiple

LEMMA MovedIntoInt ==
  ASSUME ViewportAssumption, NEW x \in Int, NEW p \in Int
  PROVE  MovedInto(x, p) \in Int
<1>1. PICK r \in Int : r = Remainder(x, W)
  BY Bounds, RemainderInt
<1> QED BY <1>1, Bounds DEF MovedInto

LEMMA WrappedInt ==
  ASSUME ViewportAssumption, Types, NEW x \in Int
  PROVE  Wrapped(x) \in Int
<1> DEFINE period == VxMax + W
           up == IF x < 0 THEN x + period * ((-x + period - 1) \div period) ELSE x
<1>1. period \in Int /\ period > 0 /\ VxMax \in Int
  BY Bounds DEF Types
<1>2. up \in Int
  <2>1. PICK q \in Int : q = (-x + period - 1) \div period
    BY <1>1
  <2> HIDE DEF period
  <2> QED BY <1>1, <2>1
<1>3. PICK r \in Int : r = (up - VxMax + period - 1) \div period
  <2> HIDE DEF period, up
  <2> QED BY <1>1, <1>2
<1>4. (IF up > VxMax THEN up - period * r ELSE up) \in Int
  <2> HIDE DEF period, up
  <2> QED BY <1>1, <1>2, <1>3
<1> QED BY <1>3, <1>4 DEF Wrapped

LEMMA PageOfInt ==
  ASSUME ViewportAssumption, Types, NEW arg \in PageArgs, NEW own \in Int
  PROVE  PageOf(arg, own) \in Int
<1> DEFINE x == CASE arg.suffix = "p" -> arg.val * W + Vx
                  [] arg.suffix = "w" -> arg.val * W + own
                  [] OTHER -> IF arg.val >= 0 THEN arg.val * W
                              ELSE (arg.val + 1) * W + VxMax
<1>1. PICK val \in Int : val = arg.val
  BY Inputs
<1>2. Vx \in Int /\ VxMax \in Int /\ W \in Int
  BY Bounds DEF Types
<1>3. x \in Int
  <2>1. PICK a \in Int : a = val * W
    BY <1>2, ProductInt
  <2>2. PICK b \in Int : b = (val + 1) * W
    BY <1>2, ProductInt, val + 1 \in Int
  <2>3. CASE arg.suffix = "p"
    <3>1. x = a + Vx
      BY <1>1, <2>1, <2>3
    <3> QED BY <1>2, <3>1
  <2>4. CASE arg.suffix = "w"
    <3>1. x = a + own
      BY <1>1, <2>1, <2>4
    <3> QED BY <3>1
  <2>5. CASE arg.suffix = ""
    <3>1. x = IF val >= 0 THEN a ELSE b + VxMax
      BY <1>1, <2>1, <2>2, <2>5
    <3> QED BY <1>2, <3>1
  <2> QED BY <2>3, <2>4, <2>5, Inputs
<1> HIDE DEF x
<1>4. Wrapped(x) \in Int
  BY <1>3, WrappedInt
<1>5. PageOf(arg, own) = IF ~arg.limit THEN x
      ELSE IF arg.wrap THEN Wrapped(x)
      ELSE IF x < 0 THEN 0 ELSE IF x > VxMax THEN VxMax ELSE x
  BY DEF PageOf, x
<1> QED BY <1>2, <1>3, <1>4, <1>5

---------------------------------------------------------------------------
(* Windows                                                                 *)

LEMMA AbsoluteType ==
  ASSUME NEW f \in Window, NEW v \in Int
  PROVE  UpdateAbsolute(f, v) \in Window /\ Agree(UpdateAbsolute(f, v), v)
  BY DEF Window, UpdateAbsolute, Agree

LEMMA OffsetType ==
  ASSUME ViewportAssumption, NEW f \in Window, NEW v \in Int
  PROVE  AdjustOffset(f) \in Window /\ (Agree(f, v) => Agree(AdjustOffset(f), v))
<1> DEFINE off == f.normal - f.max - f.offset
<1>1. W \in Int /\ W > 0 /\ off \in Int
  BY Bounds DEF Window
<1>2. PICK q \in Int : q = Quotient(off, W)
  <2> HIDE DEF off
  <2> QED BY <1>1, QuotientInt
<1>3. AdjustOffset(f) =
      IF f.maximized THEN [f EXCEPT !.normal = @ - W * q] ELSE f
  BY <1>2 DEF AdjustOffset
<1>4. f.normal - W * q \in Int
  BY <1>1, <1>2 DEF Window
<1> QED BY <1>3, <1>4 DEF Window, Agree

LEMMA MovedFrameType ==
  ASSUME ViewportAssumption, Types, NEW f \in Window, NEW x \in Int
  PROVE  MovedFrame(f, x) \in Window /\ Agree(MovedFrame(f, x), Vx)
<1>1. [f EXCEPT !.frame = x] \in Window /\ Vx \in Int
  BY DEF Window, Types
<1>2. PICK g \in Window : g = UpdateAbsolute([f EXCEPT !.frame = x], Vx)
  BY <1>1, AbsoluteType
<1>3. Agree(g, Vx)
  BY <1>1, <1>2, AbsoluteType
<1> QED BY <1>1, <1>2, <1>3, OffsetType DEF MovedFrame

LEMMA MovedToType ==
  ASSUME ViewportAssumption, Types, NEW x \in Int
  PROVE  /\ MovedTo(x) \in Window
         /\ MovedTo(x).iconified = fw.iconified
         /\ ~fw.iconified => Agree(MovedTo(x), Vx)
<1>1. CASE fw.iconified
  BY <1>1 DEF MovedTo, Types, Window
<1>2. CASE ~fw.iconified
  <2>1. MovedTo(x) = MovedFrame(fw, x) /\ fw \in Window
    BY <1>2 DEF MovedTo, Types
  <2>2. MovedFrame(fw, x).iconified = fw.iconified
    BY <2>1 DEF MovedFrame, AdjustOffset, UpdateAbsolute, Window
  <2> QED BY <1>2, <2>1, <2>2, MovedFrameType
<1> QED BY <1>1, <1>2

LEMMA PlaceIconType ==
  ASSUME ViewportAssumption, Types, NEW f \in Window, NEW v \in Int,
         NEW box \in 0 .. W - 1
  PROVE  /\ AutoPlaceIcon(f, v, box) \in Window
         /\ AutoPlaceIcon(f, v, box).iconified = f.iconified
<1> DEFINE r == Remainder(f.frame, W)
           q == Quotient(f.frame + v, W)
           i == Remainder(f.icon, W)
           sticks == f.sticky \/ f.iconSticky
           page == W * q
           desk == IF page > VxMax THEN VxMax ELSE IF page < 0 THEN 0 ELSE page
           base == IF sticks \/ (f.here /\ OnPage(f.frame)) THEN 0 ELSE desk - v
           old == i + base
           t == IF sticks THEN [f EXCEPT !.frame = IF r + 1 <= 0 THEN r + W ELSE r]
                ELSE f
           icon == IF ~f.iconMoved THEN base + box
                   ELSE IF old < 0 THEN old + W ELSE old
<1>1. /\ W \in Int /\ W > 0 /\ VxMax \in Int /\ f.frame \in Int /\ f.icon \in Int
      /\ f.frame + v \in Int /\ box \in Int
  BY Bounds DEF Window, Types
<1>2. r \in Int /\ q \in Int /\ i \in Int
  BY <1>1, QuotientInt, RemainderInt
<1>3. desk \in Int
  <2> HIDE DEF q
  <2> QED BY <1>1, <1>2
<1>4. base \in Int
  <2> HIDE DEF desk, sticks
  <2> QED BY <1>3
<1>5. icon \in Int
  <2> HIDE DEF base, i
  <2> QED BY <1>1, <1>2, <1>4
<1>6. t \in Window /\ t.iconified = f.iconified
  <2>1. (IF r + 1 <= 0 THEN r + W ELSE r) \in Int
    <3> HIDE DEF r
    <3> QED BY <1>1, <1>2
  <2> HIDE DEF r
  <2> QED BY <2>1 DEF Window
<1>7. AutoPlaceIcon(f, v, box) = [t EXCEPT !.icon = icon]
  BY DEF AutoPlaceIcon
<1> HIDE DEF t, icon
<1> QED BY <1>5, <1>6, <1>7 DEF Window

---------------------------------------------------------------------------
(* What the actions set the window to                                      *)

LEMMA BecomesPlaced ==
  ASSUME ViewportAssumption, Types, NEW f \in Window, Becomes(f),
         moving' \in MoveState, ~moving'.on => ~moving'.opaque,
         Placed /\ ~f.iconified /\ ~moving'.on => Agree(f, Vx)
  PROVE  Keeps
<1> DEFINE g == [f EXCEPT !.max = IF f.maximized THEN @ ELSE 0,
                          !.offset = IF f.maximized THEN @ ELSE 0,
                          !.icon = IF f.iconified \/ f.iconMoved THEN @ ELSE 0]
<1>1. fw' = g /\ Vx' = Vx /\ VxMax' = VxMax
  BY DEF Becomes
<1>2. g \in Window
  <2>1. PICK m \in Int : m = IF f.maximized THEN f.max ELSE 0
    BY DEF Window
  <2>2. PICK o \in Int : o = IF f.maximized THEN f.offset ELSE 0
    BY DEF Window
  <2>3. PICK i \in Int : i = IF f.iconified \/ f.iconMoved THEN f.icon ELSE 0
    BY DEF Window
  <2>4. g = [f EXCEPT !.max = m, !.offset = o, !.icon = i]
    BY <2>1, <2>2, <2>3
  <2> HIDE DEF g
  <2> QED BY <2>4 DEF Window
<1>3. g.iconified = f.iconified /\ (Agree(f, Vx) => Agree(g, Vx))
  BY DEF Window, Agree
<1> HIDE DEF g
<1> QED BY <1>1, <1>2, <1>3 DEF Keeps, TInv, Types, Placed

\* Paging moves the frame over the desk, or the place on the desk with the
\* screen: either way they agree, unless an opaque move holds the frame.
LEMMA PagedType ==
  ASSUME NEW f \in Window, NEW v \in Int, NEW u \in Int, NEW opaque \in BOOLEAN
  PROVE  /\ Paged(f, v - u, opaque) \in Window
         /\ Paged(f, v - u, opaque).iconified = f.iconified
         /\ Agree(f, v) /\ ~f.iconified /\ ~opaque => Agree(Paged(f, v - u, opaque), u)
<1>1. PICK d \in Int : d = v - u
  OBVIOUS
<1>2. CASE Sticky(f)
  <2>1. PICK m \in Int : m = IF f.maximized THEN f.max - d ELSE 0
    BY DEF Window
  <2>2. Paged(f, d, opaque) = [f EXCEPT !.normal = @ - d, !.max = m]
    BY <1>2, <2>1 DEF Paged
  <2>3. PICK g : g = [f EXCEPT !.normal = @ - d, !.max = m]
    OBVIOUS
  <2>4. g \in Window /\ g.iconified = f.iconified
    <3>1. PICK n \in Int : n = f.normal - d
      BY DEF Window
    <3>2. g = [f EXCEPT !.normal = n, !.max = m]
      BY <2>3, <3>1
    <3> QED BY <3>2 DEF Window
  <2>5. /\ g.frame = f.frame /\ g.normal = f.normal - d /\ g.max = m
        /\ g.maximized = f.maximized
    BY <2>3 DEF Window
  <2>6. {f.frame, f.normal, f.max} \subseteq Int
    BY DEF Window
  <2>7. Agree(f, v) => Agree(g, u)
    BY <1>1, <2>1, <2>5, <2>6 DEF Agree
  <2> QED BY <1>1, <2>2, <2>3, <2>4, <2>7
<1>3. CASE ~Sticky(f) /\ ~opaque
  <2>1. PICK i \in Int : i = IF f.iconified THEN f.icon + d ELSE f.icon
    BY DEF Window
  <2>2. Paged(f, d, opaque) = [f EXCEPT !.frame = @ + d, !.icon = i]
    BY <1>3, <2>1 DEF Paged
  <2>3. PICK g : g = [f EXCEPT !.frame = @ + d, !.icon = i]
    OBVIOUS
  <2>4. g \in Window /\ g.iconified = f.iconified
    <3>1. PICK n \in Int : n = f.frame + d
      BY DEF Window
    <3>2. g = [f EXCEPT !.frame = n, !.icon = i]
      BY <2>3, <3>1
    <3> QED BY <2>1, <3>2 DEF Window
  <2>5. /\ g.frame = f.frame + d /\ g.normal = f.normal /\ g.max = f.max
        /\ g.maximized = f.maximized
    BY <2>3 DEF Window
  <2>6. {f.frame, f.normal, f.max} \subseteq Int
    BY DEF Window
  <2>7. Agree(f, v) => Agree(g, u)
    BY <1>1, <2>5, <2>6 DEF Agree
  <2> QED BY <1>1, <2>2, <2>3, <2>4, <2>7
<1>4. CASE ~Sticky(f) /\ opaque
  BY <1>4 DEF Paged
<1> QED BY <1>2, <1>3, <1>4

LEMMA ViewportMoved ==
  ASSUME ViewportAssumption, TInv, NEW x \in Int, NEW here \in BOOLEAN,
         MoveViewportAndDesk(x, here), UNCHANGED moving
  PROVE  Keeps
<1>1. /\ Vx \in 0 .. LastPage /\ VxMax \in 0 .. LastPage /\ LastPage \in Nat
      /\ fw \in Window /\ moving \in MoveState
  BY Bounds DEF TInv, Types
<1>2. PICK v \in 0 .. LastPage :
        v = LET y == IF x > VxMax THEN VxMax ELSE x IN IF y < 0 THEN 0 ELSE y
  BY <1>1
<1>3. PICK f : f = Paged(fw, Vx - v, moving.opaque)
  OBVIOUS
<1>4. /\ f \in Window /\ f.iconified = fw.iconified
      /\ Agree(fw, Vx) /\ ~fw.iconified /\ ~moving.opaque => Agree(f, v)
  <2>1. PICK u \in Int, opaque \in BOOLEAN : u = Vx /\ opaque = moving.opaque
    BY <1>1 DEF MoveState
  <2>2. v \in Int /\ f = Paged(fw, u - v, opaque)
    BY <1>1, <1>3, <2>1
  <2>3. /\ f \in Window /\ f.iconified = fw.iconified
        /\ Agree(fw, u) /\ ~fw.iconified /\ ~opaque => Agree(f, v)
    BY <1>1, <2>2, PagedType
  <2> QED BY <2>1, <2>3
<1>5. /\ Vx' = v /\ VxMax' = VxMax /\ moving' = moving
      /\ \E box \in 0 .. W - 1 :
           fw' = [IF v = Vx THEN fw
                  ELSE IF Sticky(f) /\ f.iconified /\ ~f.iconMoved
                    THEN AutoPlaceIcon(f, v, box)
                  ELSE f EXCEPT !.here = here]
  BY <1>2, <1>3 DEF MoveViewportAndDesk
<1>6. PICK box \in 0 .. W - 1 :
        fw' = [(IF v = Vx THEN fw
                ELSE IF Sticky(f) /\ f.iconified /\ ~f.iconMoved
                  THEN AutoPlaceIcon(f, v, box)
                ELSE f) EXCEPT !.here = here]
  BY <1>5
<1>10. PICK g : /\ g = IF v = Vx THEN fw
                       ELSE IF Sticky(f) /\ f.iconified /\ ~f.iconMoved
                         THEN AutoPlaceIcon(f, v, box)
                       ELSE f
                /\ fw' = [g EXCEPT !.here = here]
  BY <1>6
<1>7. AutoPlaceIcon(f, v, box) \in Window /\ AutoPlaceIcon(f, v, box).iconified = f.iconified
  BY <1>1, <1>4, PlaceIconType DEF TInv
<1>8. /\ g \in Window /\ g.iconified = fw.iconified
      /\ Placed /\ ~fw.iconified /\ ~moving.on => Agree(g, v)
  BY <1>1, <1>4, <1>7, <1>10 DEF TInv, Placed
<1>9. /\ fw' \in Window /\ fw'.iconified = g.iconified
      /\ Agree(g, v) => Agree(fw', v)
  BY <1>8, <1>10 DEF Window, Agree
<1> QED BY <1>1, <1>5, <1>8, <1>9 DEF Keeps, TInv, Types, Placed

LEMMA ViewportStays ==
  ASSUME ViewportAssumption, TInv, NEW x \in Int, MoveViewport(x),
         UNCHANGED moving
  PROVE  Keeps
<1>1. fw.here \in BOOLEAN
  BY DEF TInv, Types, Window
<1> QED BY <1>1, ViewportMoved DEF MoveViewport

---------------------------------------------------------------------------
(* The invariant                                                           *)

LEMMA InitPlaced ==
  ASSUME ViewportAssumption, Init
  PROVE  TInv
<1>1. LastPage \in Nat /\ W \in Nat
  BY Bounds
<1>2. Vx = 0 /\ VxMax = LastPage /\ moving = NotMoving /\ fw \in NewWindows
  BY DEF Init, LastPage
<1>3. fw \in Window
  <2>1. PICK x \in 0 .. W - 1, sticky \in BOOLEAN, iconSticky \in BOOLEAN,
             here \in BOOLEAN :
          fw = [frame |-> x, normal |-> x, max |-> 0, offset |-> 0, icon |-> 0,
                maximized |-> FALSE, sticky |-> sticky, iconified |-> FALSE,
                iconSticky |-> iconSticky, iconMoved |-> FALSE, here |-> here]
    BY <1>2 DEF NewWindows
  <2> QED BY <1>1, <2>1 DEF Window
<1>4. NotMoving \in MoveState /\ ~NotMoving.opaque
  BY <1>1 DEF NotMoving, MoveState
<1> QED BY <1>1, <1>2, <1>3, <1>4 DEF TInv, Types

LEMMA PagesInt ==
  ASSUME ViewportAssumption, NEW x \in Pages
  PROVE  x \in Int
<1>1. PICK p \in 0 .. MaxPages - 1 : x = p * W
  BY DEF Pages
<1>2. MaxPages \in Nat
  BY Inputs
<1>3. p \in Nat /\ W \in Nat
  BY <1>1, <1>2, Bounds
<1> QED BY <1>1, <1>3, Product

LEMMA ScrollPlaced ==
  ASSUME ViewportAssumption, TInv, NEW d \in ScrollSteps, NEW pages \in BOOLEAN,
         Scroll(d, pages)
  PROVE  Keeps
<1>1. Vx \in Int /\ VxMax \in Nat /\ d \in Int /\ W \in Nat \ {0}
  <2>1. d \in Int
    BY Inputs
  <2> QED BY <2>1, Bounds DEF TInv, Types
<1>2. PICK x \in Int : x = Vx + d
  BY <1>1
<1>3. (VxMax \div W + 1) * W \in Int /\ (VxMax \div W + 1) * W > 0
  <2>1. PICK q \in Nat : q = VxMax \div W
    BY <1>1
  <2>2. q * W \in Nat
    BY <1>1, <2>1, Product
  <2>3. (q + 1) * W = q * W + W
    BY <1>1, <2>1
  <2> QED BY <1>1, <2>1, <2>2, <2>3
<1>4. PICK r \in Int : r = Remainder(x, (VxMax \div W + 1) * W)
  BY <1>2, <1>3, RemainderInt
<1>5. PICK y \in Int : y = IF pages /\ x > VxMax THEN r
                          ELSE IF pages /\ x < 0 THEN VxMax ELSE x
  BY <1>1, <1>2, <1>4
<1>6. MoveViewport(y) /\ UNCHANGED moving
  BY <1>2, <1>4, <1>5 DEF Scroll, Idle
<1> QED BY <1>6, ViewportStays

LEMMA EdgePlaced ==
  ASSUME ViewportAssumption, TInv, NEW step \in ScrollSteps, EdgePage(step)
  PROVE  Keeps
<1>1. Vx \in Int /\ VxMax \in Int /\ step \in Int /\ W \in Int
  <2>1. step \in Int
    BY Inputs
  <2> QED BY <2>1, Bounds DEF TInv, Types
<1> DEFINE x == Vx + step
           d == CASE x < 0 -> IF EdgeWrap THEN step + (VxMax + W) ELSE -Vx
                  [] x > VxMax -> IF EdgeWrap THEN step - (VxMax + W) ELSE VxMax - Vx
                  [] OTHER -> step
<1>2. d \in Int
  <2>1. CASE x < 0
    <3>1. ~(x > VxMax)
      BY <1>1, <2>1 DEF TInv, Types
    <3>2. d = IF EdgeWrap THEN step + (VxMax + W) ELSE -Vx
      BY <2>1, <3>1
    <3> QED BY <1>1, <3>2
  <2>2. CASE ~(x < 0) /\ x > VxMax
    <3>1. d = IF EdgeWrap THEN step - (VxMax + W) ELSE VxMax - Vx
      BY <2>2
    <3> QED BY <1>1, <3>1
  <2>3. CASE ~(x < 0) /\ ~(x > VxMax)
    BY <1>1, <2>3
  <2> QED BY <2>1, <2>2, <2>3
<1>3. MoveViewport(Vx + d) /\ UNCHANGED moving
  BY DEF EdgePage
<1> HIDE DEF d
<1> QED BY <1>1, <1>2, <1>3, ViewportStays

LEMMA MovePlaced ==
  ASSUME ViewportAssumption, TInv, NEW x \in Int, NEW moved \in BOOLEAN,
         ~moving'.on, moving' \in MoveState, ~moving'.opaque,
         Becomes([MovedTo(x) EXCEPT !.iconMoved = @ \/ moved])
  PROVE  Keeps
<1>1. PICK f \in Window : f = MovedTo(x)
  BY MovedToType DEF TInv
<1>2. ~f.iconified => Agree(f, Vx)
  BY <1>1, MovedToType DEF TInv
<1>3. [f EXCEPT !.iconMoved = @ \/ moved] \in Window
  BY DEF Window
<1>4. ~f.iconified => Agree([f EXCEPT !.iconMoved = @ \/ moved], Vx)
  BY <1>2 DEF Agree, Window
<1>5. [f EXCEPT !.iconMoved = @ \/ moved].iconified = f.iconified
  BY DEF Window
<1> QED BY <1>1, <1>3, <1>4, <1>5, BecomesPlaced DEF TInv

LEMMA MovePlain ==
  ASSUME ViewportAssumption, TInv, NEW x \in Int,
         ~moving'.on, moving' \in MoveState, ~moving'.opaque,
         Becomes(MovedTo(x))
  PROVE  Keeps
<1>1. MovedTo(x) \in Window /\ (~MovedTo(x).iconified => Agree(MovedTo(x), Vx))
  BY MovedToType DEF TInv
<1> QED BY <1>1, BecomesPlaced DEF TInv

LEMMA IdleMoving ==
  ASSUME TInv, Idle
  PROVE  ~moving'.on /\ moving' \in MoveState /\ ~moving'.opaque /\ ~moving.on
  BY DEF Idle, TInv, Types

LEMMA StoppedMoving ==
  ASSUME ViewportAssumption
  PROVE  NotMoving \in MoveState /\ ~NotMoving.on /\ ~NotMoving.opaque
  BY Bounds DEF NotMoving, MoveState

LEMMA MoveToPagePlaced ==
  ASSUME ViewportAssumption, TInv, NEW arg \in PageArgs, MoveToPage(arg)
  PROVE  Keeps
<1>1. Vx \in Int /\ fw.icon \in Int /\ fw.frame \in Int /\ W \in Int /\ W > 0
  BY Bounds DEF TInv, Types, Window
<1>2. PICK x \in Int : x = IF fw.iconified THEN fw.icon ELSE fw.frame
  BY <1>1
<1>3. PICK off \in Int : off = Vx % W
  BY <1>1
<1>4. x + Vx + off \in Int
  BY <1>1
<1>5. PICK own \in Int : own = Multiple(x + Vx + off) - off
  BY <1>4, MultipleInt
<1>6. PICK p \in Int : p = PageOf(arg, own)
  BY PageOfInt DEF TInv
<1>7. p - Vx \in Int
  BY <1>1
<1>8. PICK to \in Int : to = MovedInto(x, p - Vx)
  BY <1>7, MovedIntoInt
<1>9. Idle /\ Becomes(MovedTo(to))
  BY <1>2, <1>3, <1>5, <1>6, <1>8 DEF MoveToPage
<1> QED BY <1>9, IdleMoving, MovePlain

LEMMA StickPlaced ==
  ASSUME ViewportAssumption, TInv, StickAcrossPages
  PROVE  Keeps
<1>1. fw.icon \in Int /\ fw.frame \in Int /\ fw \in Window
  BY DEF TInv, Types, Window
<1>2. PICK x \in Int : x = IF fw.iconified THEN fw.icon ELSE fw.frame
  BY <1>1
<1>3. PICK to \in Int : to = MovedInto(x, 0)
  BY MovedIntoInt
<1>4. Idle /\ ~moving.on
  BY DEF StickAcrossPages, Idle
<1>5. PICK here : here = IF OnPage(fw.frame) THEN fw ELSE MovedTo(to)
  OBVIOUS
<1>6. here \in Window /\ (Placed /\ ~here.iconified => Agree(here, Vx))
  BY <1>1, <1>4, <1>5, MovedToType DEF TInv, Placed
<1>7. CASE fw.sticky
  <2>1. Becomes([fw EXCEPT !.sticky = FALSE])
    BY <1>7 DEF StickAcrossPages
  <2>2. /\ [fw EXCEPT !.sticky = FALSE] \in Window
        /\ [fw EXCEPT !.sticky = FALSE].iconified = fw.iconified
        /\ Agree(fw, Vx) => Agree([fw EXCEPT !.sticky = FALSE], Vx)
    BY <1>1 DEF Window, Agree
  <2> QED BY <1>4, <2>1, <2>2, IdleMoving, BecomesPlaced DEF TInv, Placed
<1>8. CASE ~fw.sticky
  <2>1. Becomes([here EXCEPT !.sticky = TRUE])
    BY <1>2, <1>3, <1>5, <1>8 DEF StickAcrossPages
  <2>2. /\ [here EXCEPT !.sticky = TRUE] \in Window
        /\ [here EXCEPT !.sticky = TRUE].iconified = here.iconified
        /\ Agree(here, Vx) => Agree([here EXCEPT !.sticky = TRUE], Vx)
    BY <1>6 DEF Window, Agree
  <2> QED BY <1>4, <1>6, <2>1, <2>2, IdleMoving, BecomesPlaced DEF TInv
<1> QED BY <1>7, <1>8

LEMMA MaximizePlaced ==
  ASSUME ViewportAssumption, TInv, NEW x \in Int, Maximize(x)
  PROVE  Keeps
<1>1. fw \in Window /\ Vx \in Int
  BY DEF TInv, Types
<1>2. PICK g \in Window : g = [fw EXCEPT !.maximized = TRUE, !.frame = x]
  BY <1>1 DEF Window
<1>3. PICK f \in Window : f = UpdateAbsolute(g, Vx)
  BY <1>1, AbsoluteType
<1>4. Agree(f, Vx)
  BY <1>1, <1>3, AbsoluteType
<1>5. PICK o \in Int : o = f.normal - f.max
  BY DEF Window
<1>6. Becomes([f EXCEPT !.offset = o]) /\ Idle
  BY <1>2, <1>3, <1>5 DEF Maximize
<1>7. /\ [f EXCEPT !.offset = o] \in Window
      /\ Agree([f EXCEPT !.offset = o], Vx)
  BY <1>4 DEF Window, Agree
<1> QED BY <1>6, <1>7, IdleMoving, BecomesPlaced DEF TInv

LEMMA UnmaximizePlaced ==
  ASSUME ViewportAssumption, TInv, NEW forget \in BOOLEAN, Unmaximize(forget)
  PROVE  Keeps
<1>1. fw \in Window /\ Vx \in Int
  BY DEF TInv, Types
<1>2. PICK n \in Int : n = IF forget THEN fw.max ELSE fw.normal
  BY <1>1 DEF Window
<1>3. PICK d \in Int : d = n - Vx
  BY <1>1
<1>4. PICK f : f = [fw EXCEPT !.maximized = FALSE, !.normal = n, !.frame = d]
  OBVIOUS
<1>5. Becomes(f) /\ Idle
  BY <1>2, <1>3, <1>4 DEF Unmaximize
<1>6. f \in Window /\ ~f.maximized /\ f.normal = n /\ f.frame = d
  BY <1>1, <1>4 DEF Window
<1>7. Agree(f, Vx)
  BY <1>1, <1>3, <1>6 DEF Agree
<1> QED BY <1>5, <1>6, <1>7, IdleMoving, BecomesPlaced DEF TInv

LEMMA RedecoratePlaced ==
  ASSUME ViewportAssumption, TInv, Redecorate
  PROVE  Keeps
<1>1. fw \in Window /\ Vx \in Int
  BY DEF TInv, Types
<1>2. PICK n \in Int : n = IF fw.maximized THEN fw.max ELSE fw.normal
  BY <1>1 DEF Window
<1>3. PICK d \in Int : d = n - Vx
  BY <1>1
<1>4. PICK f : f = [fw EXCEPT !.frame = d]
  OBVIOUS
<1>5. Becomes(f) /\ Idle
  BY <1>2, <1>3, <1>4 DEF Redecorate
<1>6. /\ f \in Window /\ f.maximized = fw.maximized /\ f.normal = fw.normal
      /\ f.max = fw.max /\ f.frame = d
  BY <1>1, <1>4 DEF Window
<1>7. Agree(f, Vx)
  BY <1>1, <1>2, <1>3, <1>6 DEF Agree
<1> QED BY <1>5, <1>6, <1>7, IdleMoving, BecomesPlaced DEF TInv

LEMMA IconifyPlaced ==
  ASSUME ViewportAssumption, TInv, NEW box \in 0 .. W - 1,
         NEW comes \in BOOLEAN, Iconify(box, comes)
  PROVE  Keeps
<1>1. [fw EXCEPT !.here = @ \/ comes] \in Window /\ Vx \in Int
  BY DEF TInv, Types, Window
<1>2. PICK f \in Window : f = AutoPlaceIcon([fw EXCEPT !.here = @ \/ comes], Vx, box)
  BY <1>1, PlaceIconType DEF TInv
<1>3. Becomes([f EXCEPT !.iconified = TRUE]) /\ Idle
  BY <1>2 DEF Iconify
<1>4. [f EXCEPT !.iconified = TRUE] \in Window /\ [f EXCEPT !.iconified = TRUE].iconified
  BY DEF Window
<1> QED BY <1>3, <1>4, IdleMoving, BecomesPlaced DEF TInv

LEMMA DeskPlaced ==
  ASSUME ViewportAssumption, TInv, GotoDesk
  PROVE  Keeps
<1>1. /\ fw' = [fw EXCEPT !.here = ~@] /\ UNCHANGED <<Vx, VxMax, moving>>
      /\ fw \in Window
  BY DEF GotoDesk, Idle, TInv, Types
<1>2. fw' \in Window /\ fw'.iconified = fw.iconified /\ (Agree(fw, Vx) => Agree(fw', Vx))
  BY <1>1 DEF Window, Agree
<1> QED BY <1>1, <1>2 DEF Keeps, TInv, Types, Placed

LEMMA MoveToDeskPlaced ==
  ASSUME ViewportAssumption, TInv, NEW box \in 0 .. W - 1, MoveToDesk(box)
  PROVE  Keeps
<1>1. fw \in Window /\ Vx \in Int /\ Idle
  BY DEF TInv, Types, MoveToDesk
<1>2. PICK t \in Window :
        /\ t = [fw EXCEPT !.here = ~@] /\ t.iconified = fw.iconified
        /\ Agree(fw, Vx) => Agree(t, Vx)
  <2>1. PICK b \in BOOLEAN : b = ~fw.here
    OBVIOUS
  <2>2. PICK u : u = [fw EXCEPT !.here = b]
    OBVIOUS
  <2>3. u = [fw EXCEPT !.here = ~@]
    BY <2>1, <2>2
  <2>4. /\ u \in Window /\ u.iconified = fw.iconified
        /\ Agree(fw, Vx) => Agree(u, Vx)
    BY <1>1, <2>2 DEF Window, Agree
  <2> QED BY <2>3, <2>4
<1>3. CASE t.here /\ fw.iconified
  <2>1. PICK f \in Window : f = AutoPlaceIcon(t, Vx, box) /\ f.iconified
    BY <1>1, <1>2, <1>3, PlaceIconType DEF TInv
  <2>2. Becomes(f)
    BY <1>2, <1>3, <2>1 DEF MoveToDesk
  <2> QED BY <1>1, <2>1, <2>2, IdleMoving, BecomesPlaced DEF TInv
<1>4. CASE ~(t.here /\ fw.iconified)
  <2>1. Becomes(t)
    BY <1>2, <1>4 DEF MoveToDesk
  <2> QED BY <1>1, <1>2, <2>1, IdleMoving, BecomesPlaced DEF TInv, Placed
<1> QED BY <1>3, <1>4

\* Whatever has become of the place on the desk while the window was an icon, it
\* is set when the window is shown, on the current desk.
LEMMA DeIconifyPlaced ==
  ASSUME ViewportAssumption, TInv, DeIconify
  PROVE  TInv' /\ (Placed /\ ~ShownElsewhere => Placed')
<1>1. fw \in Window /\ Vx \in Int /\ fw.frame \in Int
  BY DEF TInv, Types, Window
<1>2. PICK m \in Int : m = Multiple(fw.frame)
  BY <1>1, MultipleInt
<1>3. PICK t \in Window : t = [fw EXCEPT !.frame = @ - m]
  <2>1. PICK x \in Int : x = fw.frame - m
    BY <1>1
  <2>2. [fw EXCEPT !.frame = x] \in Window
    BY <1>1 DEF Window
  <2> QED BY <2>1, <2>2
<1>4. PICK a \in Window : a = UpdateAbsolute(t, Vx) /\ Agree(a, Vx)
  BY <1>1, AbsoluteType
<1>5. PICK b \in Window : b = AdjustOffset(a) /\ Agree(b, Vx)
  BY <1>1, <1>4, OffsetType
<1>6. PICK s \in Window : s = UpdateAbsolute(fw, Vx) /\ Agree(s, Vx)
  BY <1>1, AbsoluteType
<1>7. PICK g \in Window : g = Shown(fw) /\ (fw.here => Agree(g, Vx))
  <2>1. CASE ~fw.here
    <3>1. Shown(fw) = fw
      BY <2>1 DEF Shown
    <3> QED BY <1>1, <2>1, <3>1
  <2>2. CASE fw.here
    <3>1. Shown(fw) = b \/ Shown(fw) = s
      BY <1>2, <1>3, <1>4, <1>5, <1>6, <2>2 DEF Shown
    <3> QED BY <1>5, <1>6, <3>1
  <2> QED BY <2>1, <2>2
<1>8. PICK h \in Window :
        /\ h = [g EXCEPT !.iconified = FALSE] /\ ~h.iconified
        /\ fw.here => Agree(h, Vx)
  <2>1. PICK u : u = [g EXCEPT !.iconified = FALSE]
    OBVIOUS
  <2>2. u \in Window /\ ~u.iconified /\ (Agree(g, Vx) => Agree(u, Vx))
    BY <1>7, <2>1 DEF Window, Agree
  <2> QED BY <1>7, <2>1, <2>2
<1>9. Becomes(h) /\ Idle /\ fw.iconified
  BY <1>7, <1>8 DEF DeIconify
<1>10. CASE fw.here
  BY <1>8, <1>9, <1>10, IdleMoving, BecomesPlaced DEF TInv, Keeps
<1>11. CASE ~fw.here
  <2>1. PICK i \in Int, x \in Int, o \in Int :
          fw' = [h EXCEPT !.max = x, !.offset = o, !.icon = i]
    <3>1. PICK x : x = IF h.maximized THEN h.max ELSE 0
      OBVIOUS
    <3>2. PICK o : o = IF h.maximized THEN h.offset ELSE 0
      OBVIOUS
    <3>3. PICK i : i = IF h.iconified \/ h.iconMoved THEN h.icon ELSE 0
      OBVIOUS
    <3>4. fw' = [h EXCEPT !.max = x, !.offset = o, !.icon = i]
      BY <1>9, <3>1, <3>2, <3>3 DEF Becomes
    <3>5. x \in Int /\ o \in Int /\ i \in Int
      BY <3>1, <3>2, <3>3 DEF Window
    <3> QED BY <3>4, <3>5
  <2>2. fw' \in Window /\ ~fw'.iconified
    BY <1>8, <2>1 DEF Window
  <2>3. UNCHANGED <<Vx, VxMax>>
    BY <1>9 DEF Becomes
  <2> QED BY <1>9, <1>11, <2>2, <2>3, IdleMoving DEF TInv, Types, ShownElsewhere
<1> QED BY <1>10, <1>11

LEMMA StepPlaced ==
  ASSUME ViewportAssumption, TInv, Next
  PROVE  TInv' /\ (Placed /\ ~ShownElsewhere => Placed')
<1>1. /\ Vx \in 0 .. LastPage /\ VxMax \in 0 .. LastPage /\ LastPage \in Nat
      /\ fw \in Window /\ moving \in MoveState /\ W \in Nat
  BY Bounds DEF TInv, Types
<1>2. Vx \in Int /\ fw.icon \in Int /\ fw.frame \in Int /\ moving.icon \in Int
  BY <1>1 DEF Window, MoveState
<1>3. ASSUME NEW arg \in PageArgs, GotoPage(arg) PROVE Keeps
  <2>1. PageOf(arg, Vx) \in Int
    BY <1>2, PageOfInt DEF TInv
  <2> QED BY <1>3, <2>1, ViewportStays DEF GotoPage, Idle
<1>4. ASSUME NEW p \in Pages, GotoPrevPage(p) PROVE Keeps
  <2>1. p \in Int
    BY PagesInt
  <2> QED BY <1>4, <2>1, ViewportStays DEF GotoPrevPage, Idle
<1>5. ASSUME NEW pages \in 0 .. MaxPages, DesktopSize(pages) PROVE Keeps
  <2>1. MaxPages \in Nat
    BY Inputs
  <2>2. VxMax' = (IF pages <= 0 THEN 0 ELSE pages * W - W)
    BY <1>5 DEF DesktopSize
  <2>3. VxMax' \in 0 .. LastPage
    <3>1. CASE pages <= 0
      BY <1>1, <2>2, <3>1
    <3>2. CASE ~(pages <= 0)
      <4>1. pages \in 1 .. MaxPages
        BY <2>1, <3>2
      <4>2. VxMax' = pages * W - W
        BY <2>2, <3>2
      <4> QED BY <4>1, <4>2, PageOnDesk
    <3> QED BY <3>1, <3>2
  <2>4. UNCHANGED <<Vx, fw, moving>>
    BY <1>5 DEF DesktopSize, Idle
  <2> QED BY <2>3, <2>4 DEF Keeps, TInv, Types, Placed
<1>6. ASSUME NEW x \in -1 .. W, Move(x) PROVE Keeps
  <2>1. x \in Int
    BY <1>1
  <2>2. PICK moved \in BOOLEAN : moved = fw.iconified
    BY <1>1 DEF Window
  <2>3. Idle /\ Becomes([MovedTo(x) EXCEPT !.iconMoved = @ \/ moved])
    BY <1>6, <2>2 DEF Move
  <2> QED BY <2>1, <2>3, IdleMoving, MovePlaced
<1>7. ASSUME NEW opaque \in BOOLEAN, StartMove(opaque) PROVE Keeps
  <2>1. PICK i \in Int : i = IF fw.iconified THEN fw.icon ELSE 0
    BY <1>2
  <2>2. moving' = [on |-> TRUE, opaque |-> opaque, vx |-> Vx, icon |-> i]
    BY <1>7, <2>1 DEF StartMove
  <2>3. moving' \in MoveState /\ moving'.on
    BY <1>1, <2>2 DEF MoveState
  <2>4. UNCHANGED <<Vx, VxMax, fw>>
    BY <1>7 DEF StartMove
  <2> QED BY <2>3, <2>4 DEF Keeps, TInv, Types, Placed
<1>8. ASSUME NEW x \in 0 .. W - 1, EndMove(x) PROVE Keeps
  <2>1. x \in Int
    BY <1>1
  <2>2. PICK moved \in BOOLEAN : moved = fw.iconified
    BY <1>1 DEF Window
  <2>3. moving' = NotMoving /\ Becomes([MovedTo(x) EXCEPT !.iconMoved = @ \/ moved])
    BY <1>8, <2>2 DEF EndMove
  <2> QED BY <2>1, <2>3, StoppedMoving, MovePlaced
<1>9. ASSUME AbortMove PROVE Keeps
  <2>1. moving.vx \in Int
    BY <1>1 DEF MoveState
  <2> QED BY <1>9, <2>1, ViewportStays DEF AbortMove
<1>10. ASSUME AbortedMove PROVE Keeps
  <2>1. PICK x \in Int : x = IF fw.iconified THEN moving.icon ELSE fw.frame
    BY <1>2
  <2>2. moving' = NotMoving /\ Becomes(MovedTo(x))
    BY <1>10, <2>1 DEF AbortedMove
  <2> QED BY <2>2, StoppedMoving, MovePlain
<1>11. ASSUME NEW x \in {fw.frame, Multiple(fw.frame + (Vx % W)) - (Vx % W)}, Maximize(x)
       PROVE  Keeps
  <2>1. PICK off \in Int : off = Vx % W
    BY <1>2, Bounds
  <2>2. fw.frame + off \in Int
    BY <1>2
  <2>3. PICK m \in Int : m = Multiple(fw.frame + off)
    BY <2>2, MultipleInt
  <2>4. x \in Int
    BY <1>2, <2>1, <2>3
  <2> QED BY <1>11, <2>4, MaximizePlaced
<1>12. ASSUME NEW p \in Pages, NEW here \in BOOLEAN, GotoDeskAndPage(p, here)
       PROVE  Keeps
  <2>1. p \in Int
    BY PagesInt
  <2> QED BY <1>12, <2>1, ViewportMoved DEF GotoDeskAndPage, Idle
<1> QED
  BY <1>3, <1>4, <1>5, <1>6, <1>7, <1>8, <1>9, <1>10, <1>11, <1>12, ScrollPlaced,
     EdgePlaced, MoveToPagePlaced, DeskPlaced, MoveToDeskPlaced, StickPlaced, UnmaximizePlaced, RedecoratePlaced,
     IconifyPlaced, DeIconifyPlaced
  DEF Next, Keeps

LEMMA StutterPlaced ==
  ASSUME TInv, UNCHANGED vars
  PROVE  TInv' /\ (Placed => Placed')
  BY DEF TInv, Types, Placed, vars

LEMMA AlwaysPlaced ==
  ASSUME ViewportAssumption
  PROVE  Spec => []TInv
<1>1. Init => TInv
  BY InitPlaced
<1>2. TInv /\ [Next]_vars => TInv'
  BY StepPlaced, StutterPlaced
<1> QED BY <1>1, <1>2, PTL DEF Spec

---------------------------------------------------------------------------
(* Theorems                                                                *)

\* The types of all variables, and that the viewport and its last position stay
\* on the largest desk: MoveViewport cuts off every position that a command, a
\* scroll over the edge or an aborted move asks for, in virtual.c.
THEOREM TypeCorrect ==
  ASSUME ViewportAssumption
  PROVE  Spec => []TypeOK
<1>1. TInv => TypeOK
  BY DEF TInv, Types, TypeOK, Window, MoveState, LastPage
<1> QED BY <1>1, AlwaysPlaced, PTL

\* A window that is shown where it is on the desk stays there, and one that was
\* an icon is shown there, unless it is shown on another desk: for pages of any
\* width, any distances of scrolling and any arguments of GotoPage and
\* MoveToPage. Paging, the interactive move, maximizing, desks and icons each
\* keep g.frame and g.normal or g.max in step in a way of their own.
THEOREM WindowsPlaced ==
  ASSUME ViewportAssumption
  PROVE  Spec => PlacesKept
<1>1. Placed <=> PlacesAgree
  BY DEF Placed, Agree, PlacesAgree
<1>2. Placed' <=> PlacesAgree'
  BY DEF Placed, Agree, PlacesAgree
<1>3. TInv /\ [Next]_vars => [KeepsPlaces]_vars
  BY <1>1, <1>2, StepPlaced, StutterPlaced DEF KeepsPlaces
<1> QED BY <1>3, AlwaysPlaced, PTL DEF Spec, PlacesKept
===============================================================================
