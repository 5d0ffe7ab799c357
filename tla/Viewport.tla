------------------------------- MODULE Viewport -------------------------------
(***************************************************************************)
(* The page of a desk that the screen shows: src/mvwm/virtual.c, and the   *)
(* commands of move_resize.c and icons.c that move a window over it.       *)
(*                                                                         *)
(* A window has its place on the screen (g.frame) and one on the whole     *)
(* desk (g.normal or, when it is maximized, g.max). Both are kept up to    *)
(* date by hand: paging moves the frames of all windows, except for those  *)
(* that stick to the screen, whose place on the desk changes instead.      *)
(* Icons have a place of their own, and drag their windows along.          *)
(*                                                                         *)
(* One window, one unit wide, and one dimension: windows do not affect     *)
(* each other here, and x and y are treated alike. Of the desks, all that  *)
(* matters is whether the window is on the current one. The viewport is    *)
(* that of all desks, and paging moves the windows of all of them.         *)
(***************************************************************************)
EXTENDS Integers

CONSTANTS
  W,             \* width of a page
  MaxPages,      \* bound: pages of the largest desk
  ScrollSteps,   \* distances of Scroll and of EdgeScroll
  PageArgs,      \* arguments of GotoPage and MoveToPage
  EdgeWrap,      \* BOOLEAN: do_edge_wrap_x
  IconsPage,     \* BOOLEAN: icons are dragged to other pages
  MaxFar          \* bound: distance of the window from the screen

ViewportAssumption ==
  /\ W \in Nat \ {0} /\ MaxPages \in Nat \ {0} /\ MaxFar \in Nat
  /\ ScrollSteps \subseteq Int
  /\ PageArgs \subseteq [suffix : {"", "p", "w"}, val : Int, wrap : BOOLEAN,
                         limit : BOOLEAN]
  /\ {EdgeWrap, IconsPage} \subseteq BOOLEAN

VARIABLES
  Vx, VxMax,     \* the viewport, and its last position on the desk
  fw,            \* the window; here: it is on the current desk
  moving         \* the interactive move: where it started

vars == <<Vx, VxMax, fw, moving>>

NotMoving == [on |-> FALSE, opaque |-> FALSE, vx |-> 0, icon |-> 0]

\* Division in C
Quotient(a, b) == IF a >= 0 THEN a \div b ELSE -((-a) \div b)
Remainder(a, b) == a - b * Quotient(a, b)

\* truncate_to_multiple
Multiple(x) == W * (x \div W)

OnPage(x) == x + 1 > 0 /\ x < W

\* mvwmrect_move_into_rectangle, for a page that starts at p
MovedInto(x, p) ==
  IF x + 1 > p /\ x < p + W THEN x
  ELSE LET r == Remainder(x, W)
       IN  p + (IF r < 0 THEN r + W ELSE r)

\* is_window_sticky_across_pages
Sticky(f) == f.sticky \/ (f.iconified /\ f.iconSticky)

\* update_absolute_geometry
UpdateAbsolute(f, v) ==
  IF f.maximized THEN [f EXCEPT !.max = f.frame + v]
  ELSE [f EXCEPT !.normal = f.frame + v]

\* maximize_adjust_offset
AdjustOffset(f) ==
  LET off == f.normal - f.max - f.offset
  IN  IF f.maximized THEN [f EXCEPT !.normal = @ - W * Quotient(off, W)] ELSE f

\* AutoPlaceIcon: the icon goes to the place box of its page
AutoPlaceIcon(f, v, box) ==
  LET sticks == f.sticky \/ f.iconSticky
      r == Remainder(f.frame, W)
      page == W * Quotient(f.frame + v, W)
      desk == IF page > VxMax THEN VxMax ELSE IF page < 0 THEN 0 ELSE page
      base == IF sticks \/ (f.here /\ OnPage(f.frame)) THEN 0 ELSE desk - v
      old == Remainder(f.icon, W) + base
      t == IF sticks THEN [f EXCEPT !.frame = IF r + 1 <= 0 THEN r + W ELSE r]
           ELSE f
  IN  [t EXCEPT !.icon = IF ~f.iconMoved THEN base + box
                         ELSE IF old < 0 THEN old + W ELSE old]

---------------------------------------------------------------------------
(* Paging                                                                  *)

\* What MoveViewport does with the window when the screen moves by -d
Paged(f, d, opaque) ==
  IF Sticky(f)
    THEN [f EXCEPT !.normal = @ - d, !.max = IF f.maximized THEN @ - d ELSE 0]
  ELSE IF opaque THEN f
  ELSE [f EXCEPT !.frame = @ + d, !.icon = IF f.iconified THEN @ + d ELSE @]

\* MoveViewport: sticky icons that were not moved are placed again. here: the
\* window is on the desk that is shown next.
MoveViewportAndDesk(newx, here) ==
  LET x == IF newx > VxMax THEN VxMax ELSE newx
      v == IF x < 0 THEN 0 ELSE x
      f == Paged(fw, Vx - v, moving.opaque)
      Placed(box) ==
        IF v = Vx THEN fw
        ELSE IF Sticky(f) /\ f.iconified /\ ~f.iconMoved
          THEN AutoPlaceIcon(f, v, box)
        ELSE f
  IN  /\ Vx' = v
      /\ \E box \in 0 .. W - 1 : fw' = [Placed(box) EXCEPT !.here = here]
      /\ UNCHANGED VxMax

MoveViewport(newx) == MoveViewportAndDesk(newx, fw.here)

Wrapped(x) ==
  LET period == VxMax + W
      up == IF x < 0 THEN x + period * ((-x + period - 1) \div period) ELSE x
  IN  IF up > VxMax THEN up - period * ((up - VxMax + period - 1) \div period)
      ELSE up

\* get_page_arguments; own: the page of the window
PageOf(arg, own) ==
  LET x == CASE arg.suffix = "p" -> arg.val * W + Vx
             [] arg.suffix = "w" -> arg.val * W + own
             [] OTHER -> IF arg.val >= 0 THEN arg.val * W
                         ELSE (arg.val + 1) * W + VxMax
  IN  IF ~arg.limit THEN x
      ELSE IF arg.wrap THEN Wrapped(x)
      ELSE IF x < 0 THEN 0 ELSE IF x > VxMax THEN VxMax ELSE x

Pages == {p * W : p \in 0 .. MaxPages - 1}

Idle == ~moving.on /\ UNCHANGED moving

\* CMD_GotoPage. The previous page may be any one; positions between pages,
\* which only Scroll leads to, are not remembered.
GotoPage(arg) == Idle /\ MoveViewport(PageOf(arg, Vx))
GotoPrevPage(x) == Idle /\ MoveViewport(x)

\* goto_desk, from or to the desk of the window. Windows that stick across
\* desks stay here.
GotoDesk ==
  /\ Idle
  /\ fw' = [fw EXCEPT !.here = ~@]
  /\ UNCHANGED <<Vx, VxMax>>

\* CMD_GotoDeskAndPage
GotoDeskAndPage(x, here) == Idle /\ MoveViewportAndDesk(x, here)

\* CMD_Scroll, with a distance or over pages
Scroll(d, pages) ==
  LET x == Vx + d
      xpixels == (VxMax \div W + 1) * W
  IN  /\ Idle
      /\ MoveViewport(IF pages /\ x > VxMax THEN Remainder(x, xpixels)
                      ELSE IF pages /\ x < 0 THEN VxMax
                      ELSE x)

\* HandlePaging, at the left or right edge of the screen, also while a window
\* is moved
EdgePage(step) ==
  LET x == Vx + step
      period == VxMax + W
      d == CASE x < 0 -> IF EdgeWrap THEN step + period ELSE -Vx
             [] x > VxMax -> IF EdgeWrap THEN step - period ELSE VxMax - Vx
             [] OTHER -> step
  IN  /\ VxMax # 0 /\ d # 0
      /\ moving.on /\ fw.iconified => IconsPage
      /\ MoveViewport(Vx + d)
      /\ UNCHANGED moving

\* CMD_DesktopSize
DesktopSize(pages) ==
  /\ Idle
  /\ VxMax' = IF pages <= 0 THEN 0 ELSE pages * W - W
  /\ UNCHANGED <<Vx, fw>>

---------------------------------------------------------------------------
(* Moving the window                                                       *)

\* __move_window, from the final position on
MovedFrame(f, x) == AdjustOffset(UpdateAbsolute([f EXCEPT !.frame = x], Vx))

\* max, offset and the place of an icon are not read again once they are void.
Becomes(f) ==
  /\ {f.frame, f.icon, f.normal - Vx, f.max - Vx} \subseteq -MaxFar .. MaxFar
  /\ fw' = [f EXCEPT !.max = IF f.maximized THEN @ ELSE 0,
                     !.offset = IF f.maximized THEN @ ELSE 0,
                     !.icon = IF f.iconified \/ f.iconMoved THEN @ ELSE 0]
  /\ UNCHANGED <<Vx, VxMax>>

MovedTo(x) ==
  IF fw.iconified THEN [fw EXCEPT !.icon = x] ELSE MovedFrame(fw, x)

\* CMD_Move, CMD_ResizeMove and the like with arguments
Move(x) ==
  Idle /\ Becomes([MovedTo(x) EXCEPT !.iconMoved = @ \/ fw.iconified])

\* CMD_MoveToPage
MoveToPage(arg) ==
  LET x == IF fw.iconified THEN fw.icon ELSE fw.frame
      off == Vx % W
      own == Multiple(x + Vx + off) - off
  IN  /\ Idle /\ ~fw.sticky
      /\ Becomes(MovedTo(MovedInto(x, PageOf(arg, own) - Vx)))

\* do_move_window_to_desk
MoveToDesk(box) ==
  LET there == [fw EXCEPT !.here = ~@]
  IN  /\ Idle
      /\ Becomes(IF there.here /\ fw.iconified THEN AutoPlaceIcon(there, Vx, box)
                 ELSE there)

\* InteractiveMove; the pages are turned by EdgePage
StartMove(opaque) ==
  /\ ~moving.on
  /\ moving' = [on |-> TRUE, opaque |-> opaque, vx |-> Vx,
                icon |-> IF fw.iconified THEN fw.icon ELSE 0]
  /\ UNCHANGED <<Vx, VxMax, fw>>

EndMove(x) ==
  /\ moving.on /\ moving' = NotMoving
  /\ Becomes([MovedTo(x) EXCEPT !.iconMoved = @ \/ fw.iconified])

\* The move is aborted: back to the old page, then to the old place. The
\* second step is separate, nothing happens in between.
AbortMove ==
  /\ moving.on /\ Vx # moving.vx
  /\ MoveViewport(moving.vx)
  /\ UNCHANGED moving

AbortedMove ==
  /\ moving.on /\ Vx = moving.vx /\ moving' = NotMoving
  /\ Becomes(MovedTo(IF fw.iconified THEN moving.icon ELSE fw.frame))

\* stick_across_pages
StickAcrossPages ==
  LET x == IF fw.iconified THEN fw.icon ELSE fw.frame
      here == IF OnPage(fw.frame) THEN fw ELSE MovedTo(MovedInto(x, 0))
  IN  /\ Idle
      /\ Becomes(IF fw.sticky THEN [fw EXCEPT !.sticky = FALSE]
                 ELSE [here EXCEPT !.sticky = TRUE])

\* maximize_mvwm_window, to the place x
Maximize(x) ==
  LET f == UpdateAbsolute([fw EXCEPT !.maximized = TRUE, !.frame = x], Vx)
  IN  /\ Idle
      /\ Becomes([f EXCEPT !.offset = f.normal - f.max])

\* unmaximize_mvwm_window; forget: the window stays as it is
Unmaximize(forget) ==
  LET n == IF forget THEN fw.max ELSE fw.normal
  IN  /\ Idle /\ fw.maximized
      /\ Becomes([fw EXCEPT !.maximized = FALSE, !.normal = n, !.frame = n - Vx])

\* The end of frame_setup_... in apply_window_updates: a new border or title
Redecorate ==
  /\ Idle
  /\ Becomes([fw EXCEPT !.frame = (IF fw.maximized THEN fw.max ELSE fw.normal) - Vx])

---------------------------------------------------------------------------
(* Icons                                                                   *)

\* Iconify; comes: the icon sticks across desks
Iconify(box, comes) ==
  LET f == AutoPlaceIcon([fw EXCEPT !.here = @ \/ comes], Vx, box)
  IN  /\ Idle /\ ~fw.iconified
      /\ Becomes([f EXCEPT !.iconified = TRUE])

\* variant: the place on the desk is left as it was
ShownStale(f) ==
  LET t == [f EXCEPT !.frame = @ - Multiple(@)]
  IN  IF f.here /\ OnPage(f.icon) /\ ~OnPage(f.frame)
        THEN AdjustOffset(UpdateAbsolute(t, Vx))
      ELSE f

\* The part of DeIconify that brings the window to the page of its icon, if
\* they are on the current desk
Shown(f) ==
  LET s == UpdateAbsolute(f, Vx)
      t == [f EXCEPT !.frame = @ - Multiple(@)]
  IN  IF ~f.here THEN f
      ELSE IF OnPage(f.icon) /\ ~OnPage(f.frame)
        THEN AdjustOffset(UpdateAbsolute(t, Vx))
      ELSE s

DeIconify ==
  /\ Idle /\ fw.iconified
  /\ Becomes([Shown(fw) EXCEPT !.iconified = FALSE])

---------------------------------------------------------------------------
\* AddWindow: a window in its place
NewWindows ==
  {[frame |-> x, normal |-> x, max |-> 0, offset |-> 0, icon |-> 0,
    maximized |-> FALSE, sticky |-> sticky, iconified |-> FALSE,
    iconSticky |-> iconSticky, iconMoved |-> FALSE, here |-> here] :
     x \in 0 .. W - 1, sticky, iconSticky, here \in BOOLEAN}

Init ==
  /\ Vx = 0 /\ VxMax = (MaxPages - 1) * W
  /\ moving = NotMoving
  /\ fw \in NewWindows

Next ==
  \/ \E arg \in PageArgs : GotoPage(arg)
  \/ \E p \in Pages : GotoPrevPage(p)
  \/ GotoDesk
  \/ \E p \in Pages, here \in BOOLEAN : GotoDeskAndPage(p, here)
  \/ \E d \in ScrollSteps, pages \in BOOLEAN : Scroll(d, pages)
  \/ \E step \in ScrollSteps : EdgePage(step)
  \/ \E pages \in 0 .. MaxPages : DesktopSize(pages)
  \/ \E x \in -1 .. W : Move(x)
  \/ \E arg \in PageArgs : MoveToPage(arg)
  \/ \E box \in 0 .. W - 1 : MoveToDesk(box)
  \/ \E opaque \in BOOLEAN : StartMove(opaque)
  \/ \E x \in 0 .. W - 1 : EndMove(x)
  \/ AbortMove
  \/ AbortedMove
  \/ StickAcrossPages
  \/ \E x \in {fw.frame, Multiple(fw.frame + (Vx % W)) - (Vx % W)} : Maximize(x)
  \/ \E forget \in BOOLEAN : Unmaximize(forget)
  \/ Redecorate
  \/ \E box \in 0 .. W - 1, comes \in BOOLEAN : Iconify(box, comes)
  \/ DeIconify

Spec == Init /\ [][Next]_vars

---------------------------------------------------------------------------
TypeOK ==
  /\ {Vx, VxMax} \subseteq 0 .. (MaxPages - 1) * W
  /\ {fw.frame, fw.normal, fw.max, fw.offset, fw.icon} \subseteq Int
  /\ moving.vx \in 0 .. (MaxPages - 1) * W

\* A window that is shown is, on the desk, where it is on the screen: otherwise
\* it would jump to another page as soon as its border changes. Not so in all
\* states, as DeIconify does without update_absolute_geometry on other desks
\* (icons.c:2347).
PlacesAgree ==
  ~fw.iconified /\ ~moving.on =>
    (IF fw.maximized THEN fw.max ELSE fw.normal) = fw.frame + Vx

ShownElsewhere == fw.iconified /\ ~fw'.iconified /\ ~fw.here

\* Nothing else makes the places disagree, whatever was paged, moved, stuck,
\* maximized, moved to a desk, iconified and dragged as an icon before; and
\* showing a window on the current desk makes up for all that happened to it
\* while it was an icon.
KeepsPlaces == PlacesAgree /\ ~ShownElsewhere => PlacesAgree'
PlacesKept == [][KeepsPlaces]_vars

\* "make sure a maximized window and it's normal version are never a page or
\* more apart" (geometry.c:647), as seen from where it was maximized
NeverAPageApart ==
  fw.maximized /\ ~fw.iconified /\ ~moving.on =>
    LET off == fw.normal - fw.max - fw.offset IN -W < off /\ off < W
===============================================================================
