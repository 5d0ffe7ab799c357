-------------------------------- MODULE Frames --------------------------------
(***************************************************************************)
(* The geometry of a window and what its client is told of it: frame.c,    *)
(* geometry.c, windowshade.c, the handler of ConfigureRequest in events.c, *)
(* and the commands of move_resize.c and update.c that change the size.    *)
(*                                                                         *)
(* The manager keeps the place of a window on the desk twice (normal and   *)
(* max, for a maximized window) and that of its frame on the screen, which *)
(* differs when the window is shaded. The client's own window is not       *)
(* resized while the frame is too small to show it, but on unshading. The  *)
(* client asks for sizes, changes its size hints at any time, and learns   *)
(* where it is by events.                                                  *)
(*                                                                         *)
(* One window in one dimension. Shading may be towards either side of it   *)
(* ("W", "E"), in the other dimension ("N"), or in both ("NW", "NE"). The  *)
(* other dimension has a border, so a frame that is shaded in it hides the *)
(* client. The window stays within a page of its normal place, so that     *)
(* maximize_adjust_offset, see Viewport, has nothing to do.                *)
(***************************************************************************)
EXTENDS Subsequences

CONSTANTS
  HintSets,        \* size hints of clients
  Widths, Places,  \* sizes and places that commands and clients ask for
  Pages,           \* positions of the viewport
  ShadeDirs,       \* directions of WindowShade
  Borders,         \* thickness of borders
  TitleThickness,
  Limits,          \* values of the styles MinWindowSize and MaxWindowSize
  Methods,         \* values of the style for motion methods
  MaxQueue,        \* bound: events of the client that wait
  MaxPlace         \* bound: distance of the window from the screen

FramesAssumption ==
  /\ HintSets \subseteq [min : Nat \ {0}, max : Nat \ {0}, inc : Nat \ {0},
                         base : Nat, grav : {"W", "C", "E", "Static"}]
  /\ Widths \subseteq Nat \ {0} /\ Places \subseteq Int
  /\ Pages \subseteq Nat /\ 0 \in Pages
  /\ ShadeDirs \subseteq {"N", "W", "E", "NW", "NE"}
  /\ Borders \subseteq Nat /\ TitleThickness \in Nat
  /\ Limits \subseteq [min : Nat, max : Nat \ {0}]
  /\ Methods \subseteq {"auto", "grav", "static"}
  /\ MaxQueue \in Nat /\ MaxPlace \in Nat

VARIABLES
  fw,      \* the window
  Vx,      \* the position of the viewport
  hints,   \* the client's property WM_NORMAL_HINTS
  queue,   \* events of the client: requests, and changes of the property
  asked,   \* {w} if the client is to have the width w when its requests are
           \* answered, and nobody changed it, or what restricts it, since
  crooked  \* a shaded window got a frame that is not that of its shading, or
           \* does not hide the client

vars == <<fw, Vx, hints, queue, asked, crooked>>

Rect(x, w) == [x |-> x, w |-> w]
At(g, d) == [g EXCEPT !.x = @ + d]

\* The member of a singleton
The(S) == CHOOSE e \in S : TRUE

\* DEFAULT_MAX_MAX_WINDOW_WIDTH
MaxSize == 32767

Larger(a, b) == IF a > b THEN a ELSE b
Smaller(a, b) == IF a < b THEN a ELSE b

\* Division in C
Half(n) == IF n >= 0 THEN n \div 2 ELSE -((-n) \div 2)
Multiple(n, inc) == IF n >= 0 THEN inc * (n \div inc) ELSE -inc * ((-n) \div inc)

---------------------------------------------------------------------------
(* Gravity and borders                                                     *)

\* gravity_get_offsets
Offset(grav) == CASE grav = "W" -> -1 [] grav = "E" -> 1 [] OTHER -> 0

\* gravity_resize
Resized(grav, g, d) == Rect(g.x - Half(d * (Offset(grav) + 1)), g.w + d)

\* get_window_borders, get_window_borders_no_title
TopLeft(f) == f.border + IF f.title = "W" THEN f.thickness ELSE 0
Total(f) == 2 * f.border + IF f.title = "N" THEN 0 ELSE f.thickness

Side(dir) == CASE dir \in {"W", "NW"} -> "W" [] dir \in {"E", "NE"} -> "E"
               [] OTHER -> "N"
Across(dir) == dir \in {"N", "NW", "NE"}

\* get_shaded_geometry_with_dir
ShadedGeometry(f, dir, g) ==
  LET b == IF dir \in {"NW", "NE"} THEN 2 * f.border ELSE Total(f)
      w == Larger(b, 1)
  IN  CASE Side(dir) = "W" -> Rect(g.x, w)
        [] Side(dir) = "E" -> Rect(g.x + g.w - w, w)
        [] OTHER -> g

Place(f) == IF f.maximized THEN f.max ELSE f.normal

WithPlace(f, g) ==
  IF f.maximized THEN [f EXCEPT !.max = g] ELSE [f EXCEPT !.normal = g]

\* get_unshaded_geometry
Unshaded(f) == IF f.shaded THEN At(Place(f), -Vx) ELSE f.frame

\* update_absolute_geometry: the size of a shaded window is kept
UpdateAbsolute(f) ==
  LET g == At(f.frame, Vx)
      old == Place(f).w
  IN  WithPlace(f, IF ~f.shaded \/ Side(f.dir) = "N" THEN g
                   ELSE IF Side(f.dir) = "W" THEN Rect(g.x, old)
                   ELSE Rect(g.x + g.w - old, old))

---------------------------------------------------------------------------
(* Size hints                                                              *)

\* GetWindowSizeHints, when the hints have changed
Adopted(f) ==
  IF f.newHints THEN [f EXCEPT !.hints = hints, !.newHints = FALSE] ELSE f

\* constrain_size: the width w of a frame as the hints and styles allow it
Constrained(f, w) ==
  LET h == f.hints
      b == Total(f)
      high == Smaller(h.max, f.limit.max - b)
      low == Smaller(Larger(h.min, f.limit.min - b), high)
      clamped == Smaller(Larger(w - b, low), high)
      rounded == Multiple(clamped - h.base, h.inc) + h.base
      above == IF rounded < low THEN rounded + h.inc ELSE rounded
  IN  b + IF above > high THEN above - h.inc ELSE above

\* constrain_size with CS_UPDATE_MAX_DEFECT
Defect(f, w) ==
  IF f.maximized THEN w + f.defect - Constrained(f, w + f.defect) ELSE f.defect
Wanted(f, w) == IF f.maximized THEN w + f.defect ELSE w

\* gravity_constrain_size
GravityConstrained(f, grav, g) == Resized(grav, g, Constrained(f, g.w) - g.w)

\* the same for a maximized window, with CS_UPDATE_MAX_DEFECT
MaxConstrained(f, grav, g) ==
  LET t == Resized(grav, g, f.defect)
  IN  [f EXCEPT !.max = GravityConstrained(f, grav, t),
                !.defect = t.w - Constrained(f, t.w)]

---------------------------------------------------------------------------
(* Frames                                                                  *)

\* frame_is_parent_hidden, of the frame g
Hidden(f, g) == g.w <= Total(f) \/ (f.shaded /\ Across(f.dir))

\* get_client_geometry
ClientWidth(f) == IF f.shaded THEN Unshaded(f).w - Total(f) ELSE f.client

\* The server resizes the client's window, which is told so, but not where
\* on the screen it is.
ClientResized(f, w) ==
  [f EXCEPT !.client = w, !.told = IF w = f.client THEN @ ELSE {}]

\* SendConfigureNotify
Notified(f) ==
  IF f.shaded THEN f ELSE [f EXCEPT !.told = {f.frame.x + TopLeft(f)}]

\* __frame_setup_window
FrameSetup(f, g, send, force) ==
  LET redo == force \/ g.w # f.frame.w
      w == CASE ~redo -> f.client
             [] redo /\ ~Hidden(f, g) -> Larger(g.w - Total(f), 1)
             [] OTHER -> IF force \/ ~Hidden(f, f.frame) THEN ClientWidth(f)
                         ELSE f.client
      t == [ClientResized(f, w) EXCEPT !.frame = g]
      s == IF redo THEN UpdateAbsolute(t) ELSE t
  IN  IF send \/ (~redo /\ g.x # f.frame.x) THEN Notified(s) ELSE s

\* variant: the client is not resized
ShadeFrame(f, on, dir) ==
  LET end == IF on THEN ShadedGeometry(f, dir, Unshaded(f)) ELSE Unshaded(f)
      s == [f EXCEPT !.shaded = on, !.dir = IF on THEN dir ELSE @, !.frame = end]
  IN  Notified(UpdateAbsolute(s))

\* CMD_WindowShade, from the drawing of the animation on, which has one step
Shade(f, on, dir) ==
  LET end == IF on THEN ShadedGeometry(f, dir, Unshaded(f)) ELSE Unshaded(f)
      s == [f EXCEPT !.shaded = on, !.dir = IF on THEN dir ELSE @, !.frame = end]
      before == Hidden(f, f.frame)
      after == end.w <= Total(f) \/ (on /\ Across(dir))
      t == UpdateAbsolute(IF before = after THEN s
                          ELSE ClientResized(s, ClientWidth(f)))
  IN  IF before /\ ~after THEN Notified(t) ELSE t

---------------------------------------------------------------------------
(* The requests of the client                                              *)

Changed == [type |-> "hints"]
Request(x, w) == [type |-> "request", x |-> x, w |-> w]

Requests(q) == {i \in DOMAIN q : q[i].type = "request"}
Last(S) == CHOOSE i \in S : \A j \in S : j <= i
First(S) == CHOOSE i \in S : \A j \in S : i <= j

\* The requests in q that name a place ("x") or a width ("w"), and the value
\* in the foremost or rearmost of them
Naming(q, k) == {i \in Requests(q) : q[i][k] # {}}
Foremost(q, k) ==
  IF Naming(q, k) = {} THEN {} ELSE q[First(Naming(q, k))][k]
Rearmost(q, k) ==
  IF Naming(q, k) = {} THEN {} ELSE q[Last(Naming(q, k))][k]

\* The width that the requests in q come to: they are merged, older values
\* replacing newer ones, or answered one by one (see HandleRequest)
Awaited(q, method) ==
  IF method = "auto" THEN Rearmost(q, "w") ELSE Foremost(q, "w")

\* The client is to have that width, if there is one, otherwise the width a.
Expects(a) ==
  LET w == Awaited(queue', fw'.method) IN asked' = IF w = {} THEN a ELSE w

---------------------------------------------------------------------------
\* A window without borders does not hide its client when shaded to the side.
Bare(f) == f.shaded /\ Side(f.dir) # "N" /\ Total(f) = 0

\* The window stays where the run looks at it. spoilt: its frame is not that
\* of its shading.
Becomes(f, spoilt) ==
  /\ crooked' = (spoilt \/ Bare(f))
  /\ {f.frame.x, f.normal.x - Vx} \subseteq -MaxPlace .. MaxPlace
  /\ fw' = [f EXCEPT !.max = IF f.maximized THEN @ ELSE Rect(0, 1),
                     !.defect = IF f.maximized THEN @ ELSE 0,
                     !.dir = IF f.shaded THEN @ ELSE f.title]
  /\ UNCHANGED <<Vx, hints>>

Command(f) == Becomes(f, FALSE) /\ UNCHANGED queue /\ Expects(asked)
Override(f, spoilt) == Becomes(f, spoilt) /\ UNCHANGED queue /\ Expects({})

\* CMD_WindowShade; dir: {} if no direction is given. Whether the shading goes
\* along with the title (USED_TITLE_DIR_FOR_SHADING) is told from byTitle.
WindowShade(dir, again) ==
  LET on == IF dir = {} THEN ~fw.shaded ELSE ~fw.shaded \/ again
      new == IF dir = {} THEN fw.title ELSE The(dir)
  IN  /\ fw.shaded /\ dir # {} /\ again => The(dir) # fw.dir
      /\ Command(Shade([fw EXCEPT !.byTitle = IF on THEN dir = {} ELSE @],
                       on, new))

\* CMD_Move and all that moves the frame only
Move(x) ==
  Command(UpdateAbsolute(FrameSetup(fw, Rect(x, fw.frame.w), TRUE, FALSE)))

\* MoveViewport
Page(v) ==
  /\ v # Vx /\ Vx' = v
  /\ fw' = FrameSetup(fw, At(fw.frame, Vx - v), FALSE, FALSE)
  /\ UNCHANGED <<hints, queue, crooked>>
  /\ Expects(asked)

\* CMD_Resize with a size
Resize(w) ==
  LET f == Adopted([fw EXCEPT !.maximized = FALSE])
      now == Unshaded(fw)
      g == Resized(f.hints.grav, now, Constrained(f, w) - now.w)
      s == IF f.shaded
             THEN LET n == [f EXCEPT !.normal = g]
                  IN  FrameSetup(n, ShadedGeometry(n, n.dir, g), FALSE, FALSE)
           ELSE FrameSetup(f, g, FALSE, FALSE)
  IN  Override(UpdateAbsolute(s), FALSE)

\* resize_move_window. The height of a shaded frame is not changed, but the
\* width is, also when the window is shaded to the side.
ResizeMove(x, w) ==
  LET f == Adopted([fw EXCEPT !.maximized = FALSE])
      g == Rect(x, Constrained(f, w))
  IN  Override(UpdateAbsolute(FrameSetup(f, g, ~f.shaded, FALSE)),
               f.shaded /\ Side(f.dir) # "N")

\* CMD_Maximize; a size that is not given is that of the frame
Maximize(x, w) ==
  LET f == Adopted([fw EXCEPT !.maximized = TRUE, !.defect = 0])
      t == [f EXCEPT !.defect = Defect(f, w), !.max = Rect(x, Constrained(f, w))]
      g == IF t.shaded THEN ShadedGeometry(t, t.dir, t.max) ELSE t.max
  IN  Override(UpdateAbsolute(FrameSetup(t, g, TRUE, FALSE)), FALSE)

\* CMD_ResizeMaximize with a size: the normal place stays
ResizeMaximize(w) ==
  LET f == Adopted([fw EXCEPT !.maximized = FALSE])
      now == Unshaded(fw)
      g == Resized(f.hints.grav, now, Constrained(f, w) - now.w)
      m == [f EXCEPT !.maximized = TRUE, !.max = g, !.normal = fw.normal,
                     !.defect = g.w - Constrained(f, g.w)]
  IN  /\ ~fw.shaded
      /\ Override(UpdateAbsolute(FrameSetup(m, g, TRUE, FALSE)), FALSE)

---------------------------------------------------------------------------
(* Borders and titles                                                      *)

\* gravity_get_naked_geometry, gravity_translate_to_northwest_geometry_no_bw
\* and gravity_add_decoration: from the borders of f to those of t
Redecorated(f, t, grav, g) ==
  LET k == Offset(grav) + 1
      w == g.w - Total(f)
  IN  Resized(grav, Rect(g.x + Half(k * (g.w - 1)) - Half(k * (w - 1)), w),
              Total(t))

\* The frame as the place on the desk says. A window that was shaded towards
\* its title still is.
Refitted(f) ==
  LET g == At(Place(f), -Vx)
      t == [f EXCEPT !.dir = IF f.shaded /\ f.byTitle THEN f.title ELSE @]
  IN  FrameSetup(t, IF f.shaded THEN ShadedGeometry(t, t.dir, g) ELSE g,
                 TRUE, TRUE)

\* apply_window_updates with do_redecorate, frame_reshape_border; f: with the
\* new borders
Reborder(old, f) ==
  LET n == [f EXCEPT !.normal = Redecorated(old, f, f.hints.grav, @)]
  IN  Refitted(IF f.maximized
                 THEN [n EXCEPT !.max = Redecorated(old, f, "W", @)] ELSE n)

\* apply_decor_change, and styles that change borders or titles
Redecorate(border, thickness) ==
  Override(Reborder(fw, [fw EXCEPT !.border = border, !.unshaped = border,
                                  !.thickness = thickness]), FALSE)

\* frame_reshape_border: a shaped client has no borders
ReshapeBorder(shaped) ==
  LET b == IF shaped THEN 0 ELSE fw.unshaped IN
  /\ b # fw.border
  /\ Override(Reborder(fw, [fw EXCEPT !.border = b]), FALSE)

\* apply_window_updates with do_update_title_dir
TitleDir(dir) ==
  LET t == [fw EXCEPT !.title = dir]
      f == Adopted(t)
      d == Total(t) - Total(fw)
      grav == fw.hints.grav
      n == [f EXCEPT !.normal =
              GravityConstrained(f, grav, Resized(grav, @, d))]
  IN  /\ dir # fw.title
      /\ Override(Refitted(IF fw.maximized
           THEN MaxConstrained(n, f.hints.grav, Resized(f.hints.grav, n.max, d))
           ELSE n), FALSE)

\* apply_window_updates with do_resize_window. The frame of a shaded window
\* is given a size that shows the client.
LimitSize(limit) ==
  LET f == Adopted([fw EXCEPT !.limit = limit])
      grav == fw.hints.grav
      n == [f EXCEPT !.normal = GravityConstrained(f, grav, @)]
      m == IF fw.maximized THEN MaxConstrained(n, f.hints.grav, n.max) ELSE n
      g == GravityConstrained(f, f.hints.grav, fw.frame)
  IN  Override(FrameSetup(m, g, TRUE, TRUE), fw.shaded)

\* unmaximize_mvwm_window; forget: the window keeps its place
Unmaximize(forget) ==
  LET f == [fw EXCEPT !.maximized = FALSE,
                      !.normal = IF forget THEN fw.max ELSE @]
      s == FrameSetup(f, At(f.normal, -Vx), TRUE, FALSE)
  IN  /\ fw.maximized
      /\ Override(Reborder(s, s), FALSE)

---------------------------------------------------------------------------
(* The client                                                              *)

\* The client asks for a place or a size, or changes its hints.
Configure(x, w) ==
  /\ Len(queue) < MaxQueue /\ x \cup w # {}
  /\ queue' = Append(queue, Request(x, w))
  /\ UNCHANGED <<fw, Vx, hints, crooked>>
  /\ Expects(asked)

ChangeHints(h) ==
  /\ Len(queue) < MaxQueue /\ h # hints /\ hints' = h
  /\ queue' = Append(queue, Changed)
  /\ UNCHANGED <<fw, Vx, crooked>>
  /\ Expects(asked)

\* HandlePropertyNotify: GetWindowSizeHintsWithCheck only warns here
HandleHints ==
  /\ queue # <<>> /\ Head(queue).type = "hints"
  /\ fw' = [fw EXCEPT !.newHints = TRUE]
  /\ queue' = Tail(queue)
  /\ UNCHANGED <<Vx, hints, crooked>>
  /\ Expects({})

\* Only the last request in q is left, with other values.
Left(q, request) ==
  LET last == Last(Requests(q))
  IN  Subsequence([q EXCEPT ![last] = request],
                  (DOMAIN q \ Requests(q)) \cup {last})

\* variant: newer values replace older ones
MergedNewest(r, q) ==
  LET all == <<r>> \o q
  IN  Left(q, Request(Rearmost(all, "x"), Rearmost(all, "w")))

\* _pred_merge_cr: the values of r replace those of the next request in q, and
\* so on; only the last one is left. Changes of the hints do not stop this.
Merged(r, q) ==
  LET all == <<r>> \o q
  IN  Left(q, Request(Foremost(all, "x"), Foremost(all, "w")))

\* _cr_detect_icccm_move: what can be concluded from a request of place x
Detected(f, x) ==
  LET byGravity == {p - Half((Offset(f.hints.grav) + 1) * Total(f)) : p \in x}
      static == {p - TopLeft(f) : p \in x}
  IN  IF f.method = "auto" /\ f.hints.grav # "Static" /\ byGravity # static
        THEN {"auto", "grav", "static"}
      ELSE {f.method}

\* Broken hints of Java: a maximum of one pixel is not meant
Believed(f, w) ==
  IF f.hints.max = 1 /\ w > 1 THEN [f EXCEPT !.hints.max = MaxSize] ELSE f

\* _handle_cr_on_client for the place x and the width w, each {} or a
\* singleton, and the gravity grav; method: how places are meant
Configured(f0, x0, w0, force, grav, method) ==
  LET f == [Believed(Adopted(f0), IF w0 = {} THEN f0.client ELSE The(w0))
              EXCEPT !.method = method]
      x == IF f.shaded THEN {} ELSE x0
      w == IF f.maximized THEN {} ELSE w0
      g == Unshaded(f)
      side == IF f.shaded /\ Side(f.dir) # "N" THEN Side(f.dir) ELSE grav
      ref == IF (force \/ method = "grav") /\ grav # "Static"
               THEN Half((Offset(grav) + 1) * Total(f)) ELSE TopLeft(f)
      wide == IF w = {} THEN g.w ELSE The(w) + Total(f)
      new == Constrained(f, Wanted(f, wide))
      n == IF x = {} THEN Resized(side, g, new - g.w) ELSE Rect(The(x) - ref, new)
      t == [f EXCEPT !.defect = Defect(f, wide)]
      s == [t EXCEPT !.normal = IF f.shaded THEN n ELSE @]
  IN  Notified(
        IF n = g THEN t
        ELSE UpdateAbsolute(FrameSetup(s,
               IF f.shaded THEN ShadedGeometry(s, s.dir, n) ELSE n, FALSE, FALSE)))

\* HandleConfigureRequest. Requests are not merged while the motion method is
\* to be detected.
HandleRequest ==
  LET r == Head(queue)
      f == Adopted(fw)
  IN  /\ queue # <<>> /\ r.type = "request"
      /\ IF fw.method # "auto" /\ Requests(Tail(queue)) # {}
           THEN /\ queue' = Merged(r, Tail(queue))
                /\ UNCHANGED <<fw, Vx, hints, asked, crooked>>
         ELSE /\ queue' = Tail(queue)
              /\ \E method \in Detected(f, IF fw.shaded THEN {} ELSE r.x) :
                   Becomes(Configured(fw, r.x, r.w, FALSE, f.hints.grav, method),
                           FALSE)
              /\ Expects(IF fw.maximized THEN {} ELSE asked)

\* ewmh_MoveResizeWindow: the message names the gravity
EwmhMoveResize(x, w, grav) ==
  /\ x \cup w # {}
  /\ Override(Configured(fw, x, w, TRUE, grav, fw.method), FALSE)

---------------------------------------------------------------------------
\* AddWindow
NewWindow(h, x, w, b, method) ==
  LET f == [hints |-> h, newHints |-> FALSE, limit |-> [min |-> 0, max |-> MaxSize],
            border |-> b, unshaped |-> b, thickness |-> TitleThickness,
            title |-> "N", shaded |-> FALSE, dir |-> "N", byTitle |-> TRUE,
            maximized |-> FALSE, max |-> Rect(0, 1), defect |-> 0,
            normal |-> Rect(x, w), frame |-> Rect(x, w),
            client |-> w, told |-> {}, method |-> method]
      g == GravityConstrained(f, h.grav, Rect(x, w + Total(f)))
  IN  Notified([f EXCEPT !.frame = g, !.normal = g, !.client = g.w - Total(f)])

Init ==
  /\ Vx = 0 /\ hints \in HintSets /\ queue = <<>> /\ asked = {}
  /\ crooked = FALSE
  /\ \E x \in Places, w \in Widths, b \in Borders, method \in Methods :
       fw = NewWindow(hints, x, w, b, method)

Maybe(S) == {{}} \cup {{e} : e \in S}

Step ==
  \/ \E dir \in Maybe(ShadeDirs), again \in BOOLEAN :
       WindowShade(dir, again)
  \/ \E x \in Places : Move(x)
  \/ \E v \in Pages : Page(v)
  \/ \E w \in Widths : Resize(w + Total(fw))
  \/ \E x \in Places, w \in Widths : ResizeMove(x, w + Total(fw))
  \/ \E x \in Places, w \in Widths : Maximize(x, w + Total(fw))
  \/ \E w \in Widths : ResizeMaximize(w + Total(fw))
  \/ \E b \in Borders, t \in {0, TitleThickness} : Redecorate(b, t)
  \/ \E shaped \in BOOLEAN : ReshapeBorder(shaped)
  \/ \E dir \in {"N", "W", "E"} : TitleDir(dir)
  \/ \E limit \in Limits : LimitSize(limit)
  \/ \E forget \in BOOLEAN : Unmaximize(forget)
  \/ \E x \in Maybe(Places), w \in Maybe(Widths) : Configure(x, w)
  \/ \E h \in HintSets : ChangeHints(h)
  \/ HandleHints
  \/ HandleRequest
  \/ \E x \in Maybe(Places), w \in Maybe(Widths), h \in HintSets :
       EwmhMoveResize(x, w, h.grav)

(* A shaded window whose frame is not that of its shading is not followed   *)
(* further: whether it is hidden depends on the other dimension too.       *)
Next == ~crooked /\ Step

Spec == Init /\ [][Next]_vars

---------------------------------------------------------------------------
TypeOK ==
  /\ {fw.frame, fw.normal, fw.max} \subseteq [x : Int, w : Nat \ {0}]
  /\ fw.client \in Nat \ {0} /\ fw.defect \in Int /\ Vx \in Pages
  /\ fw.dir \in {"N", "W", "E", "NW", "NE"}

\* The frame is where the place of the window on the desk and its shading say,
\* "update the frame_g according to the window's g.normal or g.max and shaded
\* state" (geometry.c:580), although commands compute both separately.
FramesAgree ==
  fw.frame = LET g == At(Place(fw), -Vx)
             IN  IF fw.shaded THEN ShadedGeometry(fw, fw.dir, g) ELSE g

\* The client fills its frame when that is shown, and knows its place, or was
\* told to ask, whatever happened while the window was shaded.
ClientKnows ==
  ~fw.shaded =>
    /\ fw.client = fw.frame.w - Total(fw)
    /\ fw.told \subseteq {fw.frame.x + TopLeft(fw)}

\* What the manager and the client believe of the window is true, until a
\* shaded window gets new limits of its size, one that is shaded to the side is
\* resized by ResizeMove, or one without borders is shaded to the side.
FramesKept == ~crooked => FramesAgree /\ ClientKnows

\* (so a frame is not always what geometry.c:580 says)
FramesAlways == FramesAgree /\ ClientKnows

\* "Merge all pending ConfigureRequests for the window into a single event"
\* (events.c:1050): no width that a client asked for is lost, neither in a
\* merge nor while the window is moved, paged or shaded. When none waits, the
\* client has the width that its requests came to, as far as its hints allow.
RequestsServed ==
  Awaited(queue, fw.method) = {} /\ asked # {} /\ ~fw.maximized =>
    fw.normal.w = Constrained(fw, The(asked) + Total(fw))

\* "ConfigureRequest events cannot be merged past changes of the size hints"
\* (events.c:985): a request in front of such a change is answered.
StopsAtHints ==
  Len(queue) > 1 /\ queue[2] = Changed /\ Len(queue') < Len(queue) =>
    queue' = Tail(queue)
MergingStops == [][StopsAtHints]_vars
===============================================================================
