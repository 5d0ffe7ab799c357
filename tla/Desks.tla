-------------------------------- MODULE Desks ---------------------------------
(***************************************************************************)
(* Which windows are shown: the desks of src/mvwm/virtual.c, Iconify and   *)
(* DeIconify of icons.c, the handlers of MapRequest, MapNotify and         *)
(* UnmapNotify in events.c and the stickiness of move_resize.c.            *)
(*                                                                         *)
(* The manager maps and unmaps frames, icons and clients as the desk       *)
(* changes and as windows are moved between desks, iconified along with    *)
(* their transients or made sticky. The server tells it what was mapped    *)
(* some time later, and clients map and withdraw their windows whenever    *)
(* they like. There is one monitor; positions are in the module Viewport.  *)
(***************************************************************************)
EXTENDS Integers, Sequences, FiniteSets, SequencesExt

CONSTANTS
  Windows,       \* client windows
  Nil,           \* no window
  Parent,        \* [Windows -> Windows \cup {Nil}]: WM_TRANSIENT_FOR
  DeskNumbers,   \* the desks that commands name
  StrayIcons,    \* TRUE: icons on other desks may become sticky without being
                 \* moved here (StyleStickyIcon, StickAcrossDesks)
  Orders,        \* orders of the windows in the stack ring and in the list
  MaxEvents      \* bound: reports that wait when a command or request is made

DesksAssumption ==
  /\ Nil \notin Windows
  /\ Parent \in [Windows -> Windows \cup {Nil}]
  /\ DeskNumbers \subseteq Int /\ DeskNumbers # {}
  /\ StrayIcons \in BOOLEAN
  /\ Orders \subseteq {q \in [1 .. Cardinality(Windows) -> Windows] :
                        IsInjective(q)}
  /\ MaxEvents \in Nat

VARIABLES
  CurrentDesk,
  win,           \* windows that are managed -> their desk and flags
  frames, clients, icons,  \* windows of which these are mapped
  events         \* <<kind, window>>: what the server has to report

vars == <<CurrentDesk, win, frames, clients, icons, events>>

(* What the functions of the manager read and change                       *)
S == [cur |-> CurrentDesk, win |-> win, frames |-> frames,
      clients |-> clients, icons |-> icons, events |-> events]

Becomes(s) ==
  /\ CurrentDesk' = s.cur /\ win' = s.win /\ frames' = s.frames
  /\ clients' = s.clients /\ icons' = s.icons /\ events' = s.events

(* Commands and clients overtake at most this many reports. What they yield *)
(* themselves, and what the handlers yield, has no bound.                   *)
Served == Len(events) <= MaxEvents

Managed(s) == DOMAIN s.win

\* Op for the managed windows that Which selects, in some order
Each(s, order, Which(_), Op(_, _)) ==
  FoldLeft(LAMBDA t, w : IF w \in Managed(s) /\ Which(w) THEN Op(t, w) ELSE t,
           s, order)

NewWindow(d, sticky, iconSticky) ==
  [Desk |-> d, sticky |-> sticky, iconSticky |-> iconSticky,
   iconified |-> FALSE, iconUnmapped |-> FALSE, byParent |-> FALSE,
   hasIcon |-> FALSE, mapped |-> FALSE, mapPending |-> FALSE,
   iconifyAfterMap |-> FALSE, iconifyPending |-> FALSE]

\* is_window_sticky_across_desks
Sticky(f) == f.sticky \/ (f.iconified /\ f.iconSticky)

\* get_transientfor_mvwmwindow
TransientFor(s, w) == IF Parent[w] \in Managed(s) THEN Parent[w] ELSE Nil

\* mark_transient_subtree with MARK_ALL: w and its transients
Family(s, w) ==
  LET InSubtree[n \in 0 .. Cardinality(Windows), t \in Windows] ==
        \/ t = w
        \/ n > 0 /\ TransientFor(s, t) # Nil /\ InSubtree[n - 1, Parent[t]]
  IN  {t \in Managed(s) : InSubtree[Cardinality(Windows), t]}

---------------------------------------------------------------------------
(* The X server                                                            *)

Report(s, kind, w) == [s EXCEPT !.events = Append(@, <<kind, w>>)]

MapFrame(s, w) == [s EXCEPT !.frames = @ \cup {w}]

UnmapFrame(s, w) ==
  LET t == [s EXCEPT !.frames = @ \ {w}]
  IN  IF w \in s.frames THEN Report(t, "FrameUnmap", w) ELSE t

MapClient(s, w) ==
  LET t == [s EXCEPT !.clients = @ \cup {w}]
  IN  IF w \notin s.clients THEN Report(t, "Map", w) ELSE t

\* with StructureNotify masked out
UnmapClient(s, w) == [s EXCEPT !.clients = @ \ {w}]

Viewable(s, w) == w \in s.clients \cap s.frames

MapIcon(s, w) ==
  IF s.win[w].hasIcon THEN [s EXCEPT !.icons = @ \cup {w}] ELSE s

UnmapIcon(s, w) == [s EXCEPT !.icons = @ \ {w}]

---------------------------------------------------------------------------
(* Desks                                                                   *)

\* unmap_window
UnmapWindow(s, w) ==
  IF s.win[w].iconified THEN UnmapIcon(s, w) ELSE UnmapFrame(s, w)

\* variant: windows are mapped that their clients have not mapped yet
MapWindowAlways(s, w) ==
  IF s.win[w].iconified THEN MapIcon(s, w) ELSE MapFrame(s, w)

\* map_window
MapWindow(s, w) ==
  IF s.win[w].iconified THEN MapIcon(s, w)
  ELSE IF s.win[w].mapped THEN MapFrame(s, w)
  ELSE s

\* A desk switch changes the mapping of these windows only.
Follows(s, w) == Sticky(s.win[w]) \/ s.win[w].iconUnmapped

UnmapDesk(s, order) ==
  Each(s, order, LAMBDA w : ~Follows(s, w) /\ s.win[w].Desk = s.cur, UnmapWindow)

\* MapDesk: the other windows get the number of the new desk
MapDesk(s, d, order) ==
  LET there == Each(s, order,
                 LAMBDA w : ~Follows(s, w) /\ s.win[w].Desk = d, MapWindow)
  IN  [there EXCEPT !.cur = d,
         !.win = [w \in DOMAIN @ |->
                    IF Follows(s, w) THEN [@[w] EXCEPT !.Desk = d] ELSE @[w]]]

\* goto_desk, and CMD_GotoDeskAndPage but for the page
GotoDesk(d, order) ==
  /\ Served /\ d # CurrentDesk
  /\ Becomes(MapDesk(UnmapDesk(S, order), d, Reverse(order)))

\* do_move_window_to_desk
MoveWindowToDesk(s, w, d) ==
  LET f == s.win[w]
      t == [s EXCEPT !.win[w].Desk = d]
  IN  IF Sticky(f) THEN s
      ELSE IF f.Desk = s.cur THEN UnmapWindow(t, w)
      ELSE IF d = s.cur THEN MapWindow(t, w)
      ELSE t

\* CMD_MoveToDesk
MoveToDesk(w, d) ==
  /\ Served /\ w \in DOMAIN win /\ d # win[w].Desk
  /\ Becomes(MoveWindowToDesk(S, w, d))

\* stick_across_desks, for CMD_StickAcrossDesks and for styles
StickAcrossDesks(w) ==
  LET here == MoveWindowToDesk(S, w, CurrentDesk)
      s == IF win[w].Desk # CurrentDesk THEN here ELSE S
  IN  /\ Served /\ w \in DOMAIN win
      /\ Sticky(win[w]) /\ win[w].Desk # CurrentDesk => StrayIcons
      /\ Becomes(IF win[w].sticky
                   THEN [S EXCEPT !.win[w].sticky = FALSE,
                                  !.win[w].Desk = CurrentDesk]
                   ELSE [s EXCEPT !.win[w].sticky = TRUE])

(* apply_window_updates after the style StickyAcrossDesksIcon was set or    *)
(* removed. It calls handle_stick with the stickiness of the window's       *)
(* style, which is the window's, to stick and unstick the icon: nothing     *)
(* happens.                                                                 *)
StyleStickyIcon(w) ==
  /\ Served /\ w \in DOMAIN win /\ (win[w].iconified => StrayIcons)
  /\ win' = [win EXCEPT ![w].iconSticky = ~@]
  /\ UNCHANGED <<CurrentDesk, frames, clients, icons, events>>

---------------------------------------------------------------------------
(* Icons                                                                   *)

\* The windows of a family vanish; w's own icon is created later.
Vanish(s, w, root) ==
  LET gone == UnmapIcon(UnmapFrame(UnmapClient(s, w), w), w)
      own == w = root /\ ~s.win[root].byParent
  IN  [gone EXCEPT !.win[w] =
         IF own THEN [@ EXCEPT !.mapped = FALSE, !.iconifyPending = TRUE]
         ELSE [@ EXCEPT !.mapped = FALSE, !.iconified = TRUE,
                        !.iconUnmapped = TRUE, !.byParent = TRUE]]

\* The icon is created, placed (AutoPlaceIcon) and mapped.
ShowIcon(s, w) ==
  LET f == s.win[w]
      d == IF f.iconSticky \/ f.sticky THEN s.cur ELSE f.Desk
      t == [s EXCEPT !.win[w] = [f EXCEPT !.hasIcon = TRUE, !.iconified = TRUE,
                                          !.iconUnmapped = FALSE, !.Desk = d]]
  IN  IF d = s.cur THEN MapIcon(t, w) ELSE t

\* Iconify
Iconified(s, w, order) ==
  LET f == s.win[w]
      gone == Each([s EXCEPT !.win[w].mapPending = FALSE], order,
                   LAMBDA t : t \in Family(s, w),
                   LAMBDA r, t : Vanish(r, t, w))
  IN  IF f.mapPending /\ ~Viewable(s, w)
        THEN [s EXCEPT !.win[w].iconifyAfterMap = TRUE]
      ELSE IF f.byParent THEN gone
      ELSE ShowIcon(gone, w)

Appear(s, t) ==
  LET there == MapClient(UnmapIcon(s, t), t)
      here == MapFrame(there, t)
      shown == [there.win[t] EXCEPT !.mapped = TRUE, !.byParent = FALSE,
                  !.iconified = FALSE, !.iconUnmapped = FALSE]
  IN  IF s.win[t].Desk = s.cur
        THEN [here EXCEPT !.win[t] = [shown EXCEPT !.mapPending = TRUE]]
      ELSE [there EXCEPT !.win[t] = shown]

\* The window with whose icon w was iconified
IconOf(s, w) ==
  LET Up[n \in 0 .. Cardinality(Windows), t \in Windows] ==
        IF n > 0 /\ s.win[t].byParent /\ TransientFor(s, t) # Nil
          THEN Up[n - 1, Parent[t]] ELSE t
  IN  Up[Cardinality(Windows), w]

\* DeIconify
DeIconified(s, w, order) ==
  LET top == IconOf(s, w)
  IN  IF s.win[w].mapPending /\ ~Viewable(s, w)
        THEN [s EXCEPT !.win[w].iconifyAfterMap = FALSE]
      ELSE Each([s EXCEPT !.win[w].mapPending = FALSE], order,
                LAMBDA t : t \in Family(s, top), Appear)

\* CMD_Iconify
Iconify(w, order) ==
  /\ Served /\ w \in DOMAIN win
  /\ Becomes(IF win[w].iconified THEN DeIconified(S, w, order)
             ELSE Iconified(S, w, order))

---------------------------------------------------------------------------
(* Events                                                                  *)

Post(kind, w) == Report(S, kind, w)

\* A client maps its window: the server redirects the request.
ClientMaps(w) ==
  /\ Served /\ w \notin clients /\ <<"MapRequest", w>> \notin ToSet(events)
  /\ Becomes(Post("MapRequest", w))

\* A client unmaps its window, or says so if it is not mapped.
ClientWithdraws(w) ==
  /\ Served /\ w \in DOMAIN win /\ <<"Unmap", w>> \notin ToSet(events)
  /\ Becomes(UnmapClient(Post("Unmap", w), w))

Handle(kind, w, s) ==
  /\ events # <<>> /\ Head(events) = <<kind, w>>
  /\ Becomes(s)

Rest == [S EXCEPT !.events = Tail(@)]

\* HandleMapRequestKeepRaised, when the window is in the normal state
MapNormal(s, w) ==
  IF s.win[w].Desk = s.cur
    THEN MapClient(MapFrame([s EXCEPT !.win[w].mapPending = TRUE], w), w)
    ELSE MapClient(s, w)

\* HandleMapRequestKeepRaised of a client that wants to be an icon
MapIconic(s, w, order) ==
  LET p == TransientFor(s, w)
      along == p # Nil /\ s.win[p].iconified
  IN  Iconified([s EXCEPT !.win[w].byParent = @ \/ along], w, order)

\* AddWindow: on the current desk or, for some styles and hints, on another one
Added(s, w, d, sticky, iconSticky) ==
  LET f == NewWindow(IF sticky THEN s.cur ELSE d, sticky, iconSticky)
  IN  [s EXCEPT !.win = [x \in DOMAIN @ \cup {w} |-> IF x = w THEN f ELSE @[x]]]

\* HandleMapRequestKeepRaised; fake_map_unmap_notify changes nothing
HandleMapRequest(w, d, sticky, iconSticky, iconic, order) ==
  LET new == w \notin DOMAIN win
      s == IF new THEN Added(Rest, w, d, sticky, iconSticky) ELSE Rest
  IN  /\ ~new => d = CurrentDesk /\ ~sticky /\ ~iconSticky
      /\ Handle("MapRequest", w,
           IF s.win[w].mapPending THEN s
           ELSE IF s.win[w].iconified THEN DeIconified(s, w, order)
           ELSE IF s.win[w].mapped THEN s
           ELSE IF iconic THEN MapIconic(s, w, order)
           ELSE MapNormal(s, w))

SeenMapped(s, w, order) ==
  LET f == s.win[w]
      seen == [s EXCEPT !.win[w].mapPending = FALSE]
      bare == UnmapIcon(seen, w)
      there == IF f.Desk = s.cur THEN MapFrame(bare, w) ELSE bare
      up == [there EXCEPT !.win[w] = [@ EXCEPT !.mapped = TRUE,
               !.iconified = FALSE, !.iconUnmapped = FALSE]]
      late == Iconified(up, w, order)
  IN  IF f.iconifyPending THEN seen
      ELSE IF f.iconifyAfterMap
        THEN [late EXCEPT !.win[w].iconifyAfterMap = FALSE]
      ELSE up

\* HandleMapNotify. A new frame reports that it was mapped, too: that comes
\* along with the report of the client and is handled alike.
HandleMapNotify(w, order) ==
  Handle("Map", w, IF w \in DOMAIN win THEN SeenMapped(Rest, w, order) ELSE Rest)

\* HandleUnmapNotify of a frame
HandleFrameUnmap(w) ==
  Handle("FrameUnmap", w,
    IF w \in DOMAIN win THEN [Rest EXCEPT !.win[w].iconifyPending = FALSE]
    ELSE Rest)

\* destroy_window
Destroyed(s, w) ==
  [s EXCEPT !.win = [x \in DOMAIN @ \ {w} |-> @[x]],
            !.frames = @ \ {w}, !.icons = @ \ {w}, !.clients = @ \ {w}]

\* HandleUnmapNotify of a client; it may have asked to be mapped again
HandleUnmapNotify(w) ==
  Handle("Unmap", w,
    IF w \notin DOMAIN win \/ (~win[w].mapped /\ ~win[w].iconified) THEN Rest
    ELSE Destroyed(Rest, w))

---------------------------------------------------------------------------
Init ==
  /\ CurrentDesk \in DeskNumbers
  /\ win = [w \in {} |-> NewWindow(CurrentDesk, FALSE, FALSE)]
  /\ frames = {} /\ clients = {} /\ icons = {} /\ events = <<>>

Next ==
  \/ \E d \in DeskNumbers, o \in Orders : GotoDesk(d, o)
  \/ \E w \in Windows, d \in DeskNumbers : MoveToDesk(w, d)
  \/ \E w \in Windows : StickAcrossDesks(w)
  \/ \E w \in Windows : StyleStickyIcon(w)
  \/ \E w \in Windows, o \in Orders : Iconify(w, o)
  \/ \E w \in Windows : ClientMaps(w)
  \/ \E w \in Windows : ClientWithdraws(w)
  \/ \E w \in Windows, d \in DeskNumbers, o \in Orders :
       \E sticky, iconSticky, iconic \in BOOLEAN :
         HandleMapRequest(w, d, sticky, iconSticky, iconic, o)
  \/ \E w \in Windows, o \in Orders : HandleMapNotify(w, o)
  \/ \E w \in Windows : HandleFrameUnmap(w)
  \/ \E w \in Windows : HandleUnmapNotify(w)

Spec == Init /\ [][Next]_vars

---------------------------------------------------------------------------
\* The variables have their types, and only windows that are managed have a
\* frame or an icon in the server: destroy_window leaves neither behind.
TypeOK ==
  /\ {CurrentDesk} \cup {win[w].Desk : w \in DOMAIN win} \subseteq DeskNumbers
  /\ frames \cup icons \subseteq DOMAIN win
  /\ DOMAIN win \cup clients \subseteq Windows
  /\ \A i \in DOMAIN events :
       events[i][1] \in {"Map", "MapRequest", "Unmap", "FrameUnmap"}

OnDesk(w) == win[w].Desk = CurrentDesk

\* A frame is never shown on a desk that its window is not on, together with
\* its icon, or while the window is an icon; all others are shown.
FramesRight ==
  /\ \A w \in frames :
       /\ OnDesk(w) /\ ~win[w].iconified /\ w \notin icons
       /\ win[w].mapped \/ win[w].mapPending
  /\ \A w \in DOMAIN win :
       win[w].mapped /\ ~win[w].iconified /\ OnDesk(w) => w \in frames

\* So are icons, but for those of transients that are gone with their parent.
IconsRight ==
  /\ \A w \in icons : OnDesk(w) /\ win[w].iconified
  /\ \A w \in DOMAIN win :
       win[w].iconified /\ ~win[w].iconUnmapped /\ OnDesk(w) => w \in icons

\* What is sticky is here.
StickyHere ==
  \A w \in DOMAIN win : Sticky(win[w]) /\ ~win[w].iconUnmapped => OnDesk(w)

\* What the server shows is what the desk and the flags of the windows call
\* for, after each command and each event and whatever is still to be reported.
ShownRight == FramesRight /\ IconsRight /\ StickyHere

\* A window that stops being an icon has its client in its frame; it is not a
\* late report of an earlier de-iconification that maps it: "don't map if the
\* event was caused by a de-iconify" (events.c:2868).
KeepsIcons ==
  \A w \in DOMAIN win \cap DOMAIN win' :
    win[w].iconified /\ ~win'[w].iconified => w \in clients'
IconsStay == [][KeepsIcons]_vars
===============================================================================
