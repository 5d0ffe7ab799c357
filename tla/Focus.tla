-------------------------------- MODULE Focus --------------------------------
(***************************************************************************)
(* Which window has the keyboard focus: src/mvwm/focus.c, with the event   *)
(* handlers of events.c and the parts of add_window.c, icons.c, update.c   *)
(* and virtual.c that move the focus or take windows away.                 *)
(*                                                                         *)
(* mvwm keeps six pointers to windows that have, had or will have the      *)
(* focus. A window that is destroyed while a complex function runs stays   *)
(* in memory until the function has ended.                                 *)
(*                                                                         *)
(* The X server is not modelled: clients move the focus as they like, so a *)
(* FocusIn event of any window may come at any time, and so may crossing   *)
(* events. There is one monitor; all windows are in the same layer and     *)
(* are not raised by clicks into the client.                               *)
(***************************************************************************)
EXTENDS SequencesExt, Subsequences

CONSTANTS
  Windows,       \* the windows that clients create
  Nil,           \* NULL
  Desks,         \* numbers of desks
  Policies,      \* [enter, leave, click, func, program, lenient, sortOpen,
                 \*  grab, release, input, takes, icon]: focus policies and
                 \* hints; icon: its icon has a window
  Parents        \* functions: the window that each window is transient for

ASSUME FocusAssumption ==
  /\ Nil \notin Windows
  /\ Desks # {} /\ Nil \notin Desks
  /\ Policies \subseteq [enter : BOOLEAN, leave : BOOLEAN, click : BOOLEAN,
       func : BOOLEAN, program : BOOLEAN, lenient : BOOLEAN,
       sortOpen : BOOLEAN, grab : BOOLEAN, release : BOOLEAN,
       input : BOOLEAN, takes : BOOLEAN, icon : BOOLEAN]
  /\ Parents \subseteq [Windows -> Windows \cup {Nil}]

VARIABLES
  wlist,      \* Scr.MvwmRoot.next and on
  dying,      \* Scr.FWScheduledForDestroy
  busy,       \* scr_flags.is_executing_complex_function
  mapping,    \* IS_MAP_PENDING or not mapped yet: a MapNotify is to come
  mapped,     \* IS_MAPPED
  iconic,     \* IS_ICONIFIED
  follow,     \* IS_ICONIFIED_BY_PARENT
  desk,       \* Desk of each window; Nil: there is no such window
  current,    \* CurrentDesk
  away,       \* FocusDesk; Nil: not is_focused_on_other_desk
  grabbed,    \* windows with grabbed_buttons
  policy,     \* focus policy and hints of each window
  parent,     \* FW_W_TRANSIENTFOR of each window
  focus       \* [screen, last, hilite, requested, pending, stolen: windows,
              \*  unknown: UnknownWinFocused # None,
              \*  here: is_pointer_on_this_screen]

vars == <<wlist, dying, busy, mapping, mapped, iconic, follow, desk, current,
          away, grabbed, policy, parent, focus>>

Pointers == {"screen", "last", "hilite", "requested", "pending", "stolen"}

Pointed == {focus[p] : p \in Pointers}

Live == ToSet(wlist)

(* What the functions of focus.c read and change                           *)
S == [wlist |-> wlist, iconic |-> iconic, mapped |-> mapped, desk |-> desk,
      current |-> current, away |-> away, grabbed |-> grabbed, f |-> focus]

Becomes(s) ==
  /\ wlist' = s.wlist /\ iconic' = s.iconic /\ mapped' = s.mapped
  /\ desk' = s.desk /\ current' = s.current /\ away' = s.away
  /\ grabbed' = s.grabbed /\ focus' = s.f

---------------------------------------------------------------------------
(* Policies                                                                *)

UserFocus(w) == policy[w].enter \/ policy[w].click \/ policy[w].func

AllowSet(w, by) ==
  CASE by = "enter" -> policy[w].enter
    [] by = "click" -> policy[w].click
    [] by = "function" -> policy[w].func
    [] by = "force" -> TRUE

GloballyActive(w) == ~policy[w].input /\ policy[w].takes

OnCurrentDesk(s, w) == w # Nil /\ s.desk[w] = s.current

\* __check_allow_focus
CheckAllow(s, w, by) ==
  \/ w = Nil \/ by = "force"
  \/ /\ policy[w].lenient \/ policy[w].input \/ ~OnCurrentDesk(s, s.f.screen)
     /\ AllowSet(w, by)

\* focus_query_grab_buttons
QueryGrabButtons(s, w) ==
  /\ OnCurrentDesk(s, w) /\ w \notin s.iconic
  /\ w # s.f.screen /\ policy[w].click

\* focus_grab_buttons for the windows W; not for those that die or are unmapped
GrabButtonsOf(s, W) ==
  LET can == (W \ dying) \cap s.mapped
  IN  IF can = {} THEN s
      ELSE [s EXCEPT !.grabbed =
              (@ \ can) \cup {w \in can : QueryGrabButtons(s, w)}]

GrabButtons(s, w) == GrabButtonsOf(s, {w})
GrabButtonsAll(s) == GrabButtonsOf(s, ToSet(s.wlist))

---------------------------------------------------------------------------
(* Setting the focus                                                       *)

Without(list, w) == Subsequence(list, {i \in DOMAIN list : list[i] # w})

\* __update_windowlist: rotate the list so that w is first, or pluck w out
UpdateWindowlist(s, w, by, flip) ==
  IF w = Nil \/ w = s.f.screen \/ w \in dying THEN s
  ELSE LET i == CHOOSE n \in 1 .. Len(s.wlist) : s.wlist[n] = w
           n == Len(s.wlist)
           turned == SubSeq(s.wlist, i, n) \o SubSeq(s.wlist, 1, i - 1)
           plucked == <<w>> \o Without(s.wlist, w)
       IN  [s EXCEPT !.wlist =
              IF ~flip /\ (policy[w].sortOpen \/ by = "function")
                THEN turned ELSE plucked]

\* FOCUS_SET and set_focus_window
Give(s, w) == [s EXCEPT !.f.requested = w, !.f.screen = w, !.f.unknown = FALSE]

\* __set_focus_to_fwin
TryFocus(s, w, by, flip, noWarp) ==
  LET t == UpdateWindowlist(s, w, by, flip)
      hidden == w # Nil /\ ~noWarp /\ w \in s.iconic /\ ~policy[w].icon
  IN  IF (w # Nil /\ ~UserFocus(w)) \/ ~CheckAllow(s, w, by) THEN s
      ELSE IF w = Nil /\ ~s.f.here
        THEN GrabButtons([t EXCEPT !.f.screen = Nil], s.f.screen)
      ELSE IF w = Nil \/ hidden THEN Give(t, Nil)
      ELSE IF policy[w].lenient \/ policy[w].input THEN Give(t, w)
      ELSE IF OnCurrentDesk(t, t.f.screen) THEN t
      ELSE [t EXCEPT !.f.requested = Nil, !.f.screen = Nil]

\* set_focus_to_fwin
SetFocusTo(s, w, by, flip, noWarp, force) ==
  IF ~force /\ w = s.f.screen THEN GrabButtons(s, w)
  ELSE LET t == TryFocus(s, w, by, flip, noWarp)
       IN  GrabButtonsOf(t, {w, t.f.screen})

SetFocusWindow(s, w, by) == SetFocusTo(s, w, by, FALSE, FALSE, TRUE)
ReturnFocusWindow(s, w) == SetFocusTo(s, w, "force", FALSE, TRUE, FALSE)
DeleteFocus(s) == SetFocusTo(s, Nil, "force", FALSE, FALSE, FALSE)
ForceDeleteFocus(s) == SetFocusTo(s, Nil, "force", FALSE, FALSE, TRUE)

\* border_draw_decorations as far as it moves the highlight
Highlight(s, w, has) ==
  IF w = Nil THEN s
  ELSE IF has THEN [s EXCEPT !.f.hilite = w]
  ELSE IF s.f.hilite = w THEN [s EXCEPT !.f.hilite = Nil] ELSE s

\* get_transientfor_mvwmwindow
TransientFor(s, w) ==
  IF parent[w] \in ToSet(s.wlist) THEN parent[w] ELSE Nil

\* The positions behind w in the list, if it is there; the first of some
LaterInList(s, w) ==
  {j \in DOMAIN s.wlist : \E i \in 1 .. j - 1 : s.wlist[i] = w}

FirstAt(list, at) == list[CHOOSE i \in at : \A j \in at : i <= j]

\* variant: the next window in the list, on whatever desk
RestoreFocusAnyDesk(s, w, skip) ==
  LET later == LaterInList(s, w)
      to == IF later = {} THEN Nil ELSE FirstAt(s.wlist, later)
      given == IF to = Nil THEN s ELSE SetFocusWindow(s, to, "force")
  IN  IF w # s.f.screen THEN s
      ELSE IF given.f.screen = w THEN DeleteFocus(given) ELSE given

\* restore_focus_after_unmap: to the window that w is transient for or to the
\* next one in the list; w has no next one when it was taken out of the list
RestoreFocus(s, w, skip) ==
  LET t == TransientFor(s, w)
      nexts == {i \in LaterInList(s, w) : /\ s.desk[s.wlist[i]] = s.desk[w]
                                          /\ s.wlist[i] \notin skip}
      to == IF t # Nil
              THEN IF /\ policy[w].release /\ s.desk[t] = s.desk[w]
                      /\ t \notin skip THEN t ELSE Nil
              ELSE IF policy[w].release /\ nexts # {} THEN FirstAt(s.wlist, nexts)
              ELSE Nil
      given == IF to = Nil THEN s ELSE SetFocusWindow(s, to, "force")
  IN  IF w # s.f.screen THEN s
      ELSE IF given.f.screen = w THEN DeleteFocus(given) ELSE given

\* focus_query_open_grab_focus
OpensWithFocus(s, w) ==
  /\ policy[w].grab
  /\ TransientFor(s, w) # Nil => s.f.screen = TransientFor(s, w)

---------------------------------------------------------------------------
(* FocusIn                                                                 *)

\* variant: the buttons of the old and the new window are left alone
FocusInNoGrab(s, w, draw) ==
  LET lit == IF UserFocus(w) THEN [s EXCEPT !.f.hilite = w] ELSE s
  IN  IF w = s.f.hilite /\ ~UserFocus(w) /\ ~draw THEN s
      ELSE [lit EXCEPT !.f.stolen = s.f.screen, !.f.screen = w]

\* HandleFocusIn for a window of mvwm: draw says whether the broadcast of the
\* focus is due whatever has changed
FocusInManaged(s, w, draw) ==
  LET lit == IF UserFocus(w) THEN [s EXCEPT !.f.hilite = w] ELSE s
      t == [lit EXCEPT !.f.stolen = s.f.screen, !.f.screen = w]
  IN  IF w = s.f.hilite /\ ~UserFocus(w) /\ ~draw THEN s
      ELSE IF w = s.f.screen THEN t
      ELSE GrabButtonsOf(t, {w, s.f.screen})

\* HandleFocusIn for any other: the NoFocusWin of mvwm, or not
FocusInUnmanaged(s, isNoFocusWin) ==
  LET t == IF isNoFocusWin THEN s
           ELSE [s EXCEPT !.f.unknown = TRUE, !.f.stolen = s.f.screen]
  IN  [t EXCEPT !.f.hilite = Nil]

\* __refocus_stolen_focus_win: it pretends that the window got the focus; the
\* event for a window that is scheduled for destruction is dropped
RefocusStolen(s, draw) ==
  LET w == s.f.stolen
      t == [s EXCEPT !.f.requested = w, !.f.unknown = FALSE, !.f.stolen = Nil]
  IN  IF w = Nil THEN [t EXCEPT !.f.pending = Nil]
      ELSE IF w \in dying THEN t
      ELSE FocusInManaged([t EXCEPT !.f.pending = Nil], w, draw)

\* HandleFocusIn with the last of the FocusIn events that have arrived
FocusInWindow(s, w, draw) ==
  LET t == [s EXCEPT !.f.pending = Nil, !.f.unknown = FALSE]
  IN  IF s.f.requested # w /\ ~policy[w].program /\ GloballyActive(w)
        THEN RefocusStolen([t EXCEPT !.f.requested = Nil], draw)
        ELSE FocusInManaged(t, w, draw)

\* (dispatch_event drops a FocusIn event for the icon of a window that is
\* scheduled for destruction, but not when it is taken up after another one)
FocusIn(w) ==
  /\ w \in Live \cup {x \in dying \cap iconic : policy[x].icon}
  /\ \E draw \in BOOLEAN : Becomes(FocusInWindow(S, w, draw))
  /\ UNCHANGED <<dying, busy, mapping, follow, policy, parent>>

FocusInOther(isNoFocusWin) ==
  /\ LET t == [S EXCEPT !.f.pending = Nil, !.f.unknown = FALSE]
     IN  Becomes(FocusInUnmanaged(t, isNoFocusWin))
  /\ UNCHANGED <<dying, busy, mapping, follow, policy, parent>>

\* HandleFocusOut for the unmanaged window
FocusOut ==
  /\ focus.unknown /\ focus.stolen # Nil
  /\ \E draw \in BOOLEAN : Becomes(RefocusStolen(S, draw))
  /\ UNCHANGED <<dying, busy, mapping, follow, policy, parent>>

---------------------------------------------------------------------------
(* The pointer                                                             *)

Refocused(s, sf, draw) ==
  IF s.f.unknown /\ sf # Nil /\ sf = s.f.stolen
    THEN RefocusStolen(s, draw) ELSE s

\* HandleEnterNotify for a window
EnterWindow(w) ==
  /\ w \in Live \cap mapped /\ desk[w] = current /\ w \notin iconic
  /\ IF focus.pending # Nil THEN Becomes(GrabButtons(S, w))
     ELSE LET here == [S EXCEPT !.f.here = TRUE]
              sf == focus.screen
              left == IF sf \notin {Nil, w} /\ policy[sf].leave
                        THEN DeleteFocus(here) ELSE here
              held == GrabButtons(left, w)
              given == IF policy[w].enter THEN SetFocusWindow(held, w, "enter")
                       ELSE IF held.f.screen = w /\ policy[w].input
                         THEN [held EXCEPT !.f.requested = Nil]
                       ELSE IF sf # w THEN GrabButtons(held, sf) ELSE held
          IN  \E draw \in BOOLEAN :
                Becomes(Refocused(given, sf, draw))
  /\ UNCHANGED <<dying, busy, mapping, follow, policy, parent>>

\* HandleEnterNotify for the root window
EnterRoot ==
  /\ focus.pending = Nil
  /\ \E draw \in BOOLEAN :
       LET back == [S EXCEPT !.f.here = TRUE]
           last == focus.last
           given == IF last # Nil /\ ~policy[last].leave
                      THEN SetFocusWindow(back, last, "force")
                      ELSE ForceDeleteFocus(back)
           s == IF ~focus.here THEN [given EXCEPT !.f.last = Nil]
                ELSE IF focus.screen = Nil \/ policy[focus.screen].leave
                  THEN DeleteFocus(S)
                ELSE Refocused(S, focus.screen, draw)
       IN  Becomes(GrabButtons(s, last))
  /\ UNCHANGED <<dying, busy, mapping, follow, policy, parent>>

\* HandleLeaveNotify: the pointer goes to another screen
LeaveScreen ==
  /\ LET gone == [S EXCEPT !.f.here = FALSE, !.f.last = focus.screen]
         s == IF focus.screen = Nil THEN gone ELSE DeleteFocus(gone)
     IN  Becomes(Highlight(s, s.f.hilite, FALSE))
  /\ UNCHANGED <<dying, busy, mapping, follow, policy, parent>>

\* __handle_click_to_focus
Click(w) ==
  /\ w \in Live \cap mapped /\ desk[w] = current
  /\ LET s == GrabButtons(SetFocusWindow(S, w, "click"), w)
     IN  Becomes(IF s.f.screen = w /\ w \notin iconic THEN Highlight(s, w, TRUE)
                 ELSE s)
  /\ UNCHANGED <<dying, busy, mapping, follow, policy, parent>>

---------------------------------------------------------------------------
(* Desks                                                                   *)

\* UnmapDesk: remember which window had the focus
LeaveDesk(s) ==
  LET on == {w \in ToSet(s.wlist) : s.desk[w] = s.current}
      flagged == [s EXCEPT !.away = [w \in Windows |->
                    IF w \notin on THEN @[w]
                    ELSE IF w = s.f.screen THEN s.current ELSE Nil]]
  IN  IF s.f.screen \in on THEN DeleteFocus(flagged) ELSE flagged

\* MapDesk: the last window in the list that is remembered gets the focus
EnterDesk(s, d) ==
  LET back == {i \in DOMAIN s.wlist : s.away[s.wlist[i]] = d}
      w == s.wlist[CHOOSE i \in back : \A j \in back : j <= i]
      there == {x \in ToSet(s.wlist) : s.desk[x] = d /\ x \notin s.iconic}
      lit == [s EXCEPT !.current = d,
                       !.away = [x \in Windows |->
                         IF x \in ToSet(s.wlist) /\ @[x] = d THEN Nil ELSE @[x]],
                       !.f.hilite = IF s.f.screen \in there THEN s.f.screen
                                    ELSE IF @ \in there THEN Nil ELSE @]
  IN  IF back = {} THEN lit
      ELSE IF ~policy[w].leave THEN ReturnFocusWindow(lit, w)
      ELSE DeleteFocus(lit)

\* goto_desk
Goto(s, d) ==
  IF d = s.current THEN s ELSE GrabButtonsAll(EnterDesk(LeaveDesk(s), d))

GotoDesk(d) ==
  /\ d # current
  /\ Becomes(Goto(S, d))
  /\ UNCHANGED <<dying, busy, mapping, follow, policy, parent>>

\* do_move_window_to_desk
MoveToDesk(w, d) ==
  /\ w \in Live /\ d # desk[w]
  /\ LET moved == [S EXCEPT !.desk[w] = d]
         s == IF desk[w] = current /\ w = focus.screen THEN DeleteFocus(moved)
              ELSE IF d = current /\ w \notin iconic /\ w \in mapped
                THEN Highlight(moved, w, w = focus.screen) ELSE moved
     IN  Becomes(GrabButtonsAll(s))
  /\ UNCHANGED <<dying, busy, mapping, follow, policy, parent>>

(* Focus and FlipFocus: a window on another desk is gone to first. The      *)
(* window that had the focus becomes focus_in_pending_window. A complex     *)
(* function may go on with commands for a window that has been destroyed.   *)
FocusCommand(w, flip, noWarp) ==
  /\ w \in Live \/ (busy /\ w \in dying)
  /\ IF ~policy[w].func
       THEN Becomes(SetFocusTo(S, w, "function", flip, TRUE, FALSE))
     ELSE LET t == IF noWarp THEN S ELSE Goto(S, desk[w])
              s == SetFocusTo(t, w, "function", flip, noWarp, FALSE)
          IN  IF ~OnCurrentDesk(t, w) THEN Becomes(t)
              ELSE IF s.f.screen = t.f.screen THEN Becomes(s)
              ELSE Becomes([s EXCEPT !.f.pending = t.f.screen])
  /\ UNCHANGED <<dying, busy, mapping, follow, policy, parent>>

---------------------------------------------------------------------------
(* Windows come and go                                                     *)

\* AddWindow
AddWindow(w, d) ==
  /\ w \notin Live \cup dying
  /\ Becomes([S EXCEPT !.wlist = Append(@, w), !.desk[w] = d])
  /\ mapping' = mapping \cup {w}
  /\ UNCHANGED <<dying, busy, follow, policy, parent>>

\* HandleMapNotify
MapNotify(w) ==
  /\ w \in Live \cap mapping
  /\ LET open == OnCurrentDesk(S, w) /\ OpensWithFocus(S, w)
         given == IF open THEN SetFocusWindow(S, w, "force") ELSE S
         lit == Highlight(given, w, w = given.f.screen)
     IN  Becomes(GrabButtonsAll([lit EXCEPT !.mapped = @ \cup {w},
                                            !.iconic = @ \ {w}]))
  /\ mapping' = mapping \ {w}
  /\ UNCHANGED <<dying, busy, follow, policy, parent>>

\* HandleMapNotify for a window that mvwm does not manage
MapUnmanaged ==
  /\ Becomes([S EXCEPT !.f.unknown = TRUE])
  /\ UNCHANGED <<dying, busy, mapping, follow, policy, parent>>

\* variant: the window that had the focus on another screen is not forgotten
AdjustButLast(s, w) ==
  LET t == RestoreFocus([s EXCEPT !.f.hilite = IF @ = w THEN Nil ELSE @], w, {})
  IN  [t EXCEPT !.f = [p \in DOMAIN t.f |->
         IF p \in {"stolen", "pending", "requested"} /\ t.f[p] = w
           THEN Nil ELSE t.f[p]]]

\* adjust_mvwm_internal_windows
AdjustInternal(s, w) ==
  LET lit == [s EXCEPT !.f.hilite = IF @ = w THEN Nil ELSE @,
                       !.f.last = IF @ = w THEN Nil ELSE @]
      t == RestoreFocus(lit, w, {})
  IN  [t EXCEPT !.f = [p \in DOMAIN t.f |->
         IF p \in {"stolen", "pending", "requested"} /\ t.f[p] = w
           THEN Nil ELSE t.f[p]]]

\* variant: an icon is not forgotten
ForgetButIcon(s, W) ==
  [s EXCEPT !.mapped = @ \ W, !.grabbed = @ \ W,
            !.desk = [w \in Windows |-> IF w \in W THEN Nil ELSE @[w]],
            !.away = [w \in Windows |-> IF w \in W THEN Nil ELSE @[w]]]

\* The windows are freed.
Forget(s, W) ==
  [s EXCEPT !.mapped = @ \ W, !.iconic = @ \ W, !.grabbed = @ \ W,
            !.desk = [w \in Windows |-> IF w \in W THEN Nil ELSE @[w]],
            !.away = [w \in Windows |-> IF w \in W THEN Nil ELSE @[w]]]

(* destroy_window, from the state s: during a complex function the window   *)
(* is only taken out of the list                                            *)
DestroyFrom(s, w) ==
  LET out == [s EXCEPT !.wlist = Without(@, w)]
      t == GrabButtonsAll(AdjustInternal(out, w))
  IN  /\ Becomes(IF busy THEN t ELSE Forget(t, {w}))
      /\ dying' = IF busy THEN dying \cup {w} ELSE dying
      /\ mapping' = mapping \ {w}
      /\ follow' = follow \ {w}

\* CMD_Destroy, HandleDestroyNotify
Destroy(w) ==
  /\ w \in Live
  /\ DestroyFrom(S, w)
  /\ UNCHANGED <<busy, policy, parent>>

\* HandleUnmapNotify
UnmapNotify(w) ==
  /\ w \in Live
  /\ LET s == RestoreFocus([S EXCEPT !.f.hilite = IF @ = w THEN Nil ELSE @],
                           w, {})
     IN  IF w \in mapped \cup iconic THEN DestroyFrom(s, w)
         ELSE Becomes(s) /\ UNCHANGED <<dying, mapping, follow>>
  /\ UNCHANGED <<busy, policy, parent>>

\* execute_complex_function
BeginFunction ==
  /\ ~busy /\ busy' = TRUE
  /\ UNCHANGED <<wlist, dying, mapping, mapped, iconic, follow, desk, current,
                 away, grabbed, policy, parent, focus>>

EndFunction ==
  /\ busy /\ busy' = FALSE
  /\ UNCHANGED <<wlist, dying, mapping, mapped, iconic, follow, desk, current,
                 away, grabbed, policy, parent, focus>>

\* destroy_scheduled_windows
DestroyScheduled ==
  /\ ~busy /\ dying # {}
  /\ Becomes(GrabButtonsAll(Forget(S, dying)))
  /\ dying' = {}
  /\ UNCHANGED <<busy, mapping, follow, policy, parent>>

---------------------------------------------------------------------------
(* Icons                                                                   *)

\* w and the windows that are transient for it, directly or not
Family(s, w) ==
  LET leads[n \in 0 .. Len(s.wlist)] ==
        IF n = 0 THEN {w}
        ELSE leads[n - 1] \cup
             {x \in ToSet(s.wlist) : TransientFor(s, x) \in leads[n - 1]}
  IN  leads[Len(s.wlist)] \cap ToSet(s.wlist)

\* Iconify; while a MapNotify is to come it is put off until then
Iconify(w) ==
  /\ w \in Live \ (iconic \cup mapping)
  /\ LET kin == Family(S, w)
         s == IF focus.screen \in kin THEN RestoreFocus(S, focus.screen, kin)
              ELSE S
         hid == [s EXCEPT !.mapped = @ \ kin, !.iconic = @ \cup kin,
                          !.f.hilite = IF @ \in kin THEN Nil ELSE @]
     IN  /\ Becomes(GrabButtonsAll(hid))
         /\ follow' = follow \cup (kin \ {w})
  /\ UNCHANGED <<dying, busy, mapping, policy, parent>>

\* DeIconify of a window that its parent does not take along
DeIconify(w) ==
  /\ w \in (Live \cap iconic) \ mapping
  /\ w \in follow => TransientFor(S, w) = Nil
  /\ LET sf == focus.screen
         s == IF sf = w THEN DeleteFocus(S) ELSE S
         kin == Family(s, w)
         shown == [s EXCEPT !.mapped = @ \cup kin, !.iconic = @ \ kin,
                            !.f.hilite = IF @ \in kin THEN Nil ELSE @]
         given == IF (sf = w /\ ~policy[w].leave) \/ (sf # w /\ policy[w].sortOpen)
                    THEN SetFocusWindow(shown, w, "force") ELSE shown
     IN  /\ Becomes(GrabButtonsAll(given))
         /\ follow' = follow \ kin
         /\ mapping' = mapping \cup {x \in kin : desk[x] = current}
  /\ UNCHANGED <<dying, busy, policy, parent>>

---------------------------------------------------------------------------
Init ==
  /\ wlist = <<>> /\ dying = {} /\ busy = FALSE
  /\ mapping = {} /\ mapped = {} /\ iconic = {} /\ follow = {}
  /\ current \in Desks
  /\ desk = [w \in Windows |-> Nil]
  /\ away = [w \in Windows |-> Nil]
  /\ grabbed = {}
  /\ policy \in [Windows -> Policies]
  /\ parent \in Parents
  /\ focus = [p \in Pointers \cup {"unknown", "here"} |->
                IF p \in Pointers THEN Nil ELSE p = "here"]

Step ==
  \/ \E w \in Windows :
       \/ \E d \in Desks : AddWindow(w, d) \/ MoveToDesk(w, d)
       \/ MapNotify(w)
       \/ UnmapNotify(w)
       \/ Destroy(w)
       \/ FocusIn(w)
       \/ EnterWindow(w)
       \/ Click(w)
       \/ \E flip, noWarp \in BOOLEAN : FocusCommand(w, flip, noWarp)
       \/ Iconify(w)
       \/ DeIconify(w)
  \/ \E isNoFocusWin \in BOOLEAN : FocusInOther(isNoFocusWin)
  \/ FocusOut
  \/ EnterRoot
  \/ LeaveScreen
  \/ MapUnmanaged
  \/ \E d \in Desks : GotoDesk(d)
  \/ BeginFunction
  \/ EndFunction
  \/ DestroyScheduled

(* A pointer to a window that is freed may be followed by any handler: what *)
(* happens then is undefined, and the model ends there.                     *)
Next ==
  /\ Pointed \subseteq Live \cup dying \cup {Nil}
  /\ Step

Spec == Init /\ [][Next]_vars

---------------------------------------------------------------------------
\* The variables have their types, and each window is in the list once.
TypeOK ==
  /\ wlist \in Seq(Windows) /\ Len(wlist) = Cardinality(Live)
  /\ dying \subseteq Windows \ Live /\ busy \in BOOLEAN
  /\ mapping \subseteq Live /\ follow \subseteq Live
  /\ {mapped, iconic, grabbed} \subseteq SUBSET (Live \cup dying)
  /\ current \in Desks /\ desk \in [Windows -> Desks \cup {Nil}]
  /\ away \in [Windows -> Desks \cup {Nil}]
  /\ DOMAIN focus = Pointers \cup {"unknown", "here"}
  /\ Pointed \subseteq Windows \cup {Nil}
  /\ {focus.unknown, focus.here} \subseteq BOOLEAN

(* What gives the focus to a window although it has been destroyed          *)
GivesDying(w) ==
  /\ w \in dying
  /\ FocusIn(w) \/ \E flip, noWarp \in BOOLEAN : FocusCommand(w, flip, noWarp)

\* Destroying a window, at once or when the complex function has ended, leaves
\* no pointer to it (the promise of restore_focus_after_unmap and of
\* adjust_mvwm_internal_windows), and no pointer finds it later, unless a
\* command of the function gives it the focus or its icon reports it.
ForgetsGone ==
  \A w \in Windows \ ToSet(wlist') :
    w \in Pointed' => w \in Pointed \ Live \/ GivesDying(w)
PointersKept == [][ForgetsGone]_vars

\* (so a pointer may outlive its window)
PointersLive == Pointed \subseteq Live \cup dying \cup {Nil}

\* The buttons are never grabbed on the focused window while it can be clicked:
\* the application gets the clicks into the window that has the focus.
FocusedGetsClicks ==
  LET w == focus.screen
  IN  w \in Live \cap mapped /\ w \notin iconic /\ desk[w] = current
        => w \notin grabbed

\* When the window with the focus goes away, the focus is not handed to a
\* window on another desk (__restore_focus_after_unmap).
RestoresOnDesk ==
  focus.screen \in Live \ ToSet(wlist') =>
    focus'.screen = Nil \/ desk'[focus'.screen] = desk[focus.screen]
RestoredOnDesk == [][RestoresOnDesk]_vars

\* Going to a desk never gives the focus to a window that is not there
\* (virtual.c: "Keep track of the last-focused window on the new desk").
FocusesOnNewDesk ==
  current' # current /\ focus'.screen # focus.screen =>
    focus'.screen = Nil \/ desk'[focus'.screen] = current'
FocusOnNewDesk == [][FocusesOnNewDesk]_vars
===============================================================================
