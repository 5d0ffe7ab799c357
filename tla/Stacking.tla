------------------------------ MODULE Stacking ------------------------------
(***************************************************************************)
(* The stacking order of windows: src/mvwm/stack.c with the parts of       *)
(* add_window.c, icons.c and events.c that change it, and the copy of the  *)
(* order that a pager keeps (src/modules/MvwmPager/MvwmPager.c).           *)
(*                                                                         *)
(* Three sequences, top first, must agree: the stack ring of MvwmWindows,  *)
(* the frames in the X server, and the mini windows of the pager, which is *)
(* told by M_RAISE_WINDOW, M_LOWER_WINDOW and M_RESTACK. Packets arrive in *)
(* order, so the pager is shown as it is when it has read them all. All    *)
(* windows have the style NoIcon: icon windows are put in line only when   *)
(* they are drawn.                                                         *)
(***************************************************************************)
EXTENDS Integers, Sequences, FiniteSets, SequencesExt

CONSTANTS
  Windows,      \* the windows that clients create
  Nil,          \* no window; as a neighbour in the ring: Scr.MvwmRoot
  Root,         \* WM_TRANSIENT_FOR the root window
  MaxLayer,     \* layers are 0 .. MaxLayer
  Styles,       \* [raise, lower, stack]: RaiseTransient, LowerTransient,
                \* StackTransientParent
  MayRetarget,  \* clients change WM_TRANSIENT_FOR of mapped windows
  MayLoop,      \* clients map windows that are transient for each other
  MaySkipQuery  \* no button grab may need to know whether a window is on top

ASSUME StackingAssumption ==
  /\ Nil \notin Windows /\ Root \notin Windows /\ Nil # Root
  /\ MaxLayer \in Nat
  /\ Styles \subseteq [raise : BOOLEAN, lower : BOOLEAN, stack : BOOLEAN]
  /\ {MayRetarget, MayLoop, MaySkipQuery} \subseteq BOOLEAN

VARIABLES
  ring,     \* Scr.MvwmRoot.stack_next and on
  server,   \* the frames in the server, top first
  pager,    \* the windows in the order of the pager's mini windows
  layer,    \* layer of each window
  iconic,   \* IS_ICONIFIED
  follow,   \* IS_ICONIFIED_BY_PARENT
  parent,   \* FW_W_TRANSIENTFOR; Nil: not IS_TRANSIENT
  style,    \* the style of each window
  tree      \* is_in_transient_subtree, scratch of all windows, and
            \* Scr.MvwmRoot.scratch.i (primed)

vars == <<ring, server, pager, layer, iconic, follow, parent, style, tree>>

(***************************************************************************)
(* One call changes several of these, step by step: operators take and     *)
(* return the record of all that is restacked.                             *)
(***************************************************************************)
Scr == [ring |-> ring, server |-> server, pager |-> pager, layer |-> layer,
        iconic |-> iconic, parent |-> parent, tree |-> tree]

Becomes(s) ==
  /\ ring' = s.ring /\ server' = s.server /\ pager' = s.pager
  /\ layer' = s.layer /\ iconic' = s.iconic /\ parent' = s.parent
  /\ tree' = s.tree

NoTree == [primed |-> FALSE, marks |-> {}, tf |-> [w \in Windows |-> Nil],
           pos |-> [w \in Windows |-> 0]]

---------------------------------------------------------------------------
(* Sequences of windows                                                    *)

Without(q, S) == SelectSeq(q, LAMBDA x : x \notin S)

Index(q, x) == CHOOSE i \in 1 .. Len(q) : q[i] = x

NextIn(q, x) ==
  IF x = Nil THEN (IF q = <<>> THEN Nil ELSE q[1])
  ELSE IF Index(q, x) = Len(q) THEN Nil ELSE q[Index(q, x) + 1]

PrevIn(q, x) ==
  IF x = Nil THEN (IF q = <<>> THEN Nil ELSE q[Len(q)])
  ELSE IF Index(q, x) = 1 THEN Nil ELSE q[Index(q, x) - 1]

\* insert the sequence g before x, at the end if x is Nil
InsertBefore(q, g, x) ==
  LET i == IF x = Nil THEN Len(q) + 1 ELSE Index(q, x)
  IN  SubSeq(q, 1, i - 1) \o g \o SubSeq(q, i, Len(q))

\* XConfigureWindow with a sibling, XRaiseWindow, XLowerWindow
Below(q, x, sib) == InsertBefore(Without(q, {x}), <<x>>,
                                 NextIn(Without(q, {x}), sib))
Above(q, x, sib) == InsertBefore(Without(q, {x}), <<x>>, sib)
ToTop(q, x) == <<x>> \o Without(q, {x})
ToBottom(q, x) == Without(q, {x}) \o <<x>>

\* XRestackWindows: the first stays, each of the others goes below the last
XRestack(q, wins) ==
  FoldLeft(LAMBDA acc, i : Below(acc, wins[i], wins[i - 1]), q,
           [i \in 1 .. Len(wins) - 1 |-> i + 1])

---------------------------------------------------------------------------
(* The pager and the packets it gets                                       *)

PagerRaise(s, w) == [s EXCEPT !.pager = ToTop(@, w)]
PagerLower(s, w) == [s EXCEPT !.pager = ToBottom(@, w)]
PagerRestack(s, g) == [s EXCEPT !.pager = XRestack(@, g)]

\* variant: M_RESTACK does not raise the first window
BroadcastRestackNoRaise(s, s1, s2) ==
  LET to == IF s2 = Nil THEN PrevIn(s.ring, Nil) ELSE s2
      from == IF s1 = Nil THEN NextIn(s.ring, Nil) ELSE s1
  IN  IF to = Nil \/ from = to THEN s
      ELSE PagerRestack(s, SubSeq(s.ring, Index(s.ring, from),
             IF Index(s.ring, to) >= Index(s.ring, from)
               THEN Index(s.ring, to) ELSE Len(s.ring)))

\* s1 and s2 are windows or Nil; M_RESTACK names all from s1 to s2
BroadcastRestack(s, s1, s2) ==
  LET to == IF s2 = Nil THEN PrevIn(s.ring, Nil) ELSE s2
      from == IF s1 = Nil THEN NextIn(s.ring, Nil) ELSE s1
      told == IF s1 = Nil THEN PagerRaise(s, from) ELSE s
  IN  IF to = Nil THEN s
      ELSE IF from = to \/ (s1 = Nil /\ NextIn(s.ring, from) = to) THEN told
      ELSE PagerRestack(told, SubSeq(s.ring, Index(s.ring, from),
             IF Index(s.ring, to) >= Index(s.ring, from)
               THEN Index(s.ring, to) ELSE Len(s.ring)))

BroadcastRestackAllWindows(s) ==
  BroadcastRestack(s, NextIn(s.ring, Nil), PrevIn(s.ring, Nil))

---------------------------------------------------------------------------
(* Transients                                                              *)

IsTransient(s, w) == s.parent[w] # Nil

\* get_transientfor_mvwmwindow
TransientFor(s, w) ==
  IF s.parent[w] \in ToSet(s.ring) \ {w} THEN s.parent[w] ELSE Nil

InLayer(s, l) == SelectSeq(s.ring, LAMBDA w : s.layer[w] = l)

\* __is_restack_transients_needed
Needed(w, mode) ==
  \/ style[w].raise /\ mode \in {"raise", "restack"}
  \/ style[w].lower /\ mode \in {"lower", "restack"}

\* __mark_transient_subtree_test and its effect
MarkTest(s, w, mode, ignoreIcons) ==
  LET r == s.tree.tf[w] IN
  /\ w \notin s.tree.marks /\ IsTransient(s, w)
  /\ ignoreIcons => w \notin s.iconic
  /\ r # Nil /\ r \in s.tree.marks
  /\ mode = "all" \/ Needed(r, mode)

Marked(s, w) ==
  [s EXCEPT !.tree.marks = @ \cup {w},
            !.tree.pos[w] = @ + s.tree.pos[s.tree.tf[w]] + 1]

\* forget the marks; look up the windows that those of layer l (Nil: all
\* layers) are transient for
CleanTree(s, l) ==
  [s EXCEPT !.tree.marks = {},
            !.tree.tf = [w \in Windows |->
               IF w \in ToSet(s.ring) /\ IsTransient(s, w)
                  /\ (l = Nil \/ s.layer[w] = l)
                 THEN TransientFor(s, w) ELSE Nil]]

MarkTransientSubtree(s, t, l, mode, ignoreIcons) ==
  LET clean == IF s.tree.primed THEN s ELSE CleanTree(s, l)
      among == IF l = Nil THEN s.ring ELSE InLayer(s, l)
      Scan(a, w) == IF MarkTest(a, w, mode, ignoreIcons)
                      THEN Marked(a, w) ELSE a
  IN  FoldLeft(LAMBDA a, i : FoldLeft(Scan, a, among),
               [clean EXCEPT !.tree.marks = @ \cup {t}, !.tree.primed = FALSE],
               among)

---------------------------------------------------------------------------
(* Is anything out of place?                                               *)

\* is_transient_subtree_straight: the transients of t are right above t, in
\* the order of their scratch.i, none is below t, and t is at the bottom of
\* its layer or at its top but for them. It leaves the marks it has set and
\* asks the next mark_transient_subtree to keep them.
Straight(s, t, mode) ==
  LET l == s.layer[t]
      among == InLayer(s, l)
      up == Reverse(SubSeq(among, 1, Index(among, t) - 1))
      under == Reverse(SubSeq(among, Index(among, t) + 1, Len(among)))
      clean == [CleanTree(s, l) EXCEPT !.tree.marks = {t}, !.tree.primed = TRUE]
      Climb(a, w) ==
        IF ~a.ok \/ (a.gap /\ mode = "raise") THEN a
        ELSE IF MarkTest(a.s, w, mode, TRUE)
          THEN LET m == Marked(a.s, w) IN
               [s |-> m, gap |-> a.gap, last |-> {m.tree.pos[w]},
                ok |-> ~a.gap /\ \A i \in a.last : m.tree.pos[w] >= i]
          ELSE [a EXCEPT !.gap = TRUE]
      Check(a, w) ==
        IF a.ok /\ MarkTest(a.s, w, mode, TRUE)
          THEN [s |-> Marked(a.s, w), ok |-> FALSE] ELSE a
      Under(top) ==
        IF ~top.ok \/ (top.gap /\ mode = "raise")
          THEN [s |-> top.s, ok |-> FALSE]
        ELSE FoldLeft(Check, [s |-> top.s, ok |-> TRUE], under)
  IN  IF mode = "lower" /\ under # <<>> THEN [s |-> clean, ok |-> FALSE]
      ELSE Under(FoldLeft(Climb, [s |-> clean, gap |-> FALSE, last |-> {},
                                  ok |-> TRUE], up))

\* __must_move_transients
MustMoveTransients(s, t, mode) ==
  LET among == InLayer(s, s.layer[t]) IN
  /\ t \notin s.iconic /\ Needed(t, mode)
  /\ \/ mode = "raise" /\ among[1] # t
     \/ \E q \in ToSet(among) : s.parent[q] = t

\* __is_restack_needed, with the state that the test leaves
IsRestackNeeded(s, t, mode, transients, isNew) ==
  LET Neighbour(n) == n # Nil /\ s.layer[n] = s.layer[t]
      Unless(straight) == [straight EXCEPT !.ok = ~@]
  IN  IF isNew \/ mode = "restack" THEN [s |-> s, ok |-> TRUE]
      ELSE IF transients
        THEN Unless(Straight(s, t, mode))
      ELSE [s |-> s, ok |-> Neighbour(IF mode = "lower" THEN NextIn(s.ring, t)
                                      ELSE PrevIn(s.ring, t))]

---------------------------------------------------------------------------
(* Restacking                                                              *)

\* variant: the first window is not put in its place before the others
RestackWindowListUnplaced(s, r, x, all, doLower) ==
  LET from == IF r = Nil THEN 1 ELSE Index(s.ring, r) + 1
      to == IF x = Nil THEN Len(s.ring) ELSE Index(s.ring, x) - 1
      done == [s EXCEPT !.server = XRestack(@, SubSeq(s.ring, from, to))]
  IN  IF all THEN BroadcastRestackAllWindows(done)
      ELSE BroadcastRestack(done, r, x)

\* __restack_window_list: bring the windows between r and x in line
RestackWindowList(s, r, x, all, doLower) ==
  LET from == IF r = Nil THEN 1 ELSE Index(s.ring, r) + 1
      to == IF x = Nil THEN Len(s.ring) ELSE Index(s.ring, x) - 1
      first == s.ring[from]
      placed == IF r # Nil THEN Below(s.server, first, r)
                ELSE IF x # Nil THEN Above(s.server, first, x)
                ELSE IF doLower THEN ToTop(s.server, first)
                ELSE ToBottom(s.server, first)
      done == [s EXCEPT !.server =
                 XRestack(placed, SubSeq(s.ring, from, to))]
  IN  IF all THEN BroadcastRestackAllWindows(done)
      ELSE BroadcastRestack(done, r, x)

ResyncXStackingOrder(s) ==
  BroadcastRestackAllWindows(
    [s EXCEPT !.server = XRestack(@, s.ring)])

\* variant: a lowered window goes below the next lower layer
InsertAfterLower(s, t, mode) ==
  LET test == IF mode = "lower" THEN s.layer[t] - 1 ELSE s.layer[t]
      low == SelectSeq(Without(s.ring, {t}),
                       LAMBDA w : IF mode = "lower" THEN test > s.layer[w]
                                  ELSE test >= s.layer[w])
  IN  NextIn(low, Nil)

\* __get_window_to_insert_after
InsertAfter(s, t, mode) ==
  LET test == IF mode = "lower" THEN s.layer[t] - 1 ELSE s.layer[t]
      low == SelectSeq(Without(s.ring, {t}), LAMBDA w : test >= s.layer[w])
  IN  NextIn(low, Nil)

\* __sort_transient_ring: descending, equals keep their order
SortTransients(s, g) ==
  LET Before(i, j) == \/ s.tree.pos[g[i]] > s.tree.pos[g[j]]
                      \/ s.tree.pos[g[i]] = s.tree.pos[g[j]] /\ i < j
      Rank(i) == Cardinality({j \in 1 .. Len(g) : Before(j, i)}) + 1
  IN  [n \in 1 .. Len(g) |-> g[CHOOSE i \in 1 .. Len(g) : Rank(i) = n]]

\* the windows that collect_transients_recursive takes out of the ring
Collected(s, t) == Without(s.ring, Windows \ (s.tree.marks \ {t}))

\* __restack_window when no window must move: the packets sent before are undone
LeftAlone(s, t, transients) ==
  LET unmarked == SelectSeq(SubSeq(s.ring, Index(s.ring, t) + 1, Len(s.ring)),
                            LAMBDA w : w \notin s.tree.marks)
  IN  IF transients
        THEN BroadcastRestack(s, PrevIn(s.ring, t), NextIn(unmarked, Nil))
      ELSE s

\* __restack_window when a window must move: t and its collected transients g
\* go to their place. stay: t is new, and its parent is restacked next.
Restacked(c, g, t, mode, stay) ==
  LET rest == [c EXCEPT !.ring = Without(@, ToSet(g))]
      x == IF mode = "restack" THEN NextIn(rest.ring, t)
           ELSE InsertAfter(rest, t, mode)
      out == Without(rest.ring, {t})
      Done(s) == IF stay THEN s
                 ELSE RestackWindowList(s, PrevIn(out, x), x, g # <<>>,
                                        mode = "lower")
  IN  Done([rest EXCEPT !.ring =
              InsertBefore(out, SortTransients(c, g) \o <<t>>, x)])

\* __restack_window, for windows that are in the ring already
RestackOne(s, t, mode, transients, isNew) ==
  LET stay == isNew /\ IsTransient(s, t) /\ style[t].stack /\ t \notin s.iconic
      WithTransients(c) == Restacked(c, Collected(c, t), t, mode, stay)
      Go(need) ==
        IF ~need.ok THEN LeftAlone(need.s, t, transients)
        ELSE IF transients
          THEN WithTransients(MarkTransientSubtree(need.s, t, s.layer[t], mode, TRUE))
        ELSE Restacked(need.s, <<>>, t, mode, stay)
  IN  Go(IsRestackNeeded(s, t, mode, transients, isNew))

\* the window that __raise_lower_recursion goes to next, before t itself
StackParent(s, t) ==
  LET p == TransientFor(s, t) IN
  IF t \notin s.iconic /\ style[t].stack /\ p # Nil /\ p \notin s.iconic
     /\ s.layer[p] = s.layer[t]
    THEN p ELSE Nil

\* LOWER_PENALTY and MAX_TRANSIENTS_IN_BRANCH: any numbers that no depth of
\* transients reaches, the penalty larger than the bonus
TreePosition(s, t2, mode) ==
  IF mode = "lower" /\ ~(IsTransient(s, t2) /\ style[t2].stack) THEN -100 ELSE 10

\* raise_or_lower_window, __raise_or_lower_window: the windows that t is
\* transient for go first; a window is left out when its parent moves it
RaiseOrLower(s, t, mode) ==
  LET chain == FoldLeft(
        LAMBDA q, w : IF StackParent(s, q[Len(q)]) = Nil THEN q
                      ELSE Append(q, StackParent(s, q[Len(q)])),
        <<t>>, s.ring)
      n == Len(chain)
      pos == [w \in Windows |->
                IF \E i \in 1 .. n - 1 : chain[i] = w
                  THEN TreePosition(s, StackParent(s, w), mode) ELSE 0]
      Restack(a, w) ==
        IF StackParent(s, w) # Nil /\ Needed(StackParent(s, w), mode) THEN a
        ELSE RestackOne(a, w, mode, MustMoveTransients(a, w, mode), FALSE)
  IN  FoldLeft(Restack, [s EXCEPT !.tree.pos = pos], Reverse(chain))

\* position_new_window_in_stack_ring, for a window at the top of the ring
PositionNewWindow(s, t, mode) ==
  LET fresh == [s EXCEPT !.tree.pos = [w \in Windows |-> 0]]
      placed == RestackOne(fresh, t, mode, FALSE, TRUE)
  IN  IF IsTransient(s, t) /\ style[t].stack /\ t \notin s.iconic
        THEN ResyncXStackingOrder(RaiseOrLower(placed, t, mode))
        ELSE placed

\* RaiseWindow, LowerWindow, RestackWindow up to the button grabs
RaiseWindow(s, t) == RaiseOrLower(PagerRaise(s, t), t, "raise")
LowerWindow(s, t) == RaiseOrLower(PagerLower(s, t), t, "lower")
RestackWindow(s, t) == RaiseOrLower(s, t, "restack")

---------------------------------------------------------------------------
(* Layers and icons                                                        *)

\* get_transientfor_top_mvwmwindow
TopTransientFor(s, t) ==
  FoldLeft(LAMBDA w, i : IF IsTransient(s, w) /\ style[w].stack
                            /\ TransientFor(s, w) # Nil
                           THEN TransientFor(s, w) ELSE w, t, s.ring)

\* new_layer, for a window that is not in layer l
NewLayer(s, fw, l) ==
  LET doLower == l < s.layer[fw]
      Move(c, g) ==
        LET out == Without(c.ring, ToSet(g))
            x == NextIn(SelectSeq(out, LAMBDA w :
                   s.layer[w] < (IF doLower THEN l ELSE l + 1)), Nil)
        IN  RestackWindowList(
              [c EXCEPT !.ring = InsertBefore(out, g, x),
                        !.layer = [w \in Windows |->
                          IF w \in ToSet(g) THEN l ELSE @[w]]],
              PrevIn(out, x), x, Len(g) > 1, doLower)
      Moved(c) == Move(c, Without(c.ring, Windows \ c.tree.marks))
  IN  Moved(MarkTransientSubtree(s, fw, s.layer[fw],
              IF doLower THEN "lower" ELSE "raise", TRUE))

\* Iconify and DeIconify: w and the windows that are transient for it, which
\* are marked
Subtree(s, w) == MarkTransientSubtree(s, w, Nil, "all", FALSE)

MarkedIn(s) == s.tree.marks \cap ToSet(s.ring)

IconifyTree(s) ==
  [s EXCEPT !.iconic = @ \cup MarkedIn(s), !.tree.marks = @ \ MarkedIn(s)]

DeIconifyTree(s) ==
  [s EXCEPT !.iconic = @ \ MarkedIn(s), !.tree.marks = @ \ MarkedIn(s)]

\* the window that DeIconify climbs to
FollowedWindow(s, w) ==
  FoldLeft(LAMBDA a, i : IF a \in follow /\ TransientFor(s, a) # Nil
                           THEN TransientFor(s, a) ELSE a, w, s.ring)

\* The marks matter only while the next mark_transient_subtree keeps them.
Settled(s) ==
  [s EXCEPT !.tree = IF s.tree.primed
                       THEN [@ EXCEPT !.pos = NoTree.pos] ELSE NoTree]

\* focus_grab_buttons_on_layer: a window of the layer with RaiseTransient
\* that may get the buttons of a click is looked at by
\* is_on_top_of_layer_ignore_rom, which marks its transients. Whether it is
\* depends on the focus and the focus policies.
GrabButtons(s, layers) ==
  LET asked == \E w \in ToSet(s.ring) : /\ s.layer[w] \in layers
                                        /\ w \notin s.iconic /\ style[w].raise
      free == {[s EXCEPT !.tree = NoTree]}
  IN  IF ~asked THEN {Settled(s)}
      ELSE IF MaySkipQuery THEN free \cup {Settled(s)} ELSE free

---------------------------------------------------------------------------
(* Actions: commands, requests and events                                  *)

Init ==
  /\ ring = <<>> /\ server = <<>> /\ pager = <<>>
  /\ layer = [w \in Windows |-> 0]
  /\ iconic = {} /\ follow = {}
  /\ parent = [w \in Windows |-> Nil]
  /\ style \in [Windows -> Styles]
  /\ tree = NoTree

\* the windows found by following WM_TRANSIENT_FOR from w
Ancestors(par, w) ==
  FoldSet(LAMBDA x, acc :
    acc \cup {par[v] : v \in acc \cap Windows}, {par[w]}, Windows)

\* AddWindow. The window is not in the MvwmContext yet, so that
\* validate_transientfor finds no loop; a window that is not mapped counts as
\* the root window.
AddWindow(w, p, l, mode) ==
  /\ w \notin ToSet(ring) /\ p # w
  /\ MayLoop \/ w \notin Ancestors([parent EXCEPT ![w] = p], w)
  /\ LET s == [Scr EXCEPT
                 !.ring = <<w>> \o @, !.server = <<w>> \o @,
                 !.pager = <<w>> \o @, !.layer[w] = l,
                 !.parent[w] = IF p \in {Nil} \cup ToSet(ring) THEN p ELSE Root,
                 !.tree = [@ EXCEPT !.marks = @ \ {w}, !.tf[w] = Nil]]
     IN  Becomes(Settled(PositionNewWindow(s, w, mode)))
  /\ UNCHANGED <<follow, style>>

\* variant: an iconified window is not forgotten
DestroyWindowIconic(w) ==
  /\ w \in ToSet(ring)
  /\ LET s == [Scr EXCEPT
                 !.ring = Without(@, {w}), !.server = Without(@, {w}),
                 !.pager = Without(@, {w}), !.layer[w] = 0, !.parent[w] = Nil]
     IN  \E t \in GrabButtons(s, {layer[w]}) : Becomes(t)
  /\ UNCHANGED <<follow, style>>

\* destroy_window
DestroyWindow(w) ==
  /\ w \in ToSet(ring)
  /\ LET s == [Scr EXCEPT
                 !.ring = Without(@, {w}),
                 !.server = Without(@, {w}),
                 !.pager = Without(@, {w}), !.iconic = @ \ {w},
                 !.layer[w] = 0, !.parent[w] = Nil]
     IN  \E t \in GrabButtons(s, {layer[w]}) : Becomes(t)
  /\ follow' = follow \ {w}
  /\ UNCHANGED style

\* CMD_Raise, ConfigureRequest, HandleButtonPress and others
Raise(w) ==
  /\ w \in ToSet(ring)
  /\ \E t \in GrabButtons(RaiseWindow(Scr, w), {layer[w]}) : Becomes(t)
  /\ UNCHANGED <<follow, style>>

Lower(w) ==
  /\ w \in ToSet(ring)
  /\ \E t \in GrabButtons(LowerWindow(Scr, w), {layer[w]}) : Becomes(t)
  /\ UNCHANGED <<follow, style>>

RestackTransients(w) ==
  /\ w \in ToSet(ring)
  /\ \E t \in GrabButtons(RestackWindow(Scr, w), {layer[w]}) : Becomes(t)
  /\ UNCHANGED <<follow, style>>

\* _handle_cr_restack with a sibling in the same layer
ConfigureSibling(w, w2, detail) ==
  /\ w \in ToSet(ring) /\ w2 \in ToSet(ring) \ {w} /\ layer[w] = layer[w2]
  /\ LET out == Without(ring, {w})
         s == [Scr EXCEPT
                 !.server = IF detail = "above" THEN Above(@, w, w2)
                            ELSE Below(@, w, w2),
                 !.ring = InsertBefore(out, <<w>>, IF detail = "above" THEN w2
                                                   ELSE NextIn(out, w2))]
     IN  Becomes(BroadcastRestack(s, PrevIn(s.ring, w), NextIn(s.ring, w)))
  /\ UNCHANGED <<follow, style>>

\* setup_transientfor and the case of HandlePropertyNotify: loops and windows
\* that do not exist count as the root window
SetTransientFor(w, p) ==
  /\ MayRetarget /\ w \in ToSet(ring)
  /\ LET loop == w \in Ancestors([parent EXCEPT ![w] = p], w)
         s == [Scr EXCEPT !.parent[w] =
                 IF p = Nil THEN Nil
                 ELSE IF p \in ToSet(ring) /\ ~loop THEN p ELSE Root]
     IN  IF p = Nil THEN Becomes(s)
         ELSE \E t \in GrabButtons(RaiseWindow(s, w), {layer[w]}) : Becomes(t)
  /\ UNCHANGED <<follow, style>>

\* CMD_Layer, the EWMH states above and below, a change of style
Layer(w, l) ==
  /\ w \in ToSet(ring)
  /\ LET fw == TopTransientFor(Scr, w) IN
     /\ l # layer[fw]
     /\ \E t \in GrabButtons(NewLayer(Scr, fw, l), {l, layer[fw]}) : Becomes(t)
  /\ UNCHANGED <<follow, style>>

\* Iconify: when the window with the focus is one of them, the focus goes
\* elsewhere first and the marks are set again
Iconify(w) ==
  /\ w \in ToSet(ring) \ iconic
  /\ \E again \in BOOLEAN :
       LET first == Subtree(Scr, w)
           gone == IF again THEN Subtree(first, w) ELSE first
       IN  /\ \E t \in GrabButtons(LowerWindow(IconifyTree(gone), w), {layer[w]}) :
                Becomes(t)
           /\ follow' = follow \cup (MarkedIn(gone) \ {w})
  /\ UNCHANGED style

DeIconify(w) ==
  /\ w \in iconic
  /\ LET fw == FollowedWindow(Scr, w)
         s == DeIconifyTree(Subtree(Scr, fw))
     IN  /\ \E t \in GrabButtons(RaiseWindow(s, fw), {layer[fw]}) : Becomes(t)
         /\ follow' = follow \cap s.iconic
  /\ UNCHANGED style

Next ==
  \E w \in Windows :
    \/ \E p \in Windows \cup {Nil}, l \in 0 .. MaxLayer,
          mode \in {"raise", "lower"} : AddWindow(w, p, l, mode)
    \/ DestroyWindow(w)
    \/ Raise(w)
    \/ Lower(w)
    \/ RestackTransients(w)
    \/ \E w2 \in Windows, detail \in {"above", "below"} :
          ConfigureSibling(w, w2, detail)
    \/ \E p \in Windows \cup {Nil} : SetTransientFor(w, p)
    \/ \E l \in 0 .. MaxLayer : Layer(w, l)
    \/ Iconify(w)
    \/ DeIconify(w)

Spec == Init /\ [][Next]_vars

---------------------------------------------------------------------------
\* The variables have their types and only managed windows are iconified,
\* whatever order windows are mapped, iconified and destroyed in.
TypeOK ==
  /\ {ring, server, pager} \subseteq Seq(Windows)
  /\ layer \in [Windows -> 0 .. MaxLayer]
  /\ iconic \subseteq ToSet(ring) /\ follow \subseteq iconic
  /\ parent \in [Windows -> Windows \cup {Nil, Root}]
  /\ style \in [Windows -> Styles]

\* The windows of a higher layer are above those of a lower one: no request,
\* command or event takes a window out of its layer, although tests for
\* transients leave their marks to the next restacking (stack.c:780), if button
\* grabs are brought up to date in between (~MaySkipQuery).
LayersSorted ==
  \A i \in 2 .. Len(ring) : layer[ring[i]] <= layer[ring[i - 1]]

\* The server shows the frames in the order of the stack ring: what
\* verify_stack_ring_consistency compares in debug builds.
ServerAgrees == server = ring

\* The pager shows the windows in the order of the stack ring.
PagerAgrees == pager = ring

\* The packets of a step that changes the stack ring tell the pager all of the
\* change: from the right order it goes to the right one.
TellsPager == pager = ring => pager' = ring' \/ ring' = ring
PagerFollows == [][TellsPager]_vars

=============================================================================
