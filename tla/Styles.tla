-------------------------------- MODULE Styles --------------------------------
(***************************************************************************)
(* The list of style definitions: src/mvwm/style.c, and how the windows    *)
(* follow it (flush_window_updates of update.c).                           *)
(*                                                                         *)
(* A definition sets some flags and gives defaults for others (the old     *)
(* names of focus policies do, style_set_old_focus_policy). The manual     *)
(* says that later definitions override earlier ones. The list of a long   *)
(* session would grow without bound, so it is simplified between events:   *)
(* definitions with the same name or window are merged or dropped. What a  *)
(* window looks like must not depend on when that happens.                 *)
(*                                                                         *)
(* Only flags of one bit are modelled: strings and numbers of styles go    *)
(* along with the flag that says they are there.                           *)
(***************************************************************************)
EXTENDS Integers, Sequences, FiniteSets, SequencesExt

CONSTANTS
  Bits,          \* style flags
  Names,         \* names (patterns) of styles
  Clients,       \* windows; as the id of a style: WindowStyle
  Matching,      \* [Names -> SUBSET Clients]: fw_match_style_id for names
  Lines,         \* [mask, dflt, flags : SUBSET Bits]: what a command sets
  MaxStyles      \* bound: commands

StylesAssumption ==
  /\ Names \cap Clients = {}
  /\ Matching \in [Names -> SUBSET Clients]
  /\ Lines \subseteq [mask : SUBSET Bits, dflt : SUBSET Bits, flags : SUBSET Bits]
  /\ \A l \in Lines : l.flags \subseteq l.mask \cup l.dflt
  /\ MaxStyles \in Nat

VARIABLES
  all_styles,    \* sequence of [id, mask, dflt, flags, change, changed]
  defs,          \* history: the commands that were given and not destroyed
  styled,        \* windows that are managed -> their flags
  style_deleted, \* windows with IS_STYLE_DELETED
  list_update,   \* scr_flags.do_need_style_list_update
  window_update  \* scr_flags.do_need_window_update

vars == <<all_styles, defs, styled, style_deleted, list_update, window_update>>

Ids == Names \cup Clients

Matches(id, w) == IF id \in Names THEN w \in Matching[id] ELSE w = id

---------------------------------------------------------------------------
\* merge_styles: set flags override, defaults override defaults
MergeStyles(m, a) ==
  LET unset == Bits \ (a.mask \cup a.dflt \cup m.mask \cup m.dflt)
      taken == a.mask \cup (a.dflt \ m.mask) \cup unset
  IN  [m EXCEPT !.flags = (@ \ taken) \cup (a.flags \cap taken),
                !.change = (@ \ a.mask) \cup a.change,
                !.mask = @ \cup a.mask,
                !.dflt = (@ \cup a.dflt) \ (m.mask \cup a.mask),
                !.changed = @ \/ a.changed]

NoStyle(id) == [id |-> id, mask |-> {}, dflt |-> {}, flags |-> {},
                change |-> {}, changed |-> FALSE]

\* lookup_style
Lookup(q, w) ==
  FoldLeft(LAMBDA m, s : IF Matches(s.id, w) THEN MergeStyles(m, s) ELSE m,
           NoStyle(w), q)

---------------------------------------------------------------------------
(* Simplifying the list                                                    *)

\* one_fw_can_match_both_ids
CanMatchBoth(a, b) == ~({a, b} \subseteq Clients /\ a # b)

\* free_style_mask
FreeMask(s, bits) ==
  LET gone == s.mask \cap bits
  IN  [s EXCEPT !.mask = @ \ gone, !.dflt = @ \ gone, !.change = @ \ gone]

\* no flag of the style is touched by those in between
Apart(s, inter) == (s.mask \cup s.dflt) \cap inter = {}

(* The inner loop of __simplify_style_list: cur absorbs the styles before   *)
(* it that have its id, or is absorbed by them. sum, sumd: the flags that   *)
(* were found with its id; inter: those of other styles in between.         *)
RECURSIVE Absorb(_, _, _, _, _, _)
Absorb(q, cur, cmp, sum, sumd, inter) ==
  LET c == q[cur]
      s == q[cmp]
      freed == FreeMask(s, sum \cup sumd)
  IN  IF cmp = 0 THEN [q |-> q, cur |-> cur]
      ELSE IF s.id # c.id
        THEN Absorb(q, cur, cmp - 1, sum, sumd,
               IF CanMatchBoth(s.id, c.id) THEN inter \cup s.mask \cup s.dflt
               ELSE inter)
      ELSE IF s.mask \subseteq sum /\ s.dflt \subseteq sumd
        THEN Absorb(RemoveAt(q, cmp), cur - 1, cmp - 1, sum, sumd, inter)
      ELSE IF Apart(freed, inter)
        THEN LET all == sum \cup freed.mask
             IN  Absorb(RemoveAt([q EXCEPT ![cur] = MergeStyles(freed, c)], cmp),
                        cur - 1, cmp - 1, all, all \cup freed.dflt, inter)
      ELSE IF Apart(c, inter)
        THEN LET all == sum \cup c.mask
             IN  Absorb(RemoveAt([q EXCEPT ![cmp] = MergeStyles(freed, c)], cur),
                        cmp, cmp - 1, all, all \cup c.dflt, {})
      ELSE Absorb([q EXCEPT ![cmp] = freed], cur, cmp - 1, sum, sumd,
                  inter \cup freed.mask \cup freed.dflt)

\* __simplify_style_list from the last style to the first one
RECURSIVE Simplified(_, _)
Simplified(q, cur) ==
  IF cur = 0 THEN q
  ELSE LET r == Absorb(q, cur, cur - 1, q[cur].mask, q[cur].dflt, {})
       IN  Simplified(r.q, r.cur - 1)

\* simplify_style_list; as long as styles were dropped there is more to do
Simplify ==
  /\ list_update
  /\ all_styles' = Simplified(all_styles, Len(all_styles))
  /\ list_update' = (Len(all_styles') < Len(all_styles))
  /\ UNCHANGED <<defs, styled, style_deleted, window_update>>

---------------------------------------------------------------------------
\* __style_command
Style(id, l) ==
  LET s == [id |-> id, mask |-> l.mask, dflt |-> l.dflt \ l.mask,
            flags |-> l.flags, change |-> l.mask \cup l.dflt, changed |-> TRUE]
      n == Len(all_styles)
      merges == n > 0 /\ all_styles[n].id = id
  IN  /\ Len(defs) < MaxStyles
      /\ id \in Clients => id \in DOMAIN styled
      /\ all_styles' = IF merges
                         THEN [all_styles EXCEPT ![n] = MergeStyles(@, s)]
                         ELSE Append(all_styles, s)
      /\ list_update' = (list_update \/ ~merges)
      /\ window_update' = TRUE
      /\ defs' = Append(defs, s)
      /\ UNCHANGED <<styled, style_deleted>>

\* style_destroy_style
DestroyStyle(id) ==
  LET hit == {w \in DOMAIN styled : Matches(id, w)}
      keep(q) == SelectSeq(q, LAMBDA s : s.id # id)
  IN  /\ id \in Clients => id \in DOMAIN styled
      /\ \E i \in DOMAIN all_styles : all_styles[i].id = id
      /\ all_styles' = keep(all_styles) /\ defs' = keep(defs)
      /\ list_update' = TRUE
      /\ style_deleted' = style_deleted \cup hit
      /\ window_update' = (window_update \/ hit # {})
      /\ UNCHANGED styled

\* AddWindow with setup_style_and_decor
AddWindow(w) ==
  /\ w \notin DOMAIN styled
  /\ styled' = [x \in DOMAIN styled \cup {w} |->
                  IF x = w THEN Lookup(all_styles, w).flags ELSE styled[x]]
  /\ UNCHANGED <<all_styles, defs, style_deleted, list_update, window_update>>

\* variant: a window keeps what the deleted style gave it
CheckChangeUndeleted(w) ==
  LET s == Lookup(all_styles, w)
  IN  IF s.changed THEN (styled[w] \ s.change) \cup (s.flags \cap s.change)
      ELSE styled[w]

\* check_window_style_change
CheckChange(w) ==
  LET s == Lookup(all_styles, w)
  IN  IF w \in style_deleted THEN s.flags
      ELSE IF s.changed THEN (styled[w] \ s.change) \cup (s.flags \cap s.change)
      ELSE styled[w]

\* flush_window_updates
Flush ==
  /\ window_update
  /\ styled' = [w \in DOMAIN styled |-> CheckChange(w)]
  /\ all_styles' = [i \in DOMAIN all_styles |->
                      [all_styles[i] EXCEPT !.change = {}, !.changed = FALSE]]
  /\ style_deleted' = {}
  /\ window_update' = FALSE
  /\ UNCHANGED <<defs, list_update>>

---------------------------------------------------------------------------
Init ==
  /\ all_styles = <<>> /\ defs = <<>>
  /\ styled = [w \in {} |-> {}]
  /\ style_deleted = {} /\ list_update = FALSE /\ window_update = FALSE

Next ==
  \/ \E id \in Ids, l \in Lines : Style(id, l)
  \/ \E id \in Ids : DestroyStyle(id)
  \/ \E w \in Clients : AddWindow(w)
  \/ Simplify
  \/ Flush

Spec == Init /\ [][Next]_vars

---------------------------------------------------------------------------
\* The variables have their types, no flag of a style is both set and a
\* default, and there are never more entries than commands that count.
TypeOK ==
  /\ DOMAIN styled \subseteq Clients /\ style_deleted \subseteq DOMAIN styled
  /\ \A i \in DOMAIN all_styles :
       LET s == all_styles[i]
       IN  /\ s.id \in Ids /\ s.flags \subseteq Bits
           /\ s.mask \cap s.dflt = {}
  /\ Len(all_styles) <= Len(defs)

\* What the commands say of the flags of w: the last one that sets a flag
\* decides, or, if none does, the last one that gives a default.
Meant(w) ==
  LET given == SelectSeq(defs, LAMBDA s : Matches(s.id, w))
      last(b, part(_)) ==
        LET on == SelectSeq(given, LAMBDA s : b \in part(s))
        IN  on # <<>> /\ b \in on[Len(on)].flags
  IN  {b \in Bits : IF \E i \in DOMAIN given : b \in given[i].mask
                      THEN last(b, LAMBDA s : s.mask)
                      ELSE last(b, LAMBDA s : s.dflt)}

\* Flags that a style sets and gives a default for later on
Disputed ==
  {b \in Bits : \E i, j \in DOMAIN defs :
     i < j /\ defs[i].id = defs[j].id /\ b \in defs[i].mask \cap defs[j].dflt}

Settled(S, w) == S \ Disputed = Meant(w) \ Disputed

\* Simplifying the list changes the style of no window, whichever styles it
\* matches, for all flags that no style both sets and gives a default for.
StylesMeant ==
  \A w \in Clients : Settled(Lookup(all_styles, w).flags, w)

\* When no update is due, each window has the flags that the commands gave it:
\* the marks of changes survive the merging of styles.
WindowsStyled ==
  ~window_update => \A w \in DOMAIN styled : Settled(styled[w], w)

\* The commands decide how windows look, and simplification does not.
StylesKept == StylesMeant /\ WindowsStyled

\* The list of styles does not change what windows look like: "Remove styles
\* that are completely overridden by later style definitions" (style.c:976).
SimplifiesFaithfully ==
  all_styles # all_styles' /\ defs' = defs =>
    \A w \in Clients : Lookup(all_styles', w).flags = Lookup(all_styles, w).flags
SimplifyKeepsStyles == [][SimplifiesFaithfully]_vars
===============================================================================
