------------------------------ MODULE MCManager -------------------------------
(***************************************************************************)
(* Small instances of parts of the manager that have little to do with     *)
(* each other: Focus, Styles and Viewport. A behaviour is that of one of   *)
(* them; the others stay as they begin.                                    *)
(***************************************************************************)
EXTENDS Focus, TLC

CONSTANTS
  Parts,              \* of {"focus", "styles", "viewport"}
  grab, lenient,      \* style flags: GrabFocus, Lenience
  star, name, client, \* the patterns "*" and "name", and a window of Styles
  DefaultsOften       \* old names of focus policies are used as styles at will

VARIABLES
  part,
  all_styles, defs, styled, style_deleted, list_update, window_update,
  Vx, VxMax, fw, moving

stylesVars ==
  <<all_styles, defs, styled, style_deleted, list_update, window_update>>
viewportVars == <<Vx, VxMax, fw, moving>>

allVars == <<part, vars, stylesVars, viewportVars>>

---------------------------------------------------------------------------
FocusPolicy(enter, click) ==
  [enter |-> enter, leave |-> enter, click |-> click, func |-> TRUE,
   program |-> TRUE, lenient |-> FALSE, sortOpen |-> click, grab |-> click,
   release |-> click, input |-> TRUE, takes |-> FALSE, icon |-> click]

FocusFollowsMouse == FocusPolicy(TRUE, FALSE)
ClickToFocus == FocusPolicy(FALSE, TRUE)

\* a window that takes the focus itself and is not given it
NeverFocus ==
  [FocusPolicy(FALSE, FALSE) EXCEPT
     !.func = FALSE, !.program = FALSE, !.input = FALSE, !.takes = TRUE]

MCPolicies == {FocusFollowsMouse, ClickToFocus, NeverFocus}

\* one window is transient for another
MCParents ==
  {[x \in Windows |-> IF x = p[2] THEN p[1] ELSE Nil] :
     p \in {p \in Windows \X Windows : p[1] # p[2]}}

(* All that can happen at once has too many states: a state is explored     *)
(* further when little of it is going on; icons may die in functions, and   *)
(* some of it happens while windows are about to be mapped.                *)
Troubles ==
  {t \in {"desks", "icons", "screens", "functions", "mapping", "others"} :
     CASE t = "desks" -> \E x \in Windows : away[x] # Nil
                                            \/ desk[x] \notin {Nil, current}
       [] t = "icons" -> iconic # {}
       [] t = "screens" -> ~focus.here \/ focus.last # Nil
       [] t = "functions" -> busy \/ dying # {}
       [] t = "mapping" -> mapping # {}
       [] t = "others" -> focus.unknown}

FewTroubles ==
  \/ Cardinality(Troubles) <= 1
  \/ Troubles = {"icons", "functions"}
  \/ \E t \in {"icons", "functions", "others"} : Troubles = {"mapping", t}

---------------------------------------------------------------------------
Line(mask, dflt, flags) == [mask |-> mask, dflt |-> dflt, flags |-> flags]

StyleBits == {grab, lenient}

StyleNames == {star, name}

StyleClients == {client}

NamesMatch == [n \in StyleNames |-> StyleClients]

StyleLines ==
  {Line({grab}, {}, {grab}), Line({grab}, {}, {}),
   Line({lenient}, {}, {lenient}), Line({grab}, {lenient}, {})}
  \cup IF DefaultsOften THEN {Line({lenient}, {grab}, {grab})} ELSE {}

Styles ==
  INSTANCE Styles WITH Bits <- StyleBits, Names <- StyleNames,
    Clients <- StyleClients, Matching <- NamesMatch, Lines <- StyleLines,
    MaxStyles <- 3

---------------------------------------------------------------------------
Page(suffix, val, wrap, limit) ==
  [suffix |-> suffix, val |-> val, wrap |-> wrap, limit |-> limit]

PageSteps == {-2, 2}

PageCommands ==
  {Page("", 1, FALSE, TRUE), Page("", -1, FALSE, TRUE),
   Page("p", 1, TRUE, TRUE), Page("p", -1, FALSE, TRUE),
   Page("w", 1, TRUE, TRUE), Page("w", -1, FALSE, FALSE)}

Viewport ==
  INSTANCE Viewport WITH W <- 2, MaxPages <- 2, ScrollSteps <- PageSteps,
    PageArgs <- PageCommands, EdgeWrap <- TRUE, IconsPage <- TRUE, MaxFar <- 2

---------------------------------------------------------------------------
\* A maximized window is not moved, and is not an icon and sticky; one on
\* another desk is not moved, and only one of maximized, an icon and sticky.
FewStates ==
  /\ fw.maximized => ~moving.on /\ ~(fw.iconified /\ fw.sticky)
  /\ ~fw.here => ~moving.on /\ ~(fw.maximized /\ (fw.iconified \/ fw.sticky))

ASSUME ManagerAssumption ==
  /\ Parts \subseteq {"focus", "styles", "viewport"}
  /\ Styles!StylesAssumption
  /\ Viewport!ViewportAssumption

Symmetry == Permutations(Windows) \cup Permutations(Desks)

MCInit ==
  /\ part \in Parts
  /\ Init /\ Styles!Init /\ Viewport!Init
  \* few pairs of policies
  /\ \/ \A x, y \in Windows : policy[x] = policy[y]
     \/ \E x \in Windows : policy[x] = NeverFocus
  /\ part # "focus" =>
       /\ \A x \in Windows : policy[x] = NeverFocus
       /\ parent = CHOOSE p \in Parents : TRUE
       /\ current = CHOOSE d \in Desks : TRUE
  /\ part # "viewport" => fw = CHOOSE f \in Viewport!NewWindows : TRUE

MCNext ==
  \/ part = "focus" /\ Next /\ UNCHANGED <<part, stylesVars, viewportVars>>
  \/ part = "styles" /\ Styles!Next /\ UNCHANGED <<part, vars, viewportVars>>
  \/ part = "viewport" /\ Viewport!Next /\ UNCHANGED <<part, vars, stylesVars>>

MCSpec == MCInit /\ [][MCNext]_allVars

---------------------------------------------------------------------------
\* The variables of all modules have their types.
MCTypeOK ==
  CASE part = "focus" -> TypeOK
    [] part = "styles" -> Styles!TypeOK
    [] part = "viewport" -> Viewport!TypeOK

(* The properties of the other modules, which explain them                 *)

\* Simplifying the list changes no style, and when no update is due, windows
\* look as the commands say.
StylesKept == Styles!StylesKept

\* (simplifying does change styles for some flags)
SimplifyKeepsStyles == Styles!SimplifyKeepsStyles

\* Only showing a window on another desk leaves it, on the desk, elsewhere than
\* it is on the screen.
PlacesKept == Viewport!PlacesKept

\* (so a shown window may be elsewhere)
PlacesAgree == Viewport!PlacesAgree

\* A maximized window is never a page away from its normal place.
NeverAPageApart == Viewport!NeverAPageApart
===============================================================================
