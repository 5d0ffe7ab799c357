----------------------------- MODULE MCInterface ------------------------------
(***************************************************************************)
(* Small instances of the parts that the user works with: Menus and        *)
(* Frames, which have little to do with each other. A behaviour is that of *)
(* one of them; the other one stays as it begins.                          *)
(***************************************************************************)
EXTENDS Frames, TLC

CONSTANTS
  Parts,         \* of {"menus", "frames"}
  A, B,          \* names of menus
  MenuHabits,    \* Habits of Menus
  Ids, Names, ListName, Slots, Layout, Nil, MAX_MENU_COPIES, MaxStack, Missing

VARIABLES part, menus, stack, pointer, keyboard

menuVars == <<menus, stack, pointer, keyboard>>
allVars == <<part, vars, menuVars>>

---------------------------------------------------------------------------
\* Both items of A pop up B, and one of B pops up A again.
MCLayout ==
  A :> [i \in Slots |-> B] @@ B :> [i \in Slots |-> IF i = "i1" THEN A ELSE Nil]

Popups == INSTANCE Menus WITH h <- menus, Habits <- MenuHabits

Symmetry == Permutations(Ids)

\* Only B has dynamic actions, and one of them.
FewActions ==
  part = "menus" =>
    \A m \in Ids : menus.stat[m] # Nil =>
      LET s == menus.stat[m] IN
      s.up \/ s.down => s.name = B /\ ~(s.up /\ s.down)

---------------------------------------------------------------------------
SizeHints(min, inc, base, grav) ==
  [min |-> min, max |-> 32767, inc |-> inc, base |-> base, grav |-> grav]

ClientHints == {SizeHints(1, 1, 0, "W"), SizeHints(2, 2, 1, "E")}
ClientWidths == {2, 3}
Here == {0}
TwoPages == {0, 8}
ThreeDirs == {"N", "W", "NE"}
OneBorder == {1}
OneLimit == {[min |-> 0, max |-> 5]}

Changes == DOMAIN queue \ Requests(queue)

(* A state of Frames is explored further when little of it is unusual.     *)
Troubles ==
  {t \in {"request", "hints", "title", "maximized", "page", "border", "shaded",
          "limit", "static"} :
     CASE t = "request" -> Requests(queue) # {}
       [] t = "hints" -> fw.newHints \/ hints # fw.hints \/ Changes # {}
       [] t = "title" -> fw.title # "N"
       [] t = "maximized" -> fw.maximized
       [] t = "page" -> Vx # 0
       [] t = "border" -> fw.border # 1 \/ fw.thickness = 0
       [] t = "shaded" -> fw.shaded
       [] t = "limit" -> fw.limit.max # MaxSize
       [] t = "static" -> fw.method = "static"}

FewTroubles ==
  part = "frames" =>
    \/ Cardinality(Troubles) <= 1
    \/ \E t \in {"request", "hints", "title", "maximized", "border"} :
         Troubles = {"shaded", t}
    \/ \E t \in {"hints", "maximized", "page", "static"} :
         Troubles = {"request", t}

\* What waits behind something else, while the window is not shaded, is a request
\* that names only a width, or a change of the hints behind a request.
FewRequests ==
  \A i \in DOMAIN queue : i > 1 =>
    /\ ~fw.shaded
    /\ IF i \in Requests(queue) THEN queue[i].x = {} ELSE queue[1] # Changed

---------------------------------------------------------------------------
ASSUME InterfaceAssumption ==
  /\ Parts \subseteq {"menus", "frames"}
  /\ FramesAssumption
  /\ Popups!MenusAssumption

MCInit ==
  /\ part \in Parts /\ Init /\ Popups!Init
  /\ part # "frames" =>
       /\ fw = NewWindow(hints, 0, 2, 1, CHOOSE m \in Methods : TRUE)
       /\ hints.grav = "W"

MCNext ==
  \/ part = "menus" /\ Popups!Next /\ UNCHANGED <<part, vars>>
  \/ part = "frames" /\ Next /\ UNCHANGED <<part, menuVars>>

MCSpec == MCInit /\ [][MCNext]_allVars

---------------------------------------------------------------------------
\* The variables of both modules have their types.
MCTypeOK ==
  CASE part = "menus" -> Popups!TypeOK
    [] part = "frames" -> TypeOK

(* The properties of Menus, which explains them                            *)

\* Whatever commands do in the middle of menus, each menu on the screen will be
\* taken down by a call of do_menu that still uses it.
MenusKept == Popups!MenusKept

\* A menu that a call of do_menu uses is not freed.
UsedMenusLive == Popups!UsedMenusLive
===============================================================================
