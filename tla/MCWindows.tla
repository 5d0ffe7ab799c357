------------------------------ MODULE MCWindows ------------------------------
(***************************************************************************)
(* Small instances of Stacking and Desks: the order of windows and whether *)
(* they are shown. Neither reads what the other changes, so a behaviour is *)
(* that of one of them; the other stays as it begins.                      *)
(***************************************************************************)
EXTENDS Stacking, TLC

CONSTANTS
  Parts,               \* of {"stacking", "desks"}
  parent1, transient1, \* windows of Desks
  StrayIcons           \* of Desks

VARIABLES
  part,
  CurrentDesk, win, frames, clients, icons, events

desksVars == <<CurrentDesk, win, frames, clients, icons, events>>

allVars == <<part, vars, desksVars>>

---------------------------------------------------------------------------
Style(together) == [raise |-> together, lower |-> together, stack |-> TRUE]

MCStyles == {Style(a) : a \in BOOLEAN}

DeskWindows == {parent1, transient1}

Family == parent1 :> Nil @@ transient1 :> parent1

TwoDesks == {0, 1}

StackOrder == {<<parent1, transient1>>}

Desks ==
  INSTANCE Desks WITH Windows <- DeskWindows, Parent <- Family,
    DeskNumbers <- TwoDesks, Orders <- StackOrder, MaxEvents <- 1

ASSUME WindowsAssumption ==
  Parts \subseteq {"stacking", "desks"} /\ Desks!DesksAssumption

Symmetry == Permutations(Windows)

---------------------------------------------------------------------------
(* With icons, only those are on a layer other than the lowest.             *)
FewLayers == iconic # {} => \A w \in Windows : layer[w] = 0 \/ w \in iconic

MCInit ==
  /\ part \in Parts
  /\ Init /\ Desks!Init
  \* all windows have the same style
  /\ \A x, y \in Windows : style[x] = style[y]
  /\ part # "stacking" => \A x \in Windows : style[x] = Style(TRUE)
  /\ part # "desks" => CurrentDesk = 0

MCNext ==
  \/ part = "stacking" /\ Next /\ UNCHANGED <<part, desksVars>>
  \/ part = "desks" /\ Desks!Next /\ UNCHANGED <<part, vars>>

MCSpec == MCInit /\ [][MCNext]_allVars

---------------------------------------------------------------------------
\* The variables of both modules have their types.
MCTypeOK == TypeOK /\ Desks!TypeOK

\* What the server shows is what the desk and the flags of the windows say
\* (see Desks).
ShownRight == Desks!ShownRight

\* No late report of the server turns an icon into an empty frame (see Desks).
IconsStay == Desks!IconsStay
===============================================================================
