-------------------------------- MODULE Menus ---------------------------------
(***************************************************************************)
(* Menus and their instances: src/mvwm/menus.c and menucmd.c.              *)
(*                                                                         *)
(* A menu is shown by do_menu, which runs an event loop of its own. On a   *)
(* submenu that is entered, do_menu calls itself. Before a menu is shown,  *)
(* after it is taken down and when an item is chosen, it runs commands,    *)
(* and these may open, rebuild and destroy menus in turn. So menus live on *)
(* the C stack (stack: calls of do_menu, and the commands they wait for,   *)
(* the innermost first) as well as in the list Menus.all. A menu that is   *)
(* already shown is shown again as a copy; what is torn off is a clone,    *)
(* which only its window knows.                                            *)
(***************************************************************************)
EXTENDS Integers, FiniteSets, SequencesExt

CONSTANTS
  Ids,             \* bound: addresses of MenuRoot structures
  Names,           \* names of menus
  ListName,        \* the name of the menu of WindowList
  Slots,           \* the items of a menu, by their addresses
  Layout,          \* what the items of a menu pop up
  Nil,
  MAX_MENU_COPIES,
  MaxStack,        \* bound: depth of the stack
  Missing,         \* BOOLEAN: menus have a MissingSubmenuFunction
  Habits           \* what commands in menus do (see below)

(* Habits, what may happen while a menu waits for a command. It waits for  *)
(* events itself, and the pointer is in a tear-off ("enter") or that is    *)
(* closed ("close"). It destroys the menus of WindowList by their name     *)
(* ("list"), or the menu that was just taken down for it ("empty"). What   *)
(* is allocated gets the addresses of items that were freed ("moved").     *)
MenusAssumption ==
  /\ Nil \notin Ids \cup Names \cup Slots \cup {ListName}
  /\ Layout \in [Names -> [Slots -> Names \cup {Nil}]]
  /\ MAX_MENU_COPIES \in Nat \ {0} /\ MaxStack \in Nat
  /\ Habits \subseteq {"enter", "close", "list", "empty", "moved"}

VARIABLES
  h,          \* the menus: the list, instances, what they share, and windows
  stack,
  pointer,    \* grabs of the pointer for menus
  keyboard    \* grabs of the keyboard for menus

vars == <<h, stack, pointer, keyboard>>

Empty == [i \in Slots |-> "none"]

\* What the instances of a menu share
Static(n) ==
  [name |-> n, copies |-> 1, mapped |-> 0, up |-> FALSE, down |-> FALSE,
   items |-> Empty]

Shared(m) == h.stat[h.inst[m].s]
Listed(x) == {x.all[i] : i \in DOMAIN x.all}
Live == {m \in Ids : h.inst[m] # Nil}
IsTearOff(m) == m \in Live \ Listed(h)

First(x, S) ==
  IF S = {} THEN Nil ELSE x.all[CHOOSE i \in DOMAIN x.all :
    x.all[i] \in S /\ \A j \in 1 .. i - 1 : x.all[j] \notin S]

\* menus_find_menu
Find(n) ==
  First(h, {m \in Listed(h) : h.inst[m].original = m /\ Shared(m).name = n})

\* seek_submenu_instance: also one that is not shown any more
Instance(parent, item) ==
  First(h, {m \in Listed(h) :
              h.inst[m].parent = parent /\ h.inst[m].item = item})

\* mr_popup_for_mi
PopupFor(parent, item) ==
  LET n == Shared(parent).items[item] IN
  IF item = Nil \/ n \in {"none", Nil} THEN Nil
  ELSE IF Instance(parent, item) # Nil THEN Instance(parent, item)
  ELSE Find(n)

---------------------------------------------------------------------------
(* Instances                                                               *)

\* Addresses that are used in a frame are not given to new menus.
Held ==
  UNION {{f.menu, f.popup, f.popdown, f.tear, f.next} : f \in Range(stack)}

\* The items of m are freed. What else points to them is used no more, unless
\* other items can be where they were.
ItemsFreed(x, m) ==
  [x EXCEPT !.inst = [c \in Ids |->
     IF "moved" \notin Habits /\ @[c] # Nil /\ @[c].parent = m
       THEN [@[c] EXCEPT !.parent = Nil, !.item = Nil] ELSE @[c]]]

Fresh == {m \in Ids \ Held : h.inst[m] = Nil /\ h.stat[m] = Nil}

Instantiated(s, original, parent, item) ==
  [s |-> s, original |-> original, parent |-> parent, item |-> item]

\* NewMenuRoot
Created(x, m, n) ==
  [x EXCEPT !.all = <<m>> \o @, !.stat[m] = Static(n),
            !.inst[m] = Instantiated(m, m, Nil, Nil)]

\* copy_menu_root
Copied(x, m, c) ==
  LET i == CHOOSE i \in DOMAIN x.all : x.all[i] = m
      s == x.inst[m].s
  IN  [x EXCEPT !.all = InsertAt(@, i + 1, c), !.stat[s].copies = @ + 1,
                !.inst[c] = Instantiated(s, x.inst[m].original, Nil, Nil)]

\* the rest of pop_menu_up, when m has items and there is room for a copy c
PoppedUp(x, m, c, parent, item) ==
  LET copy == x.stat[x.inst[m].s].mapped > 0
      y == IF copy THEN Copied(x, m, c) ELSE x
      p == IF copy THEN c ELSE m
  IN  [y EXCEPT !.inst[p].parent = parent, !.inst[p].item = item,
                !.stat[y.inst[p].s].mapped = @ + 1, !.shown = @ \cup {p}]

\* DestroyMenu, the part that a command may be refused aside
Destroyed(x, m) ==
  LET s == x.inst[m].s
      heirs == {c \in Listed(x) \ {m} : x.inst[c].original = m}
      new == First(x, heirs)
      gone == x.stat[s].copies = 1
  IN  [ItemsFreed(x, m) EXCEPT !.all = SelectSeq(@, LAMBDA c : c # m),
         !.inst = [c \in Ids |->
                     IF c = m THEN Nil
                     ELSE IF c \in heirs THEN [@[c] EXCEPT !.original = new]
                     ELSE @[c]],
         !.stat[s] = IF gone THEN Nil ELSE [@ EXCEPT !.copies = @ - 1],
         !.shown = @ \ {m}]

\* pop_menu_down, up to the popdown action
PoppedDown(x, m) ==
  LET s == x.inst[m].s
      y == [x EXCEPT !.stat[s].mapped = @ - 1, !.shown = @ \ {m}]
  IN  IF y.stat[s].copies > 1 THEN Destroyed(y, m) ELSE y

HasPopdownAction(m) == Shared(m).copies = 1 /\ Shared(m).down

---------------------------------------------------------------------------
(* The stack. A frame of do_menu:                                          *)
(*   menu, popup, popdown  pmp->menu, in->mrPopup, in->mrPopdown           *)
(*   sel                   the selected item                               *)
(*   sub, up               is_submenu; the menu was shown by this call     *)
(*   tear                  the tear-off it belongs to                      *)
(*   at, rc                where it is, and pmret->rc                      *)
(*   next, name            the menu that is to be shown, while its popup   *)
(*                         action runs: its address if it is shown         *)
(*                         elsewhere, its name otherwise                   *)

Frame(k) ==
  [k |-> k, menu |-> Nil, popup |-> Nil, popdown |-> Nil, sel |-> Nil,
   sub |-> FALSE, up |-> FALSE, tear |-> Nil, at |-> "loop", rc |-> "nop",
   next |-> Nil, name |-> Nil]

Top == IF stack = <<>> THEN Frame("none") ELSE Head(stack)

Becomes(f) == stack' = <<f>> \o Tail(stack)

\* __menu_execute_function
Executes(f) ==
  /\ Len(stack) < MaxStack
  /\ stack' = <<Frame("command"), f>> \o Tail(stack)

Calls(f, g) ==
  /\ Len(stack) < MaxStack
  /\ stack' = <<g, f>> \o Tail(stack)

At(p) == Top.k = "menu" /\ Top.at = p

\* Commands are executed from the event loop, and by menus.
Commands == Top.k \in {"none", "command"}

Ends(f, rc) == Becomes([f EXCEPT !.at = "exit", !.rc = rc])

\* indirect_depth
Indirect(s) == Cardinality({i \in DOMAIN s : s[i].k = "menu" /\ s[i].at = "chosen"})

\* A menu is taken down, after which the frame is f.
TakeDown(m, f) ==
  /\ h' = PoppedDown(h, m)
  /\ IF HasPopdownAction(m) THEN Executes(f) ELSE Becomes(f)

Grabs == UNCHANGED <<pointer, keyboard>>

---------------------------------------------------------------------------
(* Showing a menu: pop_menu_up, in a menu frame f that is at p afterwards. *)
(* The popup action may destroy the menu and make another of that name.    *)

Room(m) == Shared(m).mapped = 0 \/ Shared(m).copies < MAX_MENU_COPIES

Resolving(f, m, p) ==
  LET found == Shared(m).up /\ Shared(m).mapped = 0
  IN  [f EXCEPT !.at = p, !.next = IF found THEN Nil ELSE m,
                !.name = IF found THEN Shared(m).name ELSE Nil]

ToShow == IF Top.next = Nil THEN Find(Top.name) ELSE Top.next

HasItems(m) == m # Nil /\ Shared(m).items # Empty

\* is_submenu_mapped
IsMapped(parent, item) == Instance(parent, item) \in h.shown

\* do_menu, for a menu that is not shown yet; below: what it is called from
Opens(m, below) ==
  LET f == Resolving([Frame("menu") EXCEPT !.up = TRUE], m, "open") IN
  /\ Room(m) /\ pointer' = pointer + 1
  /\ Len(below) < MaxStack - 1
  /\ stack' = (IF Shared(m).up THEN <<Frame("command"), f>> ELSE <<f>>) \o below

\* CMD_Menu, CMD_Popup
Menu(n) ==
  /\ Commands /\ Find(n) # Nil /\ Opens(Find(n), stack)
  /\ UNCHANGED <<h, keyboard>>

\* The menu is shown, and its loop begins.
Opened ==
  /\ At("open") /\ HasItems(ToShow)
  /\ \E c \in Fresh :
       LET m == IF Shared(ToShow).mapped > 0 THEN c ELSE ToShow IN
       /\ h' = PoppedUp(h, ToShow, c, Nil, Nil)
       /\ Becomes([Top EXCEPT !.at = "loop", !.menu = m, !.next = Nil, !.name = Nil])
  /\ keyboard' = keyboard + (IF Indirect(stack) = 0 THEN 1 ELSE 0)
  /\ UNCHANGED pointer

NotOpened ==
  /\ At("open") /\ ~HasItems(ToShow)
  /\ stack' = Tail(stack) /\ pointer' = pointer - 1
  /\ UNCHANGED <<h, keyboard>>

---------------------------------------------------------------------------
(* The loop of a menu: __menu_loop. The items of a menu are its slots.     *)

\* __mloop_do_popup from where the submenu m is known: __mloop_make_popup
MakePopup(f, m) ==
  LET g == [f EXCEPT !.popup = m, !.at = "popped"] IN
  IF m = Nil \/ IsMapped(f.menu, f.sel) \/ ~Room(m) THEN Becomes(g)
  ELSE LET p == [Resolving(f, m, "popup") EXCEPT !.popup = Nil]
       IN  IF Shared(m).up THEN Executes(p) ELSE Becomes(p)

\* __mloop_get_mi_actions, __mloop_do_popup: the submenu of the selected item
\* is shown. What it shows so far is to be taken down, or shown on.
WantsPopup(f) ==
  LET m == PopupFor(f.menu, f.sel)
      g == [f EXCEPT !.popdown = IF f.popup # Nil THEN f.popup ELSE @,
                     !.popup = Nil]
  IN  IF f.popup = Nil /\ f.popdown = m /\ m # Nil
        THEN Becomes([f EXCEPT !.popup = m, !.popdown = Nil])
      ELSE IF m = Nil /\ Missing THEN Executes([g EXCEPT !.at = "missing"])
      ELSE MakePopup(g, m)

IsPopup(f) == f.sel # Nil /\ Shared(f.menu).items[f.sel] # Nil

\* __mloop_select_item, and back to the item that was left
Selects(f, i) ==
  LET leave == f.sel # Nil /\ f.popup # Nil
      g == [f EXCEPT !.sel = i, !.popup = IF leave THEN Nil ELSE @,
                     !.popdown = IF leave THEN f.popup ELSE @]
  IN  IF g.popup = Nil /\ g.popdown # Nil /\ h.inst[g.popdown].item = i
        THEN [g EXCEPT !.popup = g.popdown, !.popdown = Nil]
      ELSE g

Select(i, now) ==
  LET f == Selects(Top, i) IN
  /\ At("loop") /\ i # Top.sel /\ Shared(Top.menu).items[i] # "none"
  /\ IF now /\ IsPopup(f) /\ (f.popup = Nil \/ f.popup # PopupFor(f.menu, i))
       THEN WantsPopup(f)
     ELSE Becomes(f)
  /\ UNCHANGED h /\ Grabs

\* The submenu of the selected item, by a key or after a delay
PopupNow ==
  /\ At("loop") /\ IsPopup(Top)
  /\ Top.popup = Nil \/ Top.popup # PopupFor(Top.menu, Top.sel)
  /\ WantsPopup(Top)
  /\ UNCHANGED h /\ Grabs

\* The MissingSubmenuFunction has returned.
MissingDone ==
  /\ At("missing") /\ MakePopup(Top, PopupFor(Top.menu, Top.sel))
  /\ UNCHANGED h /\ Grabs

\* pop_menu_up, after the popup action
Popup ==
  LET f == [Top EXCEPT !.at = "popped", !.next = Nil, !.name = Nil] IN
  /\ At("popup")
  /\ IF ToShow = Nil THEN Ends(f, "error") /\ UNCHANGED h
     ELSE IF ~HasItems(ToShow)
       THEN Becomes([f EXCEPT !.popup = ToShow]) /\ UNCHANGED h
     ELSE \E c \in Fresh :
       /\ h' = PoppedUp(h, ToShow, c, Top.menu, Top.sel)
       /\ Becomes([f EXCEPT !.popup =
                     IF Shared(ToShow).mapped > 0 THEN c ELSE ToShow])
  /\ Grabs

\* The end of __mloop_do_popup: the old submenu is taken down, and a new one
\* that is shown somewhere else is ignored.
Popped ==
  LET f == [Top EXCEPT !.popdown = Nil, !.at = "check"] IN
  /\ At("popped")
  /\ IF Top.popdown \notin {Nil, Top.popup} THEN TakeDown(Top.popdown, f)
     ELSE Becomes(f) /\ UNCHANGED h
  /\ Grabs

Checked ==
  LET mine == Top.popup # Nil /\ h.inst[Top.popup].parent = Top.menu IN
  /\ At("check")
  /\ Becomes([Top EXCEPT !.at = "loop", !.popup = IF mine THEN @ ELSE Nil])
  /\ UNCHANGED h /\ Grabs

\* __mloop_do_popdown, after a delay
PopdownNow ==
  LET f == Top IN
  /\ At("loop") /\ f.popdown # Nil
  /\ TakeDown(f.popdown, [f EXCEPT !.popdown = Nil,
                                   !.popup = IF @ = f.popdown THEN Nil ELSE @])
  /\ Grabs

\* __mloop_handle_action_without_mi: the pointer has left the menu
LeaveMenu ==
  LET f == Top IN
  /\ At("loop") /\ f.sel # Nil
  /\ IF f.popup = Nil THEN Becomes([f EXCEPT !.sel = Nil]) /\ UNCHANGED h
     ELSE TakeDown(f.popup, [f EXCEPT !.sel = Nil, !.popup = Nil,
                               !.popdown = IF @ = f.popup THEN Nil ELSE @])
  /\ Grabs

\* The pointer is on the submenu m of the item i: __mloop_do_menu
Enters(f, i, m) ==
  /\ Calls([f EXCEPT !.at = "submenu", !.sel = i, !.popup = m,
                      !.popdown = IF @ = m THEN Nil ELSE @],
           [Frame("menu") EXCEPT !.menu = m, !.sub = TRUE, !.tear = f.tear])
  /\ pointer' = pointer + (IF f.tear # Nil THEN 1 ELSE 0)
  /\ UNCHANGED <<h, keyboard>>

EnterPopup == At("loop") /\ Top.popup # Nil /\ Enters(Top, Top.sel, Top.popup)

EnterPopdown ==
  /\ At("loop") /\ Top.popdown # Nil
  /\ Enters(Top, h.inst[Top.popdown].item, Top.popdown)

\* The submenu has returned. A key may take it down.
Back(unmap) ==
  LET f == [Top EXCEPT !.at = "loop", !.rc = "nop"] IN
  /\ At("back")
  /\ IF unmap THEN TakeDown(f.popup, [f EXCEPT !.popup = Nil])
     ELSE Becomes(f) /\ UNCHANGED h
  /\ Grabs

\* The pointer is on a menu that was opened before, or the menu is aborted.
Leave ==
  /\ At("loop") /\ Ends(Top, IF Top.sub THEN "popdown" ELSE "abort")
  /\ UNCHANGED h /\ Grabs

Abort == At("loop") /\ Ends(Top, "abort") /\ UNCHANGED h /\ Grabs

Choose == At("loop") /\ Top.sel # Nil /\ Ends(Top, "done") /\ UNCHANGED h /\ Grabs

TearOff ==
  /\ At("loop") /\ Ends(Top, IF IsTearOff(Top.menu) THEN "kill" ELSE "tear")
  /\ UNCHANGED h /\ Grabs

\* ClientMessage: the window of the tear-off is to be deleted
Delete == At("loop") /\ Top.tear # Nil /\ Ends(Top, "kill") /\ UNCHANGED h /\ Grabs

---------------------------------------------------------------------------
(* The end of a menu                                                       *)

\* variant: a submenu that was to be taken down later is forgotten
ExitForgets ==
  LET f == Top IN
  /\ At("exit")
  /\ IF f.popup # Nil /\ f.rc # "torn" THEN TakeDown(f.popup, [f EXCEPT !.popup = Nil])
     ELSE Becomes([f EXCEPT !.popup = Nil, !.popdown = Nil, !.at = "close"])
          /\ UNCHANGED h
  /\ Grabs

\* __mloop_exit
Exit ==
  LET f == Top IN
  /\ At("exit")
  /\ CASE f.popdown # Nil -> TakeDown(f.popdown, [f EXCEPT !.popdown = Nil])
       [] f.popdown = Nil /\ f.popup # Nil /\ f.rc # "torn" ->
            TakeDown(f.popup, [f EXCEPT !.popup = Nil])
       [] OTHER -> Becomes([f EXCEPT !.popup = Nil, !.at = "close"]) /\ UNCHANGED h
  /\ Grabs

\* menu_tear_off: clone_menu
Cloned(x, m, c) ==
  LET s == x.stat[x.inst[m].s] IN
  [x EXCEPT !.inst[c] = Instantiated(c, Nil, Nil, Nil),
            !.stat[c] = [s EXCEPT !.copies = 1, !.mapped = 0,
                                  !.up = FALSE, !.down = FALSE]]

\* do_menu_close_tear_off_menu
TearOffClosed(m) == Destroyed(PoppedDown(h, m), m)

\* do_menu, after its loop
Close ==
  LET f == [Top EXCEPT !.at = "closed"]
      m == f.menu
  IN  /\ At("close")
      /\ CASE f.rc = "tear" ->
                \E c \in Fresh :
                  LET g == [f EXCEPT !.rc = "torn"] IN
                  /\ h' = PoppedDown(Cloned(h, m, c), m)
                  /\ IF HasPopdownAction(m) THEN Executes(g) ELSE Becomes(g)
           [] f.rc = "kill" /\ IsTearOff(m) ->
                h' = TearOffClosed(m) /\ Becomes([f EXCEPT !.rc = "abort"])
           [] f.rc \notin {"tear", "kill"} /\ f.up ->
                TakeDown(m, [f EXCEPT !.rc = IF @ = "torn" THEN "abort" ELSE @])
           [] OTHER ->
                /\ Becomes([f EXCEPT !.rc = IF @ = "torn" THEN "abort" ELSE @])
                /\ UNCHANGED h
      /\ Grabs

\* do_menu returns to g, the rest of the stack.
Returns(rc, g) ==
  stack' =
    IF g = <<>> \/ Head(g).k # "menu" THEN g
    ELSE <<[Head(g) EXCEPT !.rc = rc, !.at =
             IF rc \in {"done", "abort", "torn"} THEN "exit" ELSE "back"]>>
         \o Tail(g)

Finishes(f, rest) ==
  /\ Returns(f.rc, rest)
  /\ keyboard' = keyboard - (IF ~f.sub /\ Indirect(rest) = 0 THEN 1 ELSE 0)

\* The pointer is released, and the action of the chosen item executed.
Closed ==
  LET f == Top IN
  /\ At("closed")
  /\ pointer' = pointer - (IF ~f.sub \/ f.tear # Nil THEN 1 ELSE 0)
  /\ IF ~f.sub /\ f.rc = "done"
       THEN Executes([f EXCEPT !.at = "chosen"]) /\ UNCHANGED keyboard
     ELSE Finishes(f, Tail(stack))
  /\ UNCHANGED h

\* variant: the pointer is not grabbed again
ChosenUngrabbed ==
  LET f == Top IN
  /\ At("chosen") /\ f.tear # Nil
  /\ Becomes([f EXCEPT !.at = "loop", !.rc = "nop", !.sel = Nil])
  /\ UNCHANGED h /\ Grabs

\* A tear-off goes on, if the pointer can be grabbed again.
Chosen ==
  LET f == Top IN
  /\ At("chosen")
  /\ \/ /\ f.tear # Nil
        /\ Becomes([f EXCEPT !.at = "loop", !.rc = "nop", !.sel = Nil])
        /\ pointer' = pointer + 1 /\ UNCHANGED keyboard
     \/ Finishes(f, Tail(stack)) /\ UNCHANGED pointer
  /\ UNCHANGED h

---------------------------------------------------------------------------
(* Commands and events                                                     *)

\* The command that a menu waits for ends.
Return ==
  /\ Top.k = "command" /\ stack' = Tail(stack)
  /\ UNCHANGED h /\ Grabs

\* CMD_AddToMenu, for the items
AddItems(n) ==
  LET m == Find(n) IN
  /\ Commands
  /\ \/ /\ m = Nil
        /\ \E c \in Fresh : h' = [Created(h, c, n) EXCEPT !.stat[c].items = Layout[n]]
     \/ /\ m # Nil /\ Shared(m).mapped = 0 /\ Shared(m).items = Empty
        /\ h' = [h EXCEPT !.stat[h.inst[m].s].items = Layout[n]]
  /\ UNCHANGED stack /\ Grabs

\* CMD_AddToMenu, for DynamicPopupAction and DynamicPopdownAction
AddActions(n, up, down) ==
  LET m == Find(n) IN
  /\ Commands /\ m # Nil /\ Shared(m).mapped = 0
  /\ h' = [h EXCEPT !.stat[h.inst[m].s] = [@ EXCEPT !.up = up, !.down = down]]
  /\ UNCHANGED stack /\ Grabs

\* CMD_DestroyMenu
Destroy(n, recreate) ==
  LET m == Find(n) IN
  /\ Commands /\ m # Nil /\ Shared(m).mapped = 0
  /\ m \notin {f.popup : f \in Range(stack)} \/ "empty" \in Habits
  /\ h' = IF recreate /\ Shared(m).copies = 1
            THEN [ItemsFreed(h, m) EXCEPT !.inst[m].parent = Nil,
                                          !.stat[h.inst[m].s].items = Empty]
          ELSE Destroyed(h, m)
  /\ UNCHANGED stack /\ Grabs

\* CMD_WindowList: a menu of its own is made, shown and destroyed. How many
\* there are is bound by the stack.
WindowList ==
  /\ Commands
  /\ \E c \in Fresh :
       LET y == [Created(h, c, ListName) EXCEPT !.stat[c].items = [i \in Slots |-> Nil]]
           f == [Frame("menu") EXCEPT !.up = TRUE, !.at = "open", !.next = c]
       IN  /\ h' = y
           /\ Len(stack) < MaxStack - 2
           /\ stack' = <<f, [Frame("list") EXCEPT !.menu = c]>> \o stack
           /\ pointer' = pointer + 1
  /\ UNCHANGED keyboard

WindowListDone ==
  /\ Top.k = "list"
  /\ h' = Destroyed(h, Top.menu)
  /\ stack' = Tail(stack) /\ Grabs

Event(e) == Top.k = "none" \/ (Top.k = "command" /\ e \in Habits)

\* EnterNotify: menu_enter_tear_off_menu
EnterTearOff(m) ==
  /\ Event("enter") /\ IsTearOff(m) /\ Len(stack) < MaxStack
  /\ stack' = <<[Frame("menu") EXCEPT !.menu = m, !.tear = m]>> \o stack
  /\ pointer' = pointer + 1
  /\ keyboard' = keyboard + (IF Indirect(stack) = 0 THEN 1 ELSE 0)
  /\ UNCHANGED h

\* ClientMessage: menu_close_tear_off_menu
CloseTearOff(m) ==
  /\ Event("close") /\ IsTearOff(m)
  /\ h' = TearOffClosed(m)
  /\ UNCHANGED stack /\ Grabs

---------------------------------------------------------------------------
Init ==
  /\ h = [all |-> <<>>, inst |-> [m \in Ids |-> Nil], stat |-> [m \in Ids |-> Nil],
          shown |-> {}]
  /\ stack = <<>> /\ pointer = 0 /\ keyboard = 0

Known == Names \cup (IF "list" \in Habits THEN {ListName} ELSE {})

Next ==
  \/ \E n \in Names : Menu(n)
  \/ Opened \/ NotOpened
  \/ \E i \in Slots, now \in BOOLEAN : Select(i, now)
  \/ PopupNow \/ MissingDone \/ Popup \/ Popped \/ Checked
  \/ PopdownNow \/ LeaveMenu \/ EnterPopup \/ EnterPopdown
  \/ \E unmap \in BOOLEAN : Back(unmap)
  \/ Leave \/ Abort \/ Choose \/ TearOff \/ Delete
  \/ Exit \/ Close \/ Closed \/ Chosen
  \/ Return
  \/ \E n \in Names : AddItems(n)
  \/ \E n \in Names, up, down \in BOOLEAN : AddActions(n, up, down)
  \/ \E n \in Known, recreate \in BOOLEAN : Destroy(n, recreate)
  \/ WindowList \/ WindowListDone
  \/ \E m \in Live : EnterTearOff(m)
  \/ \E m \in Live : CloseTearOff(m)

Spec == Init /\ [][Next]_vars

---------------------------------------------------------------------------
Frames ==
  [k : {"menu", "command", "list", "none"}, menu : Ids \cup {Nil},
   popup : Ids \cup {Nil}, popdown : Ids \cup {Nil}, sel : Slots \cup {Nil},
   sub : BOOLEAN, up : BOOLEAN, tear : Ids \cup {Nil},
   at : {"loop", "open", "missing", "popup", "popped", "check", "submenu",
         "back", "exit", "close", "closed", "chosen"},
   rc : {"nop", "popdown", "abort", "done", "tear", "torn", "kill", "error"},
   next : Ids \cup {Nil}, name : Names \cup {ListName, Nil}]

\* The variables have their types; menus in the list exist, and only those are
\* shown by do_menu.
TypeOK ==
  /\ stack \in Seq(Frames) /\ Len(stack) <= MaxStack
  /\ pointer \in Nat /\ keyboard \in Nat
  /\ Listed(h) \subseteq Live /\ h.shown \subseteq Listed(h)

\* The menus that a frame takes down when it ends
Shows(f) ==
  IF f.k # "menu" THEN {}
  ELSE {f.popup, f.popdown} \cup (IF f.up THEN {f.menu} ELSE {})

\* The menus that share the structure s
Family(s) == {c \in Live : h.inst[c].s = s}

\* Whatever commands do in the middle of menus: each menu on the screen will be
\* taken down by a call of do_menu that is still running, and copies are counted,
\* so that when the last call returns no menu and no grab is left.
EveryMenuOwned ==
  /\ h.shown \subseteq UNION {Shows(f) : f \in Range(stack)}
  /\ \A m \in Live :
       LET family == Family(h.inst[m].s) IN
       /\ Shared(m).copies = Cardinality(family)
       /\ Shared(m).mapped = Cardinality(family \cap h.shown)
       /\ ~IsTearOff(m) => h.inst[m].original \in family
  /\ stack = <<>> => pointer = 0 /\ keyboard = 0

\* The submenu of the frame i was torn off, and is not used any more.
TornOff(i) ==
  \/ stack[i].at = "exit" /\ stack[i].rc = "torn"
  \/ stack[i].at = "submenu" /\ stack[i - 1].at = "closed" /\ stack[i - 1].rc = "torn"

\* The menus that the frame i works with
Uses(i) ==
  LET f == stack[i] IN
  CASE f.k = "list" -> {f.menu}
    [] f.k = "menu" /\ f.at \notin {"open", "closed", "chosen"} ->
         {f.menu, f.popdown, f.next} \cup (IF TornOff(i) THEN {} ELSE {f.popup})
    [] OTHER -> {}

\* Menus are not destroyed while a loop that waits for a command or a submenu
\* still works with them (menus.c:6447); and the submenu that a loop has open is
\* the one of the selected item, although they come and go in any order.
UsedMenusLive ==
  /\ \A i \in DOMAIN stack : Uses(i) \subseteq Live \cup {Nil}
  /\ At("loop") /\ Top.popup # Nil =>
       Shared(Top.popup).name = Shared(Top.menu).items[Top.sel]

\* Menus go away once and not earlier.
MenusKept == EveryMenuOwned /\ UsedMenusLive

===============================================================================
