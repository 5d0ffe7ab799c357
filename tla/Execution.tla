------------------------------ MODULE Execution ------------------------------
(***************************************************************************)
(* How commands are executed: complex functions (mvwm/functions.c), files  *)
(* of commands (mvwm/read.c), All and Break (mvwm/conditional.c), the      *)
(* pointer grabs they hold (mvwm/misc.c), and the windows that go away     *)
(* while they run (destroy_window of mvwm/add_window.c, mvwm/update.c).    *)
(*                                                                         *)
(* What a command line says is not part of the state: variables expand     *)
(* anew each time, so a line may be any command each time it is executed.  *)
(* The frames of the call stack, innermost first:                          *)
(*     "call", "back"  __execute_function, before and after its command    *)
(*     "func"          execute_complex_function, running items             *)
(*     "read", "pipe"  run_command_stream for Read and PipeRead            *)
(*     "all"           CMD_All                                             *)
(*     "wait"          the event loop of CMD_Wait                          *)
(*     "press"         HandleButtonPress                                   *)
(***************************************************************************)
EXTENDS Integers, SequencesExt

CONSTANTS
  Windows,
  Funcs,             \* names of complex functions
  Nil,               \* NULL
  Conds,             \* the conditions of items: "i" and some of "m", "h", "c", "d"
  MAX_FUNCTION_DEPTH,
  MAX_READ_DEPTH,
  MaxItems,          \* bound: items of a function
  MaxLines,          \* bound: lines of a file
  MaxBreak,          \* bound: levels given to Break
  MaxWaits           \* bound: nesting of Wait commands

ASSUME ExecutionAssumption ==
  /\ Nil \notin Windows \cup Funcs \cup Conds /\ IsFiniteSet(Windows)
  /\ "i" \in Conds /\ Conds \subseteq {"i", "m", "h", "c", "d"}
  /\ MAX_FUNCTION_DEPTH \in Nat \ {0} /\ MAX_READ_DEPTH \in Nat
  /\ MaxItems \in Nat /\ MaxLines \in Nat /\ MaxBreak \in Nat /\ MaxWaits \in Nat

VARIABLES
  functions,       \* Scr.functions: the functions that exist, with items and use_depth
  last_added,      \* Scr.last_added_item, if that is a function
  stack,
  rcs,             \* break_levels of each cond_rc_t; the last one is in use
  func_depth, depth, is_executing_complex_function,
  pointer,         \* grab_count, and the statics of cursor_control
  busy_read,       \* Scr.BusyCursor & BUSY_READ
  curr_read_depth,
  scheduled,       \* windows that are scheduled for destruction, but in complex functions
  freed,           \* ghost: windows whose structure is freed
  undefined        \* ghost: a freed window was followed; the model stops there

windowVars == <<scheduled, freed>>
countVars == <<func_depth, depth, is_executing_complex_function>>
vars == <<functions, last_added, stack, rcs, countVars, pointer, busy_read,
          curr_read_depth, scheduled, freed, undefined>>

Frame ==
  [at : {"call", "back", "func", "read", "pipe", "all", "wait", "press"},
   fw : Windows \cup {Nil}, \* as long as it is needed
   own : BOOLEAN,          \* func_rc is dummy_rc
   passes : BOOLEAN,       \* cond_rc is not NULL
   fn : Funcs \cup {Nil},
   phase : Conds \cup {"none"},
   n : Nat,                \* the next item, or the lines to come
   left : {"no", "yes", "unsure"},   \* ghost: a Break has left this function
   wins : Seq(Windows),    \* the windows that All has still to visit
   regrab : BOOLEAN]       \* is_ungrabbed

At(point, fw) ==
  [at |-> point, fw |-> fw, own |-> FALSE, passes |-> FALSE, fn |-> Nil, phase |-> "none",
   n |-> 0, left |-> "no", wins |-> <<>>, regrab |-> FALSE]

Top == stack[1]
Runs(points) == ~undefined /\ stack # <<>> /\ Top.at \in points
Frames(point) == {i \in DOMAIN stack : stack[i].at = point}
break_levels == Last(rcs)
Live == Windows \ (scheduled \cup freed)
-----------------------------------------------------------------------------
(* misc.c and cursor_control: what a call makes of p, the pointer *)

Contexts == {"all", "normal", "busy", "passive"}

(* the results that GrabEm can have *)
GrabEm(p, context) ==
  LET counted == [p EXCEPT !.count[context] = @ + 1, !.count["all"] = @ + 1]
  IN IF context = "passive" \/ p.count["all"] > p.count["passive"]
     THEN {<<TRUE, counted>>}
     ELSE {<<TRUE, [counted EXCEPT !.held = TRUE]>>, <<FALSE, p>>}

IsGrabbed(p, context) == p.count[context] > 0 /\ p.count["all"] > 0

(* a variant that does not look whether the context is grabbed *)
UngrabEmUnchecked(p, context) ==
  LET q == [p EXCEPT !.count[context] = @ - 1, !.count["all"] = @ - 1]
  IN [q EXCEPT !.held = @ /\ q.count["all"] > 0]

UngrabEm(p, context) ==
  LET q == [p EXCEPT !.count[context] = @ - 1, !.count["all"] = @ - 1]
  IN IF ~IsGrabbed(p, context) THEN p
     ELSE [q EXCEPT !.held = @ /\ q.count["all"] > 0]

(* cursor_control(True) and cursor_control(False) *)
BusyOn(p) ==
  LET tried == IF p.read_depth = 0
               THEN {[r[2] EXCEPT !.need_ungrab = @ \/ r[1]] : r \in GrabEm(p, "busy")}
               ELSE {p}
  IN IF ~busy_read /\ ~p.need_ungrab THEN {p}
     ELSE {IF q.need_ungrab THEN [q EXCEPT !.read_depth = @ + 1] ELSE q : q \in tried}

BusyOff(p) ==
  IF ~p.need_ungrab THEN p
  ELSE IF p.read_depth = 1 \/ ~busy_read
       THEN [UngrabEm(p, "busy") EXCEPT !.need_ungrab = FALSE, !.read_depth = 0]
       ELSE [p EXCEPT !.read_depth = @ - 1]
-----------------------------------------------------------------------------
(* __execute_function, called by "rest" for a command on fw: with cond_rc   *)
(* NULL, or with the one in use; keeps: the prefix KeepRc                   *)
Execute(fw, passes, keeps, rest) ==
  IF func_depth = MAX_FUNCTION_DEPTH
  THEN stack' = rest /\ UNCHANGED <<func_depth, rcs>>
  ELSE LET own == ~passes \/ keeps
       IN /\ func_depth' = func_depth + 1
          /\ stack' = <<[At("call", fw) EXCEPT !.own = own, !.passes = passes]>> \o rest
          /\ rcs' = IF own THEN Append(rcs, 0) ELSE rcs

(* a variant that drops the breaks of a command with KeepRc *)
ReturnDrops(r) ==
  /\ stack' = Tail(stack)
  /\ func_depth' = func_depth - 1
  /\ rcs' = IF Top.own THEN Front(r) ELSE r

(* its end, when the conditional return codes are r *)
Return(r) ==
  /\ stack' = Tail(stack)
  /\ func_depth' = func_depth - 1
  /\ rcs' = IF ~Top.own THEN r
            ELSE IF Top.passes THEN [Front(r) EXCEPT ![Len(r) - 1] = Last(r)]
            ELSE Front(r)

(* the command of the call on top has called something and will go on, *)
(* which does not need the window                                      *)
Caller == [Top EXCEPT !.at = "back", !.fw = Nil]
Calls(frame) == <<frame, Caller>> \o Tail(stack)

ExecReturn ==
  /\ Runs({"back"})
  /\ Return(rcs)
  /\ UNCHANGED <<functions, last_added, depth, is_executing_complex_function, pointer,
                 busy_read, curr_read_depth, windowVars, undefined>>
-----------------------------------------------------------------------------
(* Windows *)

(* destroy_window; a window in scheduled is IS_SCHEDULED_FOR_DESTROY and in *)
(* the list Scr.FWScheduledForDestroy.                                      *)
Destroy(w) ==
  IF is_executing_complex_function
  THEN scheduled' = scheduled \cup {w} /\ UNCHANGED freed
  ELSE freed' = freed \cup {w} /\ UNCHANGED scheduled

(* destroy_scheduled_windows, at the start of the loop of HandleEvents; not *)
(* between the commands that My_XNextEvent executes before it returns       *)
LoopTurn ==
  /\ ~undefined /\ stack = <<>> /\ scheduled # {}
  /\ scheduled' = {} /\ freed' = freed \cup scheduled
  /\ undefined' = (scheduled \cap freed # {})
  /\ UNCHANGED <<functions, last_added, stack, rcs, countVars, pointer, busy_read,
                 curr_read_depth>>

(* an event can be dispatched: in HandleEvents or in CMD_Wait *)
InLoop == ~undefined /\ (stack # <<>> => Top.at = "wait")

(* a command of a binding, of the scheduler or of a module, on the root *)
(* window or on a window with a context                                 *)
InputCommand(fw) ==
  /\ InLoop /\ fw \in Live \cup {Nil}
  /\ Execute(fw, FALSE, FALSE, stack)
  /\ UNCHANGED <<functions, last_added, depth, is_executing_complex_function, pointer,
                 busy_read, curr_read_depth, windowVars, undefined>>

HandleButtonPress(fw) ==
  /\ InLoop /\ fw \in Live \cup {Nil}
  /\ \E r \in GrabEm(pointer, "passive") : pointer' = r[2]
  /\ Execute(fw, FALSE, FALSE, <<At("press", Nil)>> \o stack)
  /\ UNCHANGED <<functions, last_added, depth, is_executing_complex_function,
                 busy_read, curr_read_depth, windowVars, undefined>>

PressEnd ==
  /\ Runs({"press"})
  /\ pointer' = UngrabEm(pointer, "passive")
  /\ stack' = Tail(stack)
  /\ UNCHANGED <<functions, last_added, rcs, countVars, busy_read, curr_read_depth, windowVars,
                 undefined>>

(* DestroyNotify or UnmapNotify *)
HandleDestroyNotify(w) ==
  /\ InLoop /\ w \in Live
  /\ Destroy(w)
  /\ UNCHANGED <<functions, last_added, stack, rcs, countVars, pointer, busy_read,
                 curr_read_depth, undefined>>
-----------------------------------------------------------------------------
(* Commands that call nothing *)

otherVars == <<functions, last_added, depth, is_executing_complex_function, pointer,
               busy_read, curr_read_depth, windowVars, undefined>>

(* a command on a window that is freed *)
Dangling ==
  /\ Runs({"call"}) /\ Top.fw \in freed
  /\ undefined' = TRUE
  /\ UNCHANGED <<functions, last_added, stack, rcs, countVars, pointer, busy_read,
                 curr_read_depth, windowVars>>

(* a command is executed; if it is on a window, the window is not freed *)
Command == Runs({"call"}) /\ Top.fw \notin freed

(* the functions on the stack that have the conditional return code in use  *)
(* in common                                                                *)
Nested ==
  {i \in Frames("func") :
     \A j \in 1 .. i : stack[j].at \in {"call", "back"} => stack[j].passes}

(* those that a Break of n levels leaves; n = -1: all *)
LeftBy(n) ==
  IF n = -1 THEN Nested
  ELSE {i \in Nested : Cardinality({j \in Nested : j <= i}) <= n}

(* CMD_Break *)
CmdBreak(n) ==
  /\ Command
  /\ func_depth' = func_depth - 1
  /\ LET marked == [i \in DOMAIN stack |->
           IF i \in LeftBy(n) THEN [stack[i] EXCEPT !.left = "yes"] ELSE stack[i]]
     IN stack' = Tail(marked)
  /\ rcs' = IF Top.own /\ Top.passes THEN [Front(rcs) EXCEPT ![Len(rcs) - 1] = n]
            ELSE IF Top.own THEN Front(rcs) ELSE [rcs EXCEPT ![Len(rcs)] = n]
  /\ UNCHANGED otherVars

NewMvwmFunction == [items |-> <<>>, use_depth |-> 0]

(* AddToFunction for a function that exists; cond is Nil if no item is given *)
AddToFunction(fs, f, cond) ==
  IF cond = Nil THEN fs ELSE [fs EXCEPT ![f].items = Append(@, cond)]

CmdAddToFunc(f, cond) ==
  /\ Command
  /\ LET fs == [g \in DOMAIN functions \cup {f} |->
                  IF g \in DOMAIN functions THEN functions[g] ELSE NewMvwmFunction]
     IN /\ cond # Nil => Len(fs[f].items) < MaxItems
        /\ functions' = AddToFunction(fs, f, cond)
  /\ last_added' = f
  /\ Return(rcs)
  /\ UNCHANGED <<depth, is_executing_complex_function, pointer, busy_read,
                 curr_read_depth, windowVars, undefined>>

(* CMD_Plus, when a function was added to last *)
CmdPlus(cond) ==
  /\ Command /\ last_added # Nil
  /\ Len(functions[last_added].items) < MaxItems
  /\ functions' = AddToFunction(functions, last_added, cond)
  /\ Return(rcs)
  /\ UNCHANGED <<last_added, depth, is_executing_complex_function, pointer, busy_read,
                 curr_read_depth, windowVars, undefined>>

(* a variant that does not look at use_depth *)
CmdDestroyFuncInUse(f) ==
  /\ Command /\ f \in DOMAIN functions
  /\ last_added' = Nil
  /\ functions' = [g \in DOMAIN functions \ {f} |-> functions[g]]
  /\ Return(rcs)
  /\ UNCHANGED <<depth, is_executing_complex_function, pointer, busy_read,
                 curr_read_depth, windowVars, undefined>>

CmdDestroyFunc(f) ==
  /\ Command /\ f \in DOMAIN functions
  /\ last_added' = Nil
  /\ functions' = IF functions[f].use_depth # 0 THEN functions
                  ELSE [g \in DOMAIN functions \ {f} |-> functions[g]]
  /\ Return(rcs)
  /\ UNCHANGED <<depth, is_executing_complex_function, pointer, busy_read,
                 curr_read_depth, windowVars, undefined>>

CmdDestroy ==
  /\ Command /\ Top.fw # Nil
  /\ Destroy(Top.fw)
  /\ Return(rcs)
  /\ UNCHANGED <<functions, last_added, depth, is_executing_complex_function, pointer,
                 busy_read, curr_read_depth, undefined>>

(* Focus and FlipFocus release the pointer first *)
CmdFocus ==
  /\ Command /\ Top.fw # Nil
  /\ pointer' = UngrabEm(pointer, "normal")
  /\ Return(rcs)
  /\ UNCHANGED <<functions, last_added, depth, is_executing_complex_function,
                 busy_read, curr_read_depth, windowVars, undefined>>

CmdBusyCursor(on) ==
  /\ Command /\ busy_read # on
  /\ busy_read' = on
  /\ Return(rcs)
  /\ UNCHANGED <<functions, last_added, depth, is_executing_complex_function, pointer,
                 curr_read_depth, windowVars, undefined>>
-----------------------------------------------------------------------------
(* execute_complex_function *)

(* __cf_cleanup: what becomes of the conditional return codes *)
CleanedUp(r) == IF Last(r) > 0 THEN [r EXCEPT ![Len(r)] = @ - 1] ELSE r

Leave ==
  /\ depth' = depth - 1
  /\ is_executing_complex_function' = (depth > 1)

(* The function is found and run on fw: the window of the command, or one   *)
(* that DeferExecution lets the user select for an immediate action.        *)
CallFunction(f, fw) ==
  /\ Command /\ f \in DOMAIN functions
  /\ fw \in IF Top.fw = Nil THEN Live \cup {Nil} ELSE {Top.fw}
  /\ \E r \in GrabEm(pointer, "normal") :
       /\ r[1]
       /\ pointer' = r[2]
  /\ depth' = depth + 1
  /\ is_executing_complex_function' = TRUE
  /\ functions' = [functions EXCEPT ![f].use_depth = @ + 1]
  /\ stack' = Calls([At("func", fw) EXCEPT
                      !.fn = f, !.phase = "i", !.n = 1,
                      !.left = IF break_levels = 0 THEN "no" ELSE "unsure"])
  /\ UNCHANGED <<last_added, rcs, func_depth, busy_read, curr_read_depth, windowVars,
                 undefined>>

(* no window is selected, or the pointer can not be grabbed *)
CallFunctionRefused(f) ==
  /\ Command /\ f \in DOMAIN functions
  /\ Return(CleanedUp(rcs))
  /\ UNCHANGED <<functions, last_added, depth, is_executing_complex_function, pointer,
                 busy_read, curr_read_depth, windowVars, undefined>>

Items == functions[Top.fn].items

(* the items that are still to be executed in this phase *)
Remaining == {i \in Top.n .. Len(Items) : Items[i] = Top.phase}

(* __run_complex_function_items *)
RunItem(keeps) ==
  /\ Runs({"func"}) /\ break_levels = 0 /\ Remaining # {}
  /\ Execute(Top.fw, TRUE, keeps,
             <<[Top EXCEPT !.n = Min(Remaining) + 1]>> \o Tail(stack))
  /\ UNCHANGED otherVars

Has(cond) == cond \in ToSet(Items)
Persist == break_levels = 0 /\ \E c \in Conds \ {"i"} : Has(c)

(* what CheckActionType can find *)
Actions ==
  {"m", "c"} \cup (IF Has("h") THEN {"h"} ELSE {}) \cup (IF Has("d") THEN {"d"} ELSE {})

(* the immediate items have been executed; the user selects a window if one *)
(* is needed, and clicks or moves the mouse                                 *)
NextPhase(type, fw) ==
  /\ Runs({"func"}) /\ Top.phase = "i" /\ Remaining = {}
  /\ Persist /\ type \in Actions \cap Conds
  /\ fw \in IF Top.fw = Nil THEN Live \cup {Nil} ELSE {Top.fw}
  /\ stack' = <<[Top EXCEPT !.phase = type, !.n = 1, !.fw = fw]>> \o Tail(stack)
  /\ UNCHANGED <<rcs, func_depth, otherVars>>

(* a variant that forgets the pointer when the function is left by Break *)
FunctionEndGrabbed ==
  /\ Runs({"func"}) /\ (break_levels # 0 \/ Remaining = {})
  /\ functions' = [functions EXCEPT ![Top.fn].use_depth = @ - 1]
  /\ Leave
  /\ rcs' = CleanedUp(rcs)
  /\ pointer' = IF break_levels # 0 THEN pointer ELSE UngrabEm(pointer, "normal")
  /\ stack' = Tail(stack)
  /\ UNCHANGED <<last_added, func_depth, busy_read, curr_read_depth, windowVars,
                 undefined>>

(* the function ends: after its immediate items, if it has no others, is    *)
(* left, or no window is selected; or after all items                       *)
FunctionEnd ==
  /\ Runs({"func"}) /\ (break_levels # 0 \/ Remaining = {})
  /\ functions' = [functions EXCEPT ![Top.fn].use_depth = @ - 1]
  /\ Leave
  /\ rcs' = CleanedUp(rcs)
  /\ pointer' = UngrabEm(pointer, "normal")
  /\ stack' = Tail(stack)
  /\ UNCHANGED <<last_added, func_depth, busy_read, curr_read_depth, windowVars,
                 undefined>>
-----------------------------------------------------------------------------
(* Commands that execute other commands *)

(* All and PipeRead do not look at break_levels: a break that is in force   *)
(* when another of their commands begins is counted down by the functions   *)
(* that this command calls, and how far it goes then is not told.           *)
Unsure ==
  [i \in DOMAIN stack |->
     IF break_levels # 0 /\ i \in Nested /\ stack[i].left = "yes"
     THEN [stack[i] EXCEPT !.left = "unsure"] ELSE stack[i]]

(* Next, Pick, TestRc and other conditional commands, and command prefixes *)
CmdConditional(fw, keeps) ==
  /\ Command /\ fw \in Live \cup {Nil, Top.fw}
  /\ Execute(fw, TRUE, keeps, <<Caller>> \o Tail(stack))
  /\ UNCHANGED otherVars

(* CMD_All, for the windows that match the conditions, in any order *)
CmdAll(S) ==
  /\ Command /\ S \subseteq Live
  /\ \E wins \in SetToSeqs(S) : stack' = Calls([At("all", Nil) EXCEPT !.wins = wins])
  /\ UNCHANGED <<rcs, func_depth, otherVars>>

AllNext ==
  /\ Runs({"all"}) /\ Top.wins # <<>>
  /\ LET w == Head(Top.wins)
     IN IF w \in freed
        THEN undefined' = TRUE /\ UNCHANGED <<stack, rcs, func_depth>>
        ELSE /\ Execute(w, TRUE, FALSE,
                        <<[Top EXCEPT !.wins = Tail(@)]>> \o Tail(Unsure))
             /\ UNCHANGED undefined
  /\ UNCHANGED <<functions, last_added, depth, is_executing_complex_function, pointer,
                 busy_read, curr_read_depth, windowVars>>

AllEnd ==
  /\ Runs({"all"}) /\ Top.wins = <<>>
  /\ stack' = Tail(stack)
  /\ UNCHANGED <<rcs, func_depth, otherVars>>

(* CMD_Read with a file that can be opened *)
CmdRead ==
  /\ Command /\ curr_read_depth < MAX_READ_DEPTH
  /\ curr_read_depth' = curr_read_depth + 1
  /\ pointer' \in BusyOn(pointer)
  /\ stack' = Calls([At("read", Top.fw) EXCEPT !.n = MaxLines])
  /\ UNCHANGED <<functions, last_added, rcs, countVars, busy_read, windowVars,
                 undefined>>

CmdPipeRead ==
  /\ Command
  /\ pointer' \in BusyOn(pointer)
  /\ stack' = Calls([At("pipe", Top.fw) EXCEPT !.n = MaxLines])
  /\ UNCHANGED <<functions, last_added, rcs, countVars, busy_read, curr_read_depth,
                 windowVars, undefined>>

(* the file can not be opened, or the stack of files is full *)
CmdReadFails ==
  /\ Command
  /\ pointer' \in {BusyOff(p) : p \in BusyOn(pointer)}
  /\ Return(rcs)
  /\ UNCHANGED <<functions, last_added, depth, is_executing_complex_function, busy_read,
                 curr_read_depth, windowVars, undefined>>

(* run_command_stream *)
StreamLine ==
  /\ Runs({"read", "pipe"}) /\ Top.n > 0
  /\ Execute(Top.fw, Top.at = "pipe", FALSE,
             <<[Top EXCEPT !.n = @ - 1]>> \o Tail(IF Top.at = "pipe" THEN Unsure ELSE stack))
  /\ UNCHANGED otherVars

StreamEnd ==
  /\ Runs({"read", "pipe"})
  /\ curr_read_depth' = curr_read_depth - (IF Top.at = "read" THEN 1 ELSE 0)
  /\ pointer' = BusyOff(pointer)
  /\ stack' = Tail(stack)
  /\ UNCHANGED <<functions, last_added, rcs, countVars, busy_read, windowVars,
                 undefined>>

(* CMD_Wait releases the pointer once and grabs it again at the end. *)
CmdWait ==
  /\ Command /\ Cardinality(Frames("wait")) < MaxWaits
  /\ pointer' = UngrabEm(pointer, "normal")
  /\ stack' = Calls([At("wait", Nil) EXCEPT !.regrab = IsGrabbed(pointer, "normal")])
  /\ UNCHANGED <<functions, last_added, rcs, countVars, busy_read, curr_read_depth,
                 windowVars, undefined>>

WaitEnd ==
  /\ Runs({"wait"})
  /\ IF Top.regrab THEN \E r \in GrabEm(pointer, "normal") : pointer' = r[2]
     ELSE UNCHANGED pointer
  /\ stack' = Tail(stack)
  /\ UNCHANGED <<functions, last_added, rcs, countVars, busy_read, curr_read_depth,
                 windowVars, undefined>>
-----------------------------------------------------------------------------
Init ==
  /\ functions = <<>> /\ last_added = Nil
  /\ stack = <<>> /\ rcs = <<>>
  /\ func_depth = 0 /\ depth = 0 /\ is_executing_complex_function = FALSE
  /\ pointer = [count |-> [c \in Contexts |-> 0], held |-> FALSE,
                read_depth |-> 0, need_ungrab |-> FALSE]
  /\ busy_read = FALSE /\ curr_read_depth = 0
  /\ scheduled = {} /\ freed = {}
  /\ undefined = FALSE

Events ==
  \/ LoopTurn \/ PressEnd
  \/ \E fw \in Windows \cup {Nil} : InputCommand(fw) \/ HandleButtonPress(fw)
  \/ \E w \in Windows : HandleDestroyNotify(w)

Simple ==
  \/ \E n \in {-1} \cup 1 .. MaxBreak : CmdBreak(n)
  \/ \E f \in Funcs, cond \in Conds \cup {Nil} : CmdAddToFunc(f, cond)
  \/ \E cond \in Conds : CmdPlus(cond)
  \/ \E f \in Funcs : CmdDestroyFunc(f)
  \/ \E on \in BOOLEAN : CmdBusyCursor(on)
  \/ CmdDestroy \/ CmdFocus \/ Dangling \/ ExecReturn

Nesting ==
  \/ \E f \in Funcs, fw \in Windows \cup {Nil} : CallFunction(f, fw)
  \/ \E f \in Funcs : CallFunctionRefused(f)
  \/ \E keeps \in BOOLEAN : RunItem(keeps)
  \/ \E type \in Conds, fw \in Windows \cup {Nil} : NextPhase(type, fw)
  \/ FunctionEnd
  \/ \E fw \in Windows \cup {Nil}, keeps \in BOOLEAN : CmdConditional(fw, keeps)
  \/ \E S \in SUBSET Windows : CmdAll(S)
  \/ AllNext \/ AllEnd
  \/ CmdRead \/ CmdPipeRead \/ CmdReadFails \/ StreamLine \/ StreamEnd
  \/ CmdWait \/ WaitEnd

Next == Events \/ Simple \/ Nesting

Spec == Init /\ [][Next]_vars
-----------------------------------------------------------------------------
(* Properties *)

(* The state has its shape; no counter of misc.c, read.c or functions.c is  *)
(* ever negative or beyond its limit.                                       *)
TypeOK ==
  /\ \A f \in DOMAIN functions :
       /\ f \in Funcs /\ functions[f].use_depth \in 0 .. MAX_FUNCTION_DEPTH
       /\ functions[f].items \in Seq(Conds) /\ Len(functions[f].items) <= MaxItems
  /\ last_added \in Funcs \cup {Nil}
  /\ \A i \in DOMAIN stack : stack[i] \in Frame
  /\ \A i \in DOMAIN rcs : rcs[i] \in -1 .. MaxBreak
  /\ func_depth \in 0 .. MAX_FUNCTION_DEPTH /\ depth \in 0 .. MAX_FUNCTION_DEPTH
  /\ curr_read_depth \in 0 .. MAX_READ_DEPTH
  /\ pointer.count \in [Contexts -> Nat] /\ pointer.read_depth \in Nat
  /\ {is_executing_complex_function, pointer.held, pointer.need_ungrab, busy_read, undefined} \subseteq BOOLEAN
  /\ scheduled \cup freed \subseteq Windows

(* When the last command of an event has returned nothing is left over of   *)
(* it: every depth counter of functions.c and read.c is zero, no function   *)
(* is in use, and the pointer is released, however the functions ended and  *)
(* whatever Wait, Focus and BusyCursor did to the grabs in between.         *)
ReleasedWhenIdle ==
  stack = <<>> =>
    /\ func_depth = 0 /\ depth = 0 /\ ~is_executing_complex_function
    /\ curr_read_depth = 0 /\ rcs = <<>>
    /\ \A f \in DOMAIN functions : functions[f].use_depth = 0
    /\ \A c \in Contexts : pointer.count[c] = 0
    /\ ~pointer.held /\ pointer.read_depth = 0 /\ ~pointer.need_ungrab

(* grab_count tells the truth about the server: the pointer is grabbed when *)
(* something more than passive grabs is counted, and is not when nothing is.*)
GrabIsReal ==
  /\ pointer.count["all"] > pointer.count["passive"] => pointer.held
  /\ pointer.count["all"] = 0 => ~pointer.held

(* Grabs, depths and uses are given back exactly once.                      *)
GrabsBalanced == ReleasedWhenIdle /\ GrabIsReal

(* A function on the call stack exists, though DestroyFunc and Read may be  *)
(* executed inside, and use_depth counts its activations; "+" never appends *)
(* to a function that is gone.                                              *)
FunctionsInUse ==
  /\ \A i \in Frames("func") : stack[i].fn \in DOMAIN functions
  /\ \A f \in DOMAIN functions :
       functions[f].use_depth = Cardinality({i \in Frames("func") : stack[i].fn = f})
  /\ last_added \in DOMAIN functions \cup {Nil}

(* Break leaves the functions it says and no other: a function that goes on *)
(* has not been left, and one that stops has been; through conditional      *)
(* commands, KeepRc, Read and Wait. (Not if All or PipeRead goes on with    *)
(* other commands in between, see Unsure.)                                  *)
BreakExact ==
  Runs({"func"}) =>
    /\ Top.left = "yes" => break_levels # 0
    /\ break_levels # 0 => Top.left # "no"

(* Inside a complex function no command gets a window that is freed: not    *)
(* from its context, and not from the list that All made before it started. *)
FunctionWindowsLive ==
  freed # {} =>
    \A j \in Frames("func") : \A i \in 1 .. j :
      ({stack[i].fw} \cup ToSet(stack[i].wins)) \cap freed = {}

\* What the C stack of a running function refers to exists: functions and windows.
ContextsLive == FunctionsInUse /\ FunctionWindowsLive
=============================================================================
