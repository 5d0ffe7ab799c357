----------------------------- MODULE ModuleLink -----------------------------
(***************************************************************************)
(* The window manager's end of the pipes to its modules:                   *)
(* mvwm/module_list.c, the command queue of mvwm/module_interface.c, and   *)
(* the parts of the event loop (My_XNextEvent of mvwm/events.c) that serve *)
(* modules.                                                                *)
(*                                                                         *)
(* The window manager has one thread, but it re-enters itself: while       *)
(* PositiveWrite waits for a module to unlock it, it executes the commands *)
(* that the module sends; the command Wait runs a nested event loop.  The  *)
(* call stack is part of the state; the frames, innermost first:           *)
(*     "begin", "select", "input", "exec", "end", "woken"   My_XNextEvent         *)
(*     "cmd"     a command; mod is the module it came from (exc->m.module) *)
(*     "each"    a loop over the module list that sends msg, or flushes    *)
(*     "pw"      PositiveWrite, waiting for the unlock                     *)
(*     "flush"   FlushMessageQueue                                         *)
(*     "sync"    CMD_ModuleSynchronous, waiting                            *)
(* A module is a process at the other end of two pipes.                    *)
(***************************************************************************)
EXTENDS Integers, SequencesExt, Subsequences

CONSTANTS
  Modules,       \* the modules that can be started, each of them once
  Nil,           \* NULL
  CmdLine,       \* the modules that were started on the command line
  Types,         \* event types of packets
  Extended,      \* those that carry M_EXTENDED_MSG
  Masks,         \* the masks that modules set: of "pipe", "sync", "nograb"
  Texts,         \* the commands of modules: "unlock", "finished" or "other"
  Units,         \* a packet is written to a pipe in this many units
  PipeSize,      \* units a pipe holds
  MaxPackets,    \* bound: packets sent
  MaxInputs,     \* bound: commands that modules send
  MaxWaits,      \* bound: nesting of Wait commands
  MaxGrabs,      \* bound: nesting of server grabs
  MayExit,       \* do modules exit without notice?
  MayTerminate   \* does a terminate signal arrive?

ASSUME ModuleLinkAssumption ==
  /\ Nil \notin Modules /\ CmdLine \subseteq Modules /\ IsFiniteSet(CmdLine)
  /\ Extended \subseteq Types
  /\ Masks \subseteq {"pipe", "sync", "nograb"}
  /\ Texts \subseteq {"unlock", "finished", "other"}
  /\ Units \in Nat \ {0} /\ PipeSize \in Nat \ {0}
  /\ MaxPackets \in Nat /\ MaxInputs \in Nat /\ MaxWaits \in Nat
  /\ MaxGrabs \in Nat
  /\ MayExit \in BOOLEAN /\ MayTerminate \in BOOLEAN

VARIABLES
  module_list, death_row,   \* the two lists, as sequences of modules
  fmod,          \* the structure of each module: masks and xpipeQueue
  freed,         \* ghost: modules whose structure module_free has freed
  cqueue,        \* the inputs of modules that wait to be executed
  stack,
  myxgrabcount, fMvwmInStartup, isTerminated,
  wire,          \* the two pipes of each module and the process behind them
  packets,       \* ghost: the number of packets sent so far
  inputs,        \* ghost: the number of commands that modules have sent
  ran,           \* ghost: the last command of each module that was executed
  undefined      \* ghost: which dangling pointer was followed.  What happens
                 \* then is undefined; the model stops there.

listVars == <<module_list, death_row, freed>>
linkVars == <<fmod, wire, inputs>>
modeVars == <<myxgrabcount, fMvwmInStartup, isTerminated, undefined>>
vars == <<module_list, death_row, fmod, freed, cqueue, stack, myxgrabcount,
          fMvwmInStartup, isTerminated, wire, packets, inputs, ran, undefined>>

Pointers == Modules \cup {Nil}

(* last: the module announces that it quits (ModuleContinue = 0) *)
Input == [mod : Modules, num : 1 .. MaxInputs, text : Texts, last : BOOLEAN]

Message == [id : 1 .. MaxPackets, type : Types]
NoMsg == [id |-> 0, type |-> "none"]

(* mqueue_object_type *)
Queued == [id : 1 .. MaxPackets, type : Types, done : 0 .. Units - 1]

(* where My_XNextEvent may be, or the loop that called it *)
LoopPoints == {"begin", "select", "input", "exec", "end", "woken"}

Frame ==
  [at : LoopPoints \cup {"cmd", "each", "pw", "flush", "sync"},
   mod : Pointers, itr : Pointers, msg : Message \cup {NoMsg},
   in : SUBSET Modules, out : SUBSET Modules]

At(point) == [at |-> point, mod |-> Nil, itr |-> Nil, msg |-> NoMsg, in |-> {}, out |-> {}]
Of(point, m) == [At(point) EXCEPT !.mod = m]
Pw(m, msg) == [Of("pw", m) EXCEPT !.msg = msg]

(* a loop that sends msg to the modules of S; out: and flushes them *)
Each(itr, msg, S, flushed) ==
  [At("each") EXCEPT !.itr = itr, !.msg = msg, !.in = S, !.out = flushed]

Top == stack[1]
Push(f) == <<f>> \o stack
Goto(f) == <<f>> \o Tail(stack)
Waits == Cardinality({i \in DOMAIN stack : stack[i].at \in LoopPoints}) - 1
Running == undefined = "none" /\ stack # <<>>
Runs(points) == Running /\ Top.at \in points
-----------------------------------------------------------------------------
(* The list of modules.  A store of the list is named by its module. *)

ItrInit == IF module_list = <<>> THEN Nil ELSE module_list[1]

(* module_list_itr_next: the store after the one of m *)
ItrNext(m) ==
  LET i == CHOOSE i \in DOMAIN module_list : module_list[i] = m
  IN IF i = Len(module_list) THEN Nil ELSE module_list[i + 1]

(* a variant: modules that are not in the list go to the death row again *)
KillTwice(S) ==
  /\ module_list' = SelectSeq(module_list, LAMBDA m : m \notin S)
  /\ death_row' = SetToSeq(S) \o death_row
  /\ UNCHANGED freed

(* module_kill for the modules of S, in the order of the list; those which  *)
(* are not in the list are left alone.                                      *)
Kill(S) ==
  LET at == {i \in DOMAIN module_list : module_list[i] \in S}
  IN /\ module_list' = Subsequence(module_list, DOMAIN module_list \ at)
     /\ death_row' = Reverse(Subsequence(module_list, at)) \o death_row
     /\ UNCHANGED freed

Cleanup ==
  /\ death_row' = <<>>
  /\ freed' = freed \cup ToSet(death_row)
  /\ UNCHANGED module_list
-----------------------------------------------------------------------------
(* The pipes *)

InPipe(m) == Len(wire[m].sent) - wire[m].read
Room(m) == PipeSize - InPipe(m)
Readable(m) == wire[m].input # <<>> \/ ~wire[m].up
Writable(m) == fmod[m].queue # <<>> /\ (Room(m) > 0 \/ ~wire[m].up)

(* module_receive: an input, or Nil if the module is gone.  Whoever calls it *)
(* goes on with Received(m); Receive(m) is what happens to the module.       *)
Received(m) == IF wire[m].input = <<>> THEN Nil ELSE Head(wire[m].input)

Receive(m) ==
  /\ IF Received(m) = Nil THEN UNCHANGED wire
     ELSE wire' = [wire EXCEPT ![m].input = Tail(@)]
  /\ IF Received(m) = Nil \/ Head(wire[m].input).last
     THEN Kill({m}) ELSE UNCHANGED listVars
  /\ UNCHANGED <<fmod, inputs>>

Selected(m, msg) == msg.type \in fmod[m].pipe

(* the event types on which a synchronous module is not to be asked while   *)
(* the server is grabbed                                                    *)
Suppressed(m, msg) ==
  msg.type \in fmod[m].nograb \cap fmod[m].sync /\ myxgrabcount # 0

(* a variant: every module is taken for a synchronous one *)
LocksUnmasked(m, msg) == myxgrabcount = 0

Locks(m, msg) == msg.type \in fmod[m].sync /\ myxgrabcount = 0

(* a variant that does not flush the queue before it waits *)
PositiveWriteUnflushed(m, msg, rest) ==
  IF ~fmod[m].writefd \/ ~Selected(m, msg) \/ Suppressed(m, msg)
  THEN stack' = rest /\ UNCHANGED linkVars
  ELSE /\ fmod' = [fmod EXCEPT ![m].queue =
                     Append(@, [id |-> msg.id, type |-> msg.type, done |-> 0])]
       /\ stack' = IF Locks(m, msg) THEN <<Pw(m, msg)>> \o rest ELSE rest
       /\ UNCHANGED <<wire, inputs>>

(* a variant that puts the packet in front of the queue *)
PositiveWriteFirst(m, msg, rest) ==
  IF ~fmod[m].writefd \/ ~Selected(m, msg) \/ Suppressed(m, msg)
  THEN stack' = rest /\ UNCHANGED linkVars
  ELSE /\ fmod' = [fmod EXCEPT ![m].queue =
                     <<[id |-> msg.id, type |-> msg.type, done |-> 0]>> \o @]
       /\ stack' = IF Locks(m, msg)
                   THEN <<Of("flush", m), Pw(m, msg)>> \o rest ELSE rest
       /\ UNCHANGED <<wire, inputs>>

(* PositiveWrite up to its first wait, called by "rest" *)
PositiveWrite(m, msg, rest) ==
  IF ~fmod[m].writefd \/ ~Selected(m, msg) \/ Suppressed(m, msg)
  THEN stack' = rest /\ UNCHANGED linkVars
  ELSE /\ fmod' = [fmod EXCEPT ![m].queue =
                     Append(@, [id |-> msg.id, type |-> msg.type, done |-> 0])]
       /\ stack' = IF Locks(m, msg)
                   THEN <<Of("flush", m), Pw(m, msg)>> \o rest ELSE rest
       /\ UNCHANGED <<wire, inputs>>
-----------------------------------------------------------------------------
NewModule == [writefd |-> TRUE, pipe |-> Types, sync |-> {}, nograb |-> {}, queue |-> <<>>]
Off == [started |-> FALSE, up |-> FALSE, sent |-> <<>>, read |-> 0, input |-> <<>>]
On == [started |-> TRUE, up |-> TRUE, sent |-> <<>>, read |-> 0, input |-> <<>>]

(* HandleEvents is called; the modules of the command line are running *)
Init ==
  /\ module_list \in {s \in [1 .. Cardinality(CmdLine) -> CmdLine] : ToSet(s) = CmdLine}
  /\ death_row = <<>> /\ freed = {} /\ cqueue = <<>>
  /\ fmod = [m \in Modules |-> NewModule]
  /\ wire = [m \in Modules |-> IF m \in CmdLine THEN On ELSE Off]
  /\ stack = <<At("begin")>>
  /\ myxgrabcount = 0 /\ fMvwmInStartup = TRUE /\ isTerminated = FALSE
  /\ packets = 0 /\ inputs = 0
  /\ ran = [m \in Modules |-> 0]
  /\ undefined = "none"
-----------------------------------------------------------------------------
(* The event loop *)

(* The loops of HandleEvents and CMD_Wait end with the terminate signal. *)
LoopEnds ==
  /\ Runs({"begin"}) /\ isTerminated
  /\ stack' = Tail(stack)
  /\ UNCHANGED <<listVars, linkVars, modeVars, cqueue, packets, ran>>

(* an X event is dispatched; it may be the one that CMD_Wait waits for *)
Dispatched ==
  {<<At("cmd")>> \o Goto(At(point)) :
     point \in IF Waits > 0 THEN {"begin", "woken"} ELSE {"begin"}}

(* My_XNextEvent returns, with the X event that is pending if there is one *)
Returned == {Goto(At("begin"))} \cup Dispatched

LoopEvent ==
  /\ Runs({"begin"}) /\ ~isTerminated
  /\ stack' \in Dispatched
  /\ UNCHANGED <<listVars, linkVars, modeVars, cqueue, packets, ran>>

LoopReturn ==
  /\ Runs({"end"})
  /\ stack' \in Returned
  /\ UNCHANGED <<listVars, linkVars, modeVars, cqueue, packets, ran>>

(* StartupStuff runs the init function and goes on at a point *)
Startup(point) ==
  /\ fMvwmInStartup' = FALSE
  /\ stack' = <<At("cmd")>> \o Goto(At(point))

(* No X event is pending.  During startup, are there still modules of the   *)
(* command line?  Before select, scheduled commands may be due.             *)
LoopIdle ==
  /\ Runs({"begin"}) /\ ~isTerminated
  /\ IF fMvwmInStartup THEN Cleanup ELSE UNCHANGED listVars
  /\ IF fMvwmInStartup /\ ToSet(module_list) \cap CmdLine = {}
     THEN Startup("begin")
     ELSE /\ \/ stack' = Goto(At("select"))
             \/ stack' = <<At("cmd")>> \o Goto(At("select"))
          /\ UNCHANGED fMvwmInStartup
  /\ UNCHANGED <<linkVars, cqueue, packets, ran, myxgrabcount, isTerminated, undefined>>

(* what select can report: a module that has written or has exited, and one *)
(* that has a queue and room in its pipe (or nobody to read from it)        *)
ReadyIn == {m \in ToSet(module_list) : Readable(m)}

(* a variant: select does not watch the pipes to the modules *)
ReadyOutNever == {}

ReadyOut == {m \in ToSet(module_list) : Writable(m)}

(* select returns with what is ready, the X connection may be *)
LoopSelect ==
  /\ Runs({"select"}) /\ ~isTerminated
  /\ stack' = Goto([At("input") EXCEPT !.itr = ItrInit, !.in = ReadyIn, !.out = ReadyOut])
  /\ UNCHANGED <<listVars, linkVars, modeVars, cqueue, packets, ran>>

(* select times out: at startup after a while and always when a scheduled   *)
(* command is due, which is executed.                                       *)
LoopTimeout ==
  /\ Runs({"select"}) /\ ~isTerminated /\ ReadyIn = {} /\ ReadyOut = {}
  /\ IF fMvwmInStartup THEN Startup("end")
     ELSE /\ stack' = <<At("cmd")>> \o Goto(At("end"))
          /\ UNCHANGED fMvwmInStartup
  /\ UNCHANGED <<listVars, linkVars, cqueue, packets, ran, myxgrabcount,
                 isTerminated, undefined>>

LoopTerminated ==
  /\ Runs({"select"}) /\ isTerminated
  /\ stack' = Goto(At("begin"))
  /\ UNCHANGED <<listVars, linkVars, modeVars, cqueue, packets, ran>>

(* one turn of the loop over the modules after select *)
InputNext ==
  /\ Runs({"input"}) /\ Top.itr \in ToSet(module_list)
  /\ LET m == Top.itr
         next == Goto([Top EXCEPT !.itr = ItrNext(m)])
     IN /\ IF m \in Top.in
           THEN /\ Receive(m)
                /\ cqueue' = IF Received(m) = Nil THEN cqueue
                             ELSE Append(cqueue, Received(m))
           ELSE UNCHANGED <<listVars, linkVars, cqueue>>
        /\ stack' = IF m \in Top.out /\ fmod[m].writefd
                    THEN <<Of("flush", m)>> \o next ELSE next
  /\ UNCHANGED <<modeVars, packets, ran>>

InputEnd ==
  /\ Runs({"input"}) /\ Top.itr = Nil
  /\ stack' = Goto(At("exec"))
  /\ UNCHANGED <<listVars, linkVars, modeVars, cqueue, packets, ran>>

(* module_input_execute, called by "rest" *)
Execute(input, rest) ==
  /\ stack' = <<Of("cmd", input.mod)>> \o rest
  /\ ran' = [ran EXCEPT ![input.mod] = input.num]

(* a variant that does not remove the command from the queue *)
ExecNextKeeps ==
  /\ Runs({"exec"}) /\ cqueue # <<>>
  /\ cqueue' = cqueue
  /\ Execute(Head(cqueue), stack)
  /\ UNCHANGED <<listVars, linkVars, modeVars, packets>>

(* ExecuteCommandQueue, which executes until the queue is empty; then the   *)
(* dead modules are cleaned up.                                             *)
ExecNext ==
  /\ Runs({"exec"}) /\ cqueue # <<>>
  /\ cqueue' = Tail(cqueue)
  /\ Execute(Head(cqueue), stack)
  /\ UNCHANGED <<listVars, linkVars, modeVars, packets>>

ExecEnd ==
  /\ Runs({"exec"}) /\ cqueue = <<>>
  /\ Cleanup
  /\ stack' \in Returned
  /\ UNCHANGED <<linkVars, modeVars, cqueue, packets, ran>>

(* the event that CMD_Wait waited for was dispatched *)
WaitDone ==
  /\ Runs({"woken"})
  /\ stack' = Tail(stack)
  /\ UNCHANGED <<listVars, linkVars, modeVars, cqueue, packets, ran>>
-----------------------------------------------------------------------------
(* What a running command may do.  While it has the server grabbed it only  *)
(* sends packets.                                                           *)

(* CMD_Module, CMD_ModuleListenOnly and, with waits, CMD_ModuleSynchronous *)
CmdModule(m, listens, waits) ==
  /\ Runs({"cmd"}) /\ myxgrabcount = 0
  /\ ~wire[m].started /\ ~(listens /\ waits)
  /\ wire' = [wire EXCEPT ![m] = On]
  /\ fmod' = [fmod EXCEPT ![m].writefd = ~listens]
  /\ module_list' = <<m>> \o module_list
  /\ stack' = IF waits THEN Push(Of("sync", m)) ELSE stack
  /\ UNCHANGED <<death_row, freed, modeVars, cqueue, packets, inputs, ran>>

(* KillModuleByName with a pattern that matches the modules of S *)
CmdKillModule(S) ==
  /\ Runs({"cmd"}) /\ myxgrabcount = 0
  /\ S \cap ToSet(module_list) # {}
  /\ Kill(S)
  /\ UNCHANGED <<linkVars, modeVars, cqueue, stack, packets, ran>>

(* BroadcastPacket, BroadcastName and so on *)
CmdBroadcast(type) ==
  /\ Runs({"cmd"}) /\ packets < MaxPackets
  /\ packets' = packets + 1
  /\ stack' = Push(Each(ItrInit, [id |-> packets', type |-> type], Modules, {}))
  /\ UNCHANGED <<listVars, linkVars, modeVars, cqueue, ran>>

(* CMD_SendToModule; S are the modules whose name or alias matches *)
CmdSendToModule(type, S) ==
  /\ Runs({"cmd"}) /\ myxgrabcount = 0 /\ packets < MaxPackets
  /\ packets' = packets + 1
  /\ stack' = Push(Each(ItrInit, [id |-> packets', type |-> type], S, S))
  /\ UNCHANGED <<listVars, linkVars, modeVars, cqueue, ran>>

(* FlushAllMessageQueues *)
CmdFlushAll ==
  /\ Runs({"cmd"})
  /\ stack' = Push(Each(ItrInit, NoMsg, {}, Modules))
  /\ UNCHANGED <<listVars, linkVars, modeVars, cqueue, packets, ran>>

(* CMD_Send_Reply flushes; the packets of CMD_Send_WindowList are not flushed *)
CmdReply(type, flushes) ==
  /\ Runs({"cmd"}) /\ myxgrabcount = 0 /\ packets < MaxPackets
  /\ Top.mod # Nil /\ Top.mod \notin freed
  /\ packets' = packets + 1
  /\ PositiveWrite(Top.mod, [id |-> packets', type |-> type],
       IF flushes THEN Push(Of("flush", Top.mod)) ELSE stack)
  /\ UNCHANGED <<listVars, modeVars, cqueue, ran>>

(* set_message_mask: half of a mask is replaced *)
WithMask(f, which, half, types) ==
  CASE which = "pipe" -> [f EXCEPT !.pipe = (@ \ half) \cup types]
    [] which = "sync" -> [f EXCEPT !.sync = (@ \ half) \cup types]
    [] OTHER -> [f EXCEPT !.nograb = (@ \ half) \cup types]

(* CMD_set_mask, CMD_set_sync_mask and CMD_set_nograb_mask *)
CmdSetMask(which, half, types) ==
  /\ Runs({"cmd"}) /\ myxgrabcount = 0
  /\ Top.mod # Nil /\ Top.mod \notin freed
  /\ types \subseteq half
  /\ fmod' = [fmod EXCEPT ![Top.mod] = WithMask(@, which, half, types)]
  /\ UNCHANGED <<listVars, modeVars, cqueue, stack, packets, inputs, wire, ran>>

MyXGrabServer ==
  /\ Runs({"cmd"}) /\ myxgrabcount < MaxGrabs
  /\ myxgrabcount' = myxgrabcount + 1
  /\ UNCHANGED <<listVars, linkVars, cqueue, stack, packets, ran, fMvwmInStartup,
                 isTerminated, undefined>>

MyXUngrabServer ==
  /\ Runs({"cmd"}) /\ myxgrabcount > 0
  /\ myxgrabcount' = myxgrabcount - 1
  /\ UNCHANGED <<listVars, linkVars, cqueue, stack, packets, ran, fMvwmInStartup,
                 isTerminated, undefined>>

CmdWait ==
  /\ Runs({"cmd"}) /\ myxgrabcount = 0 /\ Waits < MaxWaits
  /\ stack' = Push(At("begin"))
  /\ UNCHANGED <<listVars, linkVars, modeVars, cqueue, packets, ran>>

CmdReturn ==
  /\ Runs({"cmd"}) /\ myxgrabcount = 0
  /\ stack' = Tail(stack)
  /\ UNCHANGED <<listVars, linkVars, modeVars, cqueue, packets, ran>>
-----------------------------------------------------------------------------
(* Loops over the module list *)

EachNext ==
  /\ Runs({"each"}) /\ Top.itr \in ToSet(module_list)
  /\ LET m == Top.itr
         next == Goto([Top EXCEPT !.itr = ItrNext(m)])
         then == IF m \in Top.out THEN <<Of("flush", m)>> \o next ELSE next
     IN IF m \in Top.in THEN PositiveWrite(m, Top.msg, then)
        ELSE stack' = then /\ UNCHANGED linkVars
  /\ UNCHANGED <<listVars, modeVars, cqueue, packets, ran>>

EachEnd ==
  /\ Runs({"each"}) /\ Top.itr = Nil
  /\ stack' = Tail(stack)
  /\ UNCHANGED <<listVars, linkVars, modeVars, cqueue, packets, ran>>
-----------------------------------------------------------------------------
(* FlushMessageQueue *)

(* a variant that forgets how much of a packet is written *)
WrittenFromStart(q, n) == IF q[1].done + n = Units THEN Tail(q) ELSE q

(* a variant that leaves written packets in the queue *)
WrittenNotDeleted(q, n) == [q EXCEPT ![1].done = @ + n]

(* write takes some units of the first packet; a packet that is written     *)
(* completely leaves the queue                                              *)
Written(q, n) ==
  LET done == q[1].done + n
  IN IF done = Units THEN Tail(q) ELSE [q EXCEPT ![1].done = done]

FlushWrite ==
  /\ Runs({"flush"}) /\ Top.mod \notin freed
  /\ LET m == Top.mod
         q == fmod[m].queue
     IN /\ q # <<>> /\ wire[m].up
        /\ \E n \in 1 .. Units - q[1].done :
             /\ n <= Room(m)
             /\ fmod' = [fmod EXCEPT ![m].queue = Written(q, n)]
             /\ wire' = [wire EXCEPT ![m].sent =
                  @ \o [i \in 1 .. n |-> <<q[1].id, q[1].done + i>>]]
  /\ UNCHANGED <<listVars, modeVars, cqueue, stack, packets, inputs, ran>>

(* the module is gone, or it does not read for too long: kill it; or a      *)
(* terminate signal arrives while the pipe is full                          *)
FlushFails ==
  /\ Runs({"flush"}) /\ Top.mod \notin freed
  /\ LET m == Top.mod
     IN /\ fmod[m].queue # <<>>
        /\ \/ ~wire[m].up /\ Kill({m})
           \/ wire[m].up /\ Room(m) = 0
              /\ IF isTerminated THEN UNCHANGED listVars ELSE Kill({m})
  /\ stack' = Tail(stack)
  /\ UNCHANGED <<linkVars, modeVars, cqueue, packets, ran>>

FlushEnd ==
  /\ Runs({"flush"}) /\ Top.mod \notin freed
  /\ fmod[Top.mod].queue = <<>>
  /\ stack' = Tail(stack)
  /\ UNCHANGED <<listVars, linkVars, modeVars, cqueue, packets, ran>>
-----------------------------------------------------------------------------
(* PositiveWrite and CMD_ModuleSynchronous wait for an input.  Others are   *)
(* executed while they wait.                                                *)

Awaited == IF Top.at = "pw" THEN "unlock" ELSE "finished"

AnswerOrInput ==
  /\ Runs({"pw", "sync"}) /\ ~isTerminated
  /\ Top.mod \notin freed /\ Readable(Top.mod)
  /\ Receive(Top.mod)
  /\ IF Received(Top.mod) = Nil \/ Received(Top.mod).text = Awaited
     THEN stack' = Tail(stack) /\ UNCHANGED ran
     ELSE Execute(Received(Top.mod), stack)
  /\ UNCHANGED <<modeVars, cqueue, packets>>

(* the module does not answer in time *)
PwTimeout ==
  /\ Runs({"pw"}) /\ ~isTerminated
  /\ Top.mod \notin freed /\ ~Readable(Top.mod)
  /\ Kill({Top.mod})
  /\ stack' = Tail(stack)
  /\ UNCHANGED <<linkVars, modeVars, cqueue, packets, ran>>

SyncFlush ==
  /\ Runs({"sync"}) /\ ~isTerminated
  /\ Top.mod \notin freed /\ Writable(Top.mod)
  /\ stack' = Push(Of("flush", Top.mod))
  /\ UNCHANGED <<listVars, linkVars, modeVars, cqueue, packets, ran>>

(* its timeout, if the command has one, or the escape function *)
SyncGivesUp ==
  /\ Runs({"sync"}) /\ ~isTerminated /\ Top.mod \notin freed
  /\ stack' = Tail(stack)
  /\ UNCHANGED <<listVars, linkVars, modeVars, cqueue, packets, ran>>

(* a variant: only CMD_ModuleSynchronous looks at the terminate signal *)
AnswerTerminatedSync ==
  /\ Runs({"sync"}) /\ isTerminated /\ Top.mod \notin freed
  /\ stack' = Tail(stack)
  /\ UNCHANGED <<listVars, linkVars, modeVars, cqueue, packets, ran>>

AnswerTerminated ==
  /\ Runs({"pw", "sync"}) /\ isTerminated /\ Top.mod \notin freed
  /\ stack' = Tail(stack)
  /\ UNCHANGED <<listVars, linkVars, modeVars, cqueue, packets, ran>>
-----------------------------------------------------------------------------
(* A pointer is followed that was freed: the store that an iterator points  *)
(* to, or the structure of a module. *)
Dangling ==
  /\ \/ /\ Runs({"input", "each"})
        /\ Top.itr \notin ToSet(module_list) \cup {Nil}
        /\ undefined' = "iterator"
     \/ /\ Runs({"flush", "pw", "sync", "cmd"}) /\ Top.mod \in freed
        /\ undefined' = "module"
  /\ UNCHANGED <<listVars, linkVars, cqueue, stack, packets, ran, myxgrabcount,
                 fMvwmInStartup, isTerminated>>

(* the processes behind the pipes, and signals *)
ModuleReads(m) ==
  /\ Running /\ wire[m].up /\ InPipe(m) > 0
  /\ wire' = [wire EXCEPT ![m].read = @ + 1]
  /\ UNCHANGED <<listVars, fmod, modeVars, cqueue, stack, packets, inputs, ran>>

ModuleSends(m, text, last) ==
  /\ Running /\ wire[m].up /\ inputs < MaxInputs
  /\ inputs' = inputs + 1
  /\ wire' = [wire EXCEPT ![m].input =
       Append(@, [mod |-> m, num |-> inputs', text |-> text, last |-> last])]
  /\ UNCHANGED <<listVars, fmod, modeVars, cqueue, stack, packets, ran>>

ModuleExits(m) ==
  /\ Running /\ MayExit /\ wire[m].up
  /\ wire' = [wire EXCEPT ![m].up = FALSE]
  /\ UNCHANGED <<listVars, fmod, modeVars, cqueue, stack, packets, inputs, ran>>

Terminate ==
  /\ Running /\ MayTerminate /\ ~isTerminated
  /\ isTerminated' = TRUE
  /\ UNCHANGED <<listVars, linkVars, cqueue, stack, packets, ran, myxgrabcount,
                 fMvwmInStartup, undefined>>

Loops ==
  \/ LoopEnds \/ LoopEvent \/ LoopReturn \/ LoopIdle \/ LoopSelect \/ LoopTerminated
  \/ LoopTimeout \/ InputNext \/ InputEnd \/ ExecNext \/ ExecEnd \/ WaitDone
Commands ==
  \/ \E m \in Modules, listens, waits \in BOOLEAN : CmdModule(m, listens, waits)
  \/ \E S \in SUBSET Modules : CmdKillModule(S)
  \/ \E type \in Types : CmdBroadcast(type)
  \/ \E type \in Types \ Extended, S \in SUBSET Modules : CmdSendToModule(type, S)
  \/ \E type \in Types, flushes \in BOOLEAN : CmdReply(type, flushes)
  \/ \E which \in Masks, half \in {Extended, Types \ Extended} :
       \E types \in SUBSET half : CmdSetMask(which, half, types)
  \/ CmdFlushAll \/ MyXGrabServer \/ MyXUngrabServer \/ CmdWait \/ CmdReturn
Calls ==
  \/ EachNext \/ EachEnd \/ FlushWrite \/ FlushFails \/ FlushEnd
  \/ AnswerOrInput \/ PwTimeout \/ SyncFlush \/ SyncGivesUp \/ AnswerTerminated
Processes ==
  \E m \in Modules :
    \/ ModuleReads(m) \/ ModuleExits(m)
    \/ \E text \in Texts, last \in BOOLEAN : ModuleSends(m, text, last)

Next == Loops \/ Commands \/ Calls \/ Dangling \/ Processes \/ Terminate

Spec == Init /\ [][Next]_vars

(* The thread goes on: whatever My_XNextEvent and the calls inside a command *)
(* are doing is continued.                                                  *)
Continues ==
  \/ LoopEnds \/ LoopReturn \/ LoopSelect \/ LoopTerminated
  \/ LoopTimeout \/ InputNext \/ InputEnd \/ ExecNext \/ ExecEnd \/ WaitDone
  \/ EachNext \/ EachEnd \/ FlushWrite \/ FlushFails \/ FlushEnd
  \/ AnswerOrInput \/ PwTimeout \/ SyncGivesUp \/ AnswerTerminated

(* Commands end, X events pause again and again, and modules read what they *)
(* are sent.                                                                *)
FairSpec ==
  /\ Spec
  /\ WF_vars(Continues) /\ SF_vars(MyXUngrabServer)
  /\ SF_vars(CmdReturn) /\ SF_vars(LoopIdle)
  /\ \A m \in Modules : WF_vars(ModuleReads(m))
-----------------------------------------------------------------------------
FmodType ==
  [writefd : BOOLEAN, pipe : SUBSET Types, sync : SUBSET Types,
   nograb : SUBSET Types, queue : Seq(Queued)]
WireType ==
  [started : BOOLEAN, up : BOOLEAN, read : Nat,
   sent : Seq((1 .. MaxPackets) \X (1 .. Units)), input : Seq(Input)]

(* Every variable has the type of its C counterpart.                        *)
TypeOK ==
  /\ module_list \in Seq(Modules) /\ death_row \in Seq(Modules) /\ freed \subseteq Modules
  /\ fmod \in [Modules -> FmodType] /\ wire \in [Modules -> WireType]
  /\ cqueue \in Seq(Input) /\ stack \in Seq(Frame)
  /\ myxgrabcount \in 0 .. MaxGrabs /\ fMvwmInStartup \in BOOLEAN /\ isTerminated \in BOOLEAN
  /\ packets \in 0 .. MaxPackets /\ inputs \in 0 .. MaxInputs /\ ran \in [Modules -> 0 .. MaxInputs]
  /\ undefined \in {"none", "iterator", "module"}

(* module_list.c: a module is in one list only and there once, and none in  *)
(* a list is freed: module_cleanup frees no structure twice, although       *)
(* module_kill is called again for modules that were killed before.         *)
OwnedOnce ==
  LET all == module_list \o death_row
  IN IsInjective(all) /\ ToSet(all) \cap freed = {}

(* PositiveWrite, FlushMessageQueue, CMD_ModuleSynchronous and commands go  *)
(* on using a module that has been killed under them, and the command queue *)
(* points to modules that have quit: module_cleanup frees none of them.     *)
UsedModulesLive ==
  /\ \A i \in DOMAIN stack : stack[i].mod \notin freed
  /\ \A i \in DOMAIN cqueue : cqueue[i].mod \notin freed

\* Each module has one owner, and lives while somebody uses it.
ModulesOwned == OwnedOnce /\ UsedModulesLive

(* the part of it that My_XNextEvent alone is responsible for *)
CommandQueueLive == \A i \in DOMAIN cqueue : cqueue[i].mod \notin freed

(* FlushMessageQueue, written to in pieces, interrupted and called again    *)
(* from inside another packet's wait: what is in the pipe are whole packets *)
(* one after the other, the last one up to where the queue says it is.      *)
StreamWhole ==
  \A m \in Modules :
    LET sent == wire[m].sent
        rest == Len(sent) % Units
    IN /\ \A i \in DOMAIN sent :
            /\ sent[i][2] = ((i - 1) % Units) + 1
            /\ sent[i][2] > 1 => sent[i - 1][1] = sent[i][1]
       /\ rest # 0 => /\ fmod[m].queue # <<>>
                      /\ fmod[m].queue[1].id = Last(sent)[1]
                      /\ fmod[m].queue[1].done = rest

(* PositiveWrite: while it waits for the unlock of a module in the list,    *)
(* that module has been sent the packet that it is to answer.  Otherwise    *)
(* both wait for each other until the timeout kills the module.             *)
SyncDelivered ==
  stack # <<>> /\ Top.at = "pw" /\ Top.mod \in ToSet(module_list) /\ ~isTerminated
    => \A i \in DOMAIN fmod[Top.mod].queue : fmod[Top.mod].queue[i].id # Top.msg.id

(* module_list.c:580: the manager never waits for a module while it has the *)
(* server grabbed, since the module may need the server to answer.          *)
NoWaitWhileGrabbed ==
  stack # <<>> /\ Top.at \in {"pw", "sync"} => myxgrabcount = 0

\* Neither of these two ways to wait for each other for ever exists.
NoMutualWait == SyncDelivered /\ NoWaitWhileGrabbed

(* module_list.h:51: a loop over the module list goes on at a store of the  *)
(* list, whatever happened since it looked at the list.                     *)
SafeIteration ==
  \A i \in DOMAIN stack :
    stack[i].at \in {"each", "input"} =>
      stack[i].itr \in ToSet(module_list) \cup {Nil}

(* ExecuteCommandQueue is re-entered by Wait, and new input arrives while   *)
(* old input is executed: the commands of a module are executed once each   *)
(* and in the order in which it sent them.                                  *)
CommandsInOrder ==
  \A m \in Modules :
    LET waiting == cqueue \o wire[m].input
        mine == {i \in DOMAIN waiting : waiting[i].mod = m}
    IN \A i \in mine :
         /\ waiting[i].num > ran[m]
         /\ \A j \in mine : j < i => waiting[j].num < waiting[i].num

\* The command queue gives each live module what it asked for, in order.
CommandsKept == CommandQueueLive /\ CommandsInOrder

(* module_list.c:630 and 1001: a terminate signal ends everything  *)
(* that waits for a module, and the event loop with it.                     *)
TerminationUnwinds == isTerminated ~> (stack = <<>> \/ undefined # "none")

(* My_XNextEvent: what PositiveWrite has put into a queue is written in the *)
(* end, unless the module is killed or the window manager ends.             *)
QueuesDrain ==
  \A m \in Modules :
    fmod[m].queue # <<>> ~>
      \/ fmod[m].queue = <<>> \/ m \notin ToSet(module_list)
      \/ isTerminated \/ undefined # "none"
=============================================================================
