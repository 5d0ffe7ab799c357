------------------------------- MODULE Icccm2 --------------------------------
(***************************************************************************)
(* How one window manager follows another: src/mvwm/icccm2.c, with the     *)
(* start-up (main, StartupStuff) and the end (Done) of src/mvwm/mvwm.c.    *)
(*                                                                         *)
(* The manager of a screen owns the selection WM_Sn with a window of its   *)
(* own, and has selected SubstructureRedirect on the root window, which    *)
(* the server grants to one client only. A manager that is started with    *)
(* -replace takes the selection and waits until the window of the old      *)
(* owner is gone. The old one learns that it lost the selection, puts its  *)
(* windows back on the root window, gives up the redirection and exits.    *)
(* Windows of clients must get from one to the other.                      *)
(***************************************************************************)
EXTENDS Naturals, FiniteSets, Sequences

CONSTANTS
  Managers,  \* bound: processes of window managers, each started once
  Clients,   \* bound: windows of clients, each mapped once
  Nil,
  Calm       \* the values that calm may have

ASSUME Icccm2Assumption ==
  /\ Nil \notin Managers \cup Clients
  /\ Managers \cap Clients = {}
  /\ Managers \cap {"withdrawn", "asked", "root"} = {}
  /\ "clear" \notin Clients
  /\ Calm \subseteq BOOLEAN

VARIABLES
  calm,      \* managers are started one by one, and are not killed
  pc,        \* where each manager is
  running_wm_win,  \* the manager whose window was the owner's when it asked
  managing_since,
  queue,     \* events that it has not handled: "clear", or a MapRequest
  owner, changed,  \* the owner of WM_Sn, and when it became that
  clock,           \* the last time stamp of the server
  redirect,        \* the client with SubstructureRedirect
  client           \* where each window is: withdrawn, asked (MapRequest), on
                   \* the root window, or in a frame of a manager

process == <<pc, running_wm_win, managing_since, queue>>
selection == <<owner, changed, clock>>
vars == <<calm, process, selection, redirect, client>>

---------------------------------------------------------------------------
Connected ==
  {m \in Managers : pc[m] \notin {"out", "asking", "gone"}}

\* The process handles events: in the event loop of My_XNextEvent.
Handling(m) == pc[m] \in {"startup", "running"}

Becomes(m, p) == pc' = [pc EXCEPT ![m] = p]

\* The connection of m ends: its windows are destroyed, its selections and
\* redirections end, and windows in its save set go back to the root window.
Disconnects(m) ==
  /\ Becomes(m, "gone")
  /\ owner' = (IF owner = m THEN Nil ELSE owner)
  /\ redirect' = (IF redirect = m THEN Nil ELSE redirect)
  /\ client' = [c \in Clients |-> IF client[c] = m THEN "root" ELSE client[c]]
  /\ queue' = [queue EXCEPT ![m] = <<>>]
  /\ UNCHANGED <<calm, running_wm_win, managing_since, changed, clock>>

---------------------------------------------------------------------------
(* SetupICCCM2                                                             *)

Starting(m) == pc[m] \notin {"out", "running", "leaving", "empty", "closed", "gone"}

Start(m) ==
  /\ pc[m] = "out" /\ (calm => \A n \in Managers : ~Starting(n))
  /\ Becomes(m, "asking")
  /\ UNCHANGED <<calm, running_wm_win, managing_since, queue, selection, redirect, client>>

\* XGetSelectionOwner. Without -replace it ends here if there is an owner.
AskOwner(m, replace_wm) ==
  /\ pc[m] = "asking"
  /\ running_wm_win' = [running_wm_win EXCEPT ![m] = owner]
  /\ Becomes(m, IF owner # Nil /\ ~replace_wm THEN "gone" ELSE "asked")
  /\ UNCHANGED <<calm, managing_since, queue, selection, redirect, client>>

\* It selects events of the old owner's window, and gets a time stamp. If that
\* window is gone already, Xlib ends the process: there is no error handler yet.
GetTime(m) ==
  /\ pc[m] = "asked"
  /\ IF running_wm_win[m] \notin Connected \cup {Nil}
       THEN Disconnects(m)
     ELSE /\ clock' = clock + 1
          /\ managing_since' = [managing_since EXCEPT ![m] = clock']
          /\ Becomes(m, "timed")
          /\ UNCHANGED <<calm, running_wm_win, queue, owner, changed, redirect, client>>

\* XSetSelectionOwner: the server ignores it if there was a later change.
SetOwner(m) ==
  /\ pc[m] = "timed" /\ Becomes(m, "set")
  /\ IF managing_since[m] < changed THEN UNCHANGED <<queue, owner, changed>>
     ELSE /\ owner' = m /\ changed' = managing_since[m]
          /\ queue' = IF owner = Nil THEN queue
                      ELSE [queue EXCEPT ![owner] = Append(@, "clear")]
  /\ UNCHANGED <<calm, running_wm_win, managing_since, clock, redirect, client>>

\* Is it the owner now?
CheckOwner(m) ==
  /\ pc[m] = "set"
  /\ IF owner # m THEN Disconnects(m)
     ELSE /\ Becomes(m, "waiting")
          /\ UNCHANGED <<calm, running_wm_win, managing_since, queue, selection,
                         redirect, client>>

\* variant: it does not wait
WaitedNot(m) ==
  /\ pc[m] = "waiting" /\ Becomes(m, "waited")
  /\ UNCHANGED <<calm, running_wm_win, managing_since, queue, selection, redirect, client>>

\* The window of the old owner is destroyed.
WaitedForOld(m) ==
  /\ pc[m] = "waiting" /\ running_wm_win[m] \notin Connected
  /\ Becomes(m, "waited")
  /\ UNCHANGED <<calm, running_wm_win, managing_since, queue, selection, redirect, client>>

\* XSelectInput; CatchRedirectError exits.
SelectRedirect(m) ==
  /\ pc[m] = "waited"
  /\ IF redirect # Nil THEN Disconnects(m)
     ELSE /\ Becomes(m, "startup") /\ redirect' = m
          /\ UNCHANGED <<calm, running_wm_win, managing_since, queue, selection, client>>

---------------------------------------------------------------------------
(* The event loop                                                          *)

\* StartupStuff: CaptureAllWindows, with the server grabbed
Capture(m) ==
  /\ pc[m] = "startup" /\ Becomes(m, "running")
  /\ client' = [c \in Clients |-> IF client[c] = "root" THEN m ELSE client[c]]
  /\ UNCHANGED <<calm, running_wm_win, managing_since, queue, selection, redirect>>

NextEvent(m, e) ==
  /\ Handling(m) /\ queue[m] # <<>> /\ Head(queue[m]) = e

\* variant: startup never ends
MapRequestStartup(m, c) ==
  /\ NextEvent(m, c) /\ queue' = [queue EXCEPT ![m] = Tail(@)]
  /\ client' = [client EXCEPT ![c] = "root"]
  /\ UNCHANGED <<calm, pc, running_wm_win, managing_since, selection, redirect>>

\* HandleMapRequest. Windows that are mapped during startup are captured later.
MapRequest(m, c) ==
  /\ NextEvent(m, c) /\ queue' = [queue EXCEPT ![m] = Tail(@)]
  /\ client' = [client EXCEPT ![c] = IF pc[m] = "startup" THEN "root" ELSE m]
  /\ UNCHANGED <<calm, pc, running_wm_win, managing_since, selection, redirect>>

\* variant: not when startup has ended
SelectionClearLate(m) ==
  /\ NextEvent(m, "clear") /\ queue' = [queue EXCEPT ![m] = Tail(@)]
  /\ Becomes(m, IF pc[m] = "startup" THEN "leaving" ELSE pc[m])
  /\ UNCHANGED <<calm, running_wm_win, managing_since, selection, redirect, client>>

\* icccm2_handle_selection_clear
SelectionClear(m) ==
  /\ NextEvent(m, "clear") /\ queue' = [queue EXCEPT ![m] = Tail(@)]
  /\ Becomes(m, "leaving")
  /\ UNCHANGED <<calm, running_wm_win, managing_since, selection, redirect, client>>

\* CMD_Quit or a signal; a restart, which leaves the frames to the next process,
\* is not modelled.
Quit(m) ==
  /\ Handling(m) /\ Becomes(m, "leaving")
  /\ UNCHANGED <<calm, running_wm_win, managing_since, queue, selection, redirect, client>>

---------------------------------------------------------------------------
(* Done                                                                    *)

Reborder(m) ==
  /\ pc[m] = "leaving" /\ Becomes(m, "empty")
  /\ client' = [c \in Clients |-> IF client[c] = m THEN "root" ELSE client[c]]
  /\ UNCHANGED <<calm, running_wm_win, managing_since, queue, selection, redirect>>

\* variant: the redirection ends with the connection
CloseICCCM2Not(m) ==
  /\ pc[m] = "empty" /\ Becomes(m, "closed")
  /\ UNCHANGED <<calm, running_wm_win, managing_since, queue, selection, redirect,
                 client>>

CloseICCCM2(m) ==
  /\ pc[m] = "empty" /\ Becomes(m, "closed")
  /\ redirect' = (IF redirect = m THEN Nil ELSE redirect)
  /\ UNCHANGED <<calm, running_wm_win, managing_since, queue, selection, client>>

CloseDisplay(m) == pc[m] = "closed" /\ Disconnects(m)

---------------------------------------------------------------------------
(* Clients and the user                                                    *)

MapWindow(c) ==
  /\ client[c] = "withdrawn"
  /\ client' = [client EXCEPT ![c] = IF redirect = Nil THEN "root" ELSE "asked"]
  /\ queue' = IF redirect = Nil THEN queue
              ELSE [queue EXCEPT ![redirect] = Append(@, c)]
  /\ UNCHANGED <<calm, pc, running_wm_win, managing_since, selection, redirect>>

Crash(m) == ~calm /\ m \in Connected /\ Disconnects(m)

---------------------------------------------------------------------------
Init ==
  /\ calm \in Calm
  /\ pc = [m \in Managers |-> "out"]
  /\ running_wm_win = [m \in Managers |-> Nil]
  /\ managing_since = [m \in Managers |-> 0]
  /\ queue = [m \in Managers |-> <<>>]
  /\ owner = Nil /\ changed = 0 /\ clock = 0 /\ redirect = Nil
  /\ client = [c \in Clients |-> "withdrawn"]

Setup(m) ==
  \/ \E replace_wm \in BOOLEAN : AskOwner(m, replace_wm)
  \/ GetTime(m) \/ SetOwner(m) \/ CheckOwner(m)
  \/ WaitedForOld(m) \/ SelectRedirect(m)

Events(m) ==
  Capture(m) \/ SelectionClear(m) \/ \E c \in Clients : MapRequest(m, c)

Leave(m) == Reborder(m) \/ CloseICCCM2(m) \/ CloseDisplay(m)

Next ==
  \/ \E m \in Managers : Start(m)
  \/ \E m \in Managers : Setup(m)
  \/ \E m \in Managers : Events(m)
  \/ \E m \in Managers : Quit(m)
  \/ \E m \in Managers : Leave(m)
  \/ \E m \in Managers : Crash(m)
  \/ \E c \in Clients : MapWindow(c)

Spec == Init /\ [][Next]_vars

\* The processes do not stop. Nothing says that managers are started, or end
\* by themselves.
FairSpec ==
  Spec /\ \A m \in Managers : WF_vars(Setup(m) \/ Events(m) \/ Leave(m))

---------------------------------------------------------------------------
Positions ==
  {"out", "asking", "asked", "timed", "set", "waiting", "waited", "startup",
   "running", "leaving", "empty", "closed", "gone"}

\* The variables have their types; what a manager has at the server is what
\* it has got as far as it is.
TypeOK ==
  /\ pc \in [Managers -> Positions]
  /\ running_wm_win \in [Managers -> Managers \cup {Nil}]
  /\ managing_since \in [Managers -> Nat]
  /\ queue \in [Managers -> Seq(Clients \cup {"clear"})]
  /\ owner \in Managers \cup {Nil} /\ redirect \in Managers \cup {Nil}
  /\ changed \in Nat /\ clock \in Nat
  /\ client \in [Clients -> Managers \cup {"withdrawn", "asked", "root"}]
  /\ owner \in Connected \cup {Nil}
  /\ \A m \in Managers :
       redirect = m <=> pc[m] \in {"startup", "running", "leaving", "empty"}

\* When a manager has waited for the window of the old one, the old one has
\* released SubstructureRedirect (comments of CloseICCCM2 and in Done).
NeverRefused ==
  calm => \A m \in Managers : pc[m] = "waited" => redirect = Nil

\* However the change from one manager to the other and the requests of clients
\* interleave: windows are only in frames of the manager that gets their
\* requests, and one that has started has left no window on the root window.
WindowsKept ==
  /\ \A c \in Clients : client[c] \in Managers => redirect = client[c]
  /\ \A m \in Managers :
       pc[m] = "running" => \A c \in Clients : client[c] # "root"

\* A manager that waits for the old one manages the screen in the end, or has
\* been told to end.
TakesOver ==
  \A m \in Managers :
    calm /\ pc[m] = "waiting" ~> pc[m] \in {"running", "leaving"}
===============================================================================
