----------------------------- MODULE Icccm2Proofs -----------------------------
(***************************************************************************)
(* Proofs about Icccm2: for any number of managers and clients, windows are *)
(* only in frames of the manager that gets their requests, and a manager   *)
(* that has waited for the old one is not refused by the server.           *)
(***************************************************************************)
EXTENDS Icccm2, TLAPS

\* The parts of TypeOK
Types ==
  /\ pc \in [Managers -> Positions]
  /\ running_wm_win \in [Managers -> Managers \cup {Nil}]
  /\ managing_since \in [Managers -> Nat]
  /\ queue \in [Managers -> Seq(Clients \cup {"clear"})]
  /\ owner \in Managers \cup {Nil} /\ redirect \in Managers \cup {Nil}
  /\ changed \in Nat /\ clock \in Nat
  /\ client \in [Clients -> Managers \cup {"withdrawn", "asked", "root"}]

Holders ==
  /\ owner \in Connected \cup {Nil}
  /\ \A m \in Managers :
       redirect = m <=> pc[m] \in {"startup", "running", "leaving", "empty"}

\* A manager that has given its windows back has none.
EmptyHasNone ==
  \A m \in Managers : pc[m] = "empty" => \A c \in Clients : client[c] # m

\* Why WindowsKept holds
KeptInv == Types /\ Holders /\ WindowsKept /\ EmptyHasNone

---------------------------------------------------------------------------
\* Why NeverRefused holds. All of it is about managers that are started one by
\* one.

OneStarts == \A m, n \in Managers : Starting(m) /\ Starting(n) => m = n

\* It is not too late to take the selection.
InTime ==
  /\ changed <= clock
  /\ \A m \in Managers : pc[m] = "timed" => managing_since[m] = clock

\* The owner that the manager has asked for is still the one, or is gone.
OwnerAsked ==
  \A m \in Managers :
    pc[m] \in {"asked", "timed"} /\ owner # Nil => running_wm_win[m] = owner

OwnsWhileStarting ==
  \A m \in Managers :
    pc[m] \in {"set", "waiting", "waited", "startup"} => owner = m

\* Who has the redirection owns the selection, too, or the owner waits for it.
RedirectOwned ==
  redirect # Nil =>
    \/ owner = redirect
    \/ \E m \in Managers : /\ pc[m] \in {"set", "waiting"}
                           /\ owner = m /\ running_wm_win[m] = redirect

CalmInv ==
  calm => OneStarts /\ InTime /\ OwnerAsked /\ OwnsWhileStarting /\ RedirectOwned

IInv == KeptInv /\ calm \in BOOLEAN /\ NeverRefused /\ CalmInv

LEMMA InitKept == Init => KeptInv
<1> SUFFICES ASSUME Init PROVE KeptInv
  OBVIOUS
<1>1. <<>> \in Seq(Clients \cup {"clear"})
  OBVIOUS
<1>2. Types
  BY DEF Init, Types, Positions
<1>3. Holders /\ WindowsKept /\ EmptyHasNone
  BY Icccm2Assumption DEF Init, Holders, WindowsKept, EmptyHasNone
<1> QED
  BY <1>2, <1>3 DEF KeptInv

LEMMA InitCalm == Init => calm \in BOOLEAN /\ NeverRefused /\ CalmInv
BY Icccm2Assumption DEF Init, NeverRefused, CalmInv, OneStarts, InTime,
   OwnerAsked, OwnsWhileStarting, RedirectOwned, Starting

---------------------------------------------------------------------------
LEMMA DisconnectsTypes ==
  ASSUME Types, NEW m \in Managers, Disconnects(m)
  PROVE  Types'
<1>1. <<>> \in Seq(Clients \cup {"clear"})
  OBVIOUS
<1>2. queue' \in [Managers -> Seq(Clients \cup {"clear"})]
  BY DEF Types, Disconnects
<1>3. pc' \in [Managers -> Positions]
  BY DEF Types, Disconnects, Becomes, Positions
<1>4. client' \in [Clients -> Managers \cup {"withdrawn", "asked", "root"}]
  BY DEF Types, Disconnects
<1> QED
  BY <1>2, <1>3 DEF Types, Disconnects

LEMMA TypesStep == Types /\ [Next]_vars => Types'
<1> SUFFICES ASSUME Types, [Next]_vars PROVE Types'
  OBVIOUS
<1>1. ASSUME NEW m \in Managers, Start(m) PROVE Types'
  BY <1>1 DEF Start, Types, Positions, Becomes, selection
<1>2. ASSUME NEW m \in Managers, NEW r \in BOOLEAN, AskOwner(m, r) PROVE Types'
  BY <1>2 DEF AskOwner, Types, Positions, Becomes, selection
<1>3. ASSUME NEW m \in Managers, GetTime(m) PROVE Types'
  <2>1. CASE Disconnects(m)
    BY <2>1, DisconnectsTypes
  <2>2. CASE ~Disconnects(m)
    <3>1. clock' \in Nat /\ managing_since' = [managing_since EXCEPT ![m] = clock']
      BY <1>3, <2>2 DEF GetTime, Types
    <3>2. pc' \in [Managers -> Positions]
      BY <1>3, <2>2 DEF GetTime, Types, Positions, Becomes
    <3> QED
      BY <1>3, <2>2, <3>1, <3>2 DEF GetTime, Types
  <2> QED
    BY <2>1, <2>2
<1>4. ASSUME NEW m \in Managers, SetOwner(m) PROVE Types'
  <2>1. pc' \in [Managers -> Positions]
    BY <1>4 DEF SetOwner, Types, Positions, Becomes
  <2>2. queue' \in [Managers -> Seq(Clients \cup {"clear"})]
    <3>1. CASE queue' = queue
      BY <3>1 DEF Types
    <3>2. CASE owner \in Managers /\ queue' = [queue EXCEPT ![owner] = Append(@, "clear")]
      <4>1. Append(queue[owner], "clear") \in Seq(Clients \cup {"clear"})
        BY <3>2 DEF Types
      <4> QED
        BY <3>2 DEF Types
    <3> QED
      BY <1>4, <3>2 DEF SetOwner, Types
  <2>3. owner' \in Managers \cup {Nil} /\ changed' \in Nat
    BY <1>4 DEF SetOwner, Types
  <2> QED
    BY <1>4, <2>1, <2>2 DEF SetOwner, Types
<1>5. ASSUME NEW m \in Managers, CheckOwner(m) PROVE Types'
  <2>1. CASE Disconnects(m)
    BY <2>1, DisconnectsTypes
  <2>2. CASE ~Disconnects(m)
    BY <1>5, <2>2 DEF CheckOwner, Types, Positions, Becomes, process,
       selection
  <2> QED
    BY <2>1, <2>2
<1>6. ASSUME NEW m \in Managers, WaitedForOld(m) PROVE Types'
  BY <1>6 DEF WaitedForOld, Types, Positions, Becomes, selection
<1>7. ASSUME NEW m \in Managers, SelectRedirect(m) PROVE Types'
  <2>1. CASE Disconnects(m)
    BY <2>1, DisconnectsTypes
  <2>2. CASE ~Disconnects(m)
    BY <1>7, <2>2 DEF SelectRedirect, Types, Positions, Becomes, process,
       selection
  <2> QED
    BY <2>1, <2>2
<1>8. ASSUME NEW m \in Managers, Capture(m) PROVE Types'
  BY <1>8 DEF Capture, Types, Positions, Becomes, selection
<1>9. ASSUME NEW m \in Managers, SelectionClear(m) PROVE Types'
  BY <1>9 DEF SelectionClear, NextEvent, Types, Positions, Becomes, selection
<1>10. ASSUME NEW m \in Managers, NEW c \in Clients, MapRequest(m, c) PROVE Types'
  BY <1>10 DEF MapRequest, NextEvent, Types, selection
<1>11. ASSUME NEW m \in Managers, Quit(m) PROVE Types'
  BY <1>11 DEF Quit, Types, Positions, Becomes, selection
<1>12. ASSUME NEW m \in Managers, Reborder(m) PROVE Types'
  BY <1>12 DEF Reborder, Types, Positions, Becomes, selection
<1>13. ASSUME NEW m \in Managers, CloseICCCM2(m) PROVE Types'
  BY <1>13 DEF CloseICCCM2, Types, Positions, Becomes, selection
<1>14. ASSUME NEW m \in Managers, CloseDisplay(m) PROVE Types'
  BY <1>14, DisconnectsTypes DEF CloseDisplay
<1>15. ASSUME NEW m \in Managers, Crash(m) PROVE Types'
  BY <1>15, DisconnectsTypes DEF Crash
<1>16. ASSUME NEW c \in Clients, MapWindow(c) PROVE Types'
  BY <1>16 DEF MapWindow, Types, selection
<1>17. CASE UNCHANGED vars
  BY <1>17 DEF vars, process, selection, Types
<1> QED
  BY <1>1, <1>2, <1>3, <1>4, <1>5, <1>6, <1>7, <1>8, <1>9, <1>10, <1>11,
     <1>12, <1>13, <1>14, <1>15, <1>16, <1>17 DEF Next, Setup, Events, Leave

LEMMA DisconnectsHolders ==
  ASSUME Types, Holders, NEW m \in Managers, Disconnects(m)
  PROVE  Holders'
<1>1. owner' \in Connected' \cup {Nil}
  BY DEF Holders, Disconnects, Becomes, Connected
<1>2. ASSUME NEW n \in Managers
      PROVE  redirect' = n <=> pc'[n] \in {"startup", "running", "leaving", "empty"}
  BY Icccm2Assumption DEF Types, Holders, Disconnects, Becomes
<1> QED
  BY <1>1, <1>2 DEF Holders

LEMMA HoldersStep == Types /\ Holders /\ [Next]_vars => Holders'
<1> SUFFICES ASSUME Types, Holders, [Next]_vars PROVE Holders'
  OBVIOUS
<1>1. ASSUME NEW m \in Managers, Start(m) PROVE Holders'
  BY <1>1 DEF Start, Holders, Connected, Becomes, selection
<1>2. ASSUME NEW m \in Managers, NEW r \in BOOLEAN, AskOwner(m, r) PROVE Holders'
  BY <1>2 DEF AskOwner, Holders, Connected, Becomes, selection
<1>3. ASSUME NEW m \in Managers, GetTime(m) PROVE Holders'
  <2>1. CASE Disconnects(m)
    BY <2>1, DisconnectsHolders
  <2>2. CASE ~Disconnects(m)
    <3>1. pc[m] = "asked" /\ pc' = [pc EXCEPT ![m] = "timed"]
          /\ UNCHANGED <<owner, redirect>>
      BY <1>3, <2>2 DEF GetTime, Becomes
    <3> QED
      BY <3>1 DEF Holders, Connected
  <2> QED
    BY <2>1, <2>2
<1>4. ASSUME NEW m \in Managers, SetOwner(m) PROVE Holders'
  BY <1>4 DEF SetOwner, Holders, Connected, Becomes
<1>5. ASSUME NEW m \in Managers, CheckOwner(m) PROVE Holders'
  <2>1. CASE Disconnects(m)
    BY <2>1, DisconnectsHolders
  <2>2. CASE ~Disconnects(m)
    BY <1>5, <2>2, Icccm2Assumption DEF CheckOwner, Types, Holders, Positions,
       Connected, Becomes, process, selection
  <2> QED
    BY <2>1, <2>2
<1>6. ASSUME NEW m \in Managers, WaitedForOld(m) PROVE Holders'
  BY <1>6 DEF WaitedForOld, Holders, Connected, Becomes, selection
<1>7. ASSUME NEW m \in Managers, SelectRedirect(m) PROVE Holders'
  <2>1. CASE Disconnects(m)
    BY <2>1, DisconnectsHolders
  <2>2. CASE ~Disconnects(m)
    BY <1>7, <2>2, Icccm2Assumption DEF SelectRedirect, Types, Holders,
       Connected, Becomes, selection
  <2> QED
    BY <2>1, <2>2
<1>8. ASSUME NEW m \in Managers, Capture(m) PROVE Holders'
  BY <1>8 DEF Capture, Holders, Connected, Becomes, selection
<1>9. ASSUME NEW m \in Managers, SelectionClear(m) PROVE Holders'
  BY <1>9 DEF SelectionClear, NextEvent, Handling, Holders, Connected,
     Becomes, selection
<1>10. ASSUME NEW m \in Managers, NEW c \in Clients, MapRequest(m, c) PROVE Holders'
  BY <1>10 DEF MapRequest, Holders, Connected, selection
<1>11. ASSUME NEW m \in Managers, Quit(m) PROVE Holders'
  BY <1>11 DEF Quit, Handling, Holders, Connected, Becomes, selection
<1>12. ASSUME NEW m \in Managers, Reborder(m) PROVE Holders'
  BY <1>12 DEF Reborder, Holders, Connected, Becomes, selection
<1>13. ASSUME NEW m \in Managers, CloseICCCM2(m) PROVE Holders'
  BY <1>13, Icccm2Assumption DEF CloseICCCM2, Types, Holders, Connected,
     Becomes, selection
<1>14. ASSUME NEW m \in Managers, CloseDisplay(m) PROVE Holders'
  BY <1>14, DisconnectsHolders DEF CloseDisplay
<1>15. ASSUME NEW m \in Managers, Crash(m) PROVE Holders'
  BY <1>15, DisconnectsHolders DEF Crash
<1>16. ASSUME NEW c \in Clients, MapWindow(c) PROVE Holders'
  BY <1>16 DEF MapWindow, Holders, Connected, selection
<1>17. CASE UNCHANGED vars
  BY <1>17 DEF vars, process, selection, Holders, Connected
<1> QED
  BY <1>1, <1>2, <1>3, <1>4, <1>5, <1>6, <1>7, <1>8, <1>9, <1>10, <1>11,
     <1>12, <1>13, <1>14, <1>15, <1>16, <1>17 DEF Next, Setup, Events, Leave

LEMMA DisconnectsKept ==
  ASSUME KeptInv, NEW m \in Managers, Disconnects(m)
  PROVE  WindowsKept' /\ EmptyHasNone'
<1>1. ASSUME NEW c \in Clients, client'[c] \in Managers
      PROVE  redirect' = client'[c]
  BY <1>1, Icccm2Assumption DEF KeptInv, WindowsKept, Disconnects
<1>2. ASSUME NEW n \in Managers, pc'[n] = "running", NEW c \in Clients
      PROVE  client'[c] # "root"
  <2>1. n # m /\ pc[n] = "running"
    BY <1>2 DEF KeptInv, Types, Disconnects, Becomes
  <2>2. client[c] # m
    BY <2>1 DEF KeptInv, Holders, WindowsKept
  <2> QED
    BY <2>1, <2>2 DEF KeptInv, WindowsKept, Disconnects
<1>3. ASSUME NEW n \in Managers, pc'[n] = "empty", NEW c \in Clients
      PROVE  client'[c] # n
  BY <1>3, Icccm2Assumption DEF KeptInv, EmptyHasNone, Disconnects, Becomes
<1> QED
  BY <1>1, <1>2, <1>3 DEF WindowsKept, EmptyHasNone

LEMMA KeptStep ==
  KeptInv /\ [Next]_vars => WindowsKept' /\ EmptyHasNone'
<1> DEFINE Goal == WindowsKept /\ EmptyHasNone
<1> SUFFICES ASSUME KeptInv, [Next]_vars PROVE Goal'
  OBVIOUS
<1>1. ASSUME NEW m \in Managers, Start(m) PROVE Goal'
  BY <1>1 DEF Start, KeptInv, WindowsKept, EmptyHasNone, Becomes
<1>2. ASSUME NEW m \in Managers, NEW r \in BOOLEAN, AskOwner(m, r) PROVE Goal'
  BY <1>2 DEF AskOwner, KeptInv, WindowsKept, EmptyHasNone, Becomes
<1>3. ASSUME NEW m \in Managers, GetTime(m) PROVE Goal'
  <2>1. CASE Disconnects(m)
    BY <2>1, DisconnectsKept
  <2>2. CASE ~Disconnects(m)
    <3>1. pc' = [pc EXCEPT ![m] = "timed"] /\ UNCHANGED <<client, redirect>>
      BY <1>3, <2>2 DEF GetTime, Becomes
    <3> QED
      BY <3>1 DEF KeptInv, WindowsKept, EmptyHasNone
  <2> QED
    BY <2>1, <2>2
<1>4. ASSUME NEW m \in Managers, SetOwner(m) PROVE Goal'
  BY <1>4 DEF SetOwner, KeptInv, WindowsKept, EmptyHasNone, Becomes
<1>5. ASSUME NEW m \in Managers, CheckOwner(m) PROVE Goal'
  <2>1. CASE Disconnects(m)
    BY <2>1, DisconnectsKept
  <2>2. CASE ~Disconnects(m)
    BY <1>5, <2>2, Icccm2Assumption, ZenonT(60) DEF CheckOwner, KeptInv, Types, Holders,
       WindowsKept, EmptyHasNone, Becomes
  <2> QED
    BY <2>1, <2>2
<1>6. ASSUME NEW m \in Managers, WaitedForOld(m) PROVE Goal'
  BY <1>6 DEF WaitedForOld, KeptInv, WindowsKept, EmptyHasNone, Becomes
<1>7. ASSUME NEW m \in Managers, SelectRedirect(m) PROVE Goal'
  <2>1. CASE Disconnects(m)
    BY <2>1, DisconnectsKept
  <2>2. CASE ~Disconnects(m)
    <3>1. redirect = Nil /\ redirect' = m /\ pc' = [pc EXCEPT ![m] = "startup"]
          /\ UNCHANGED client
      BY <1>7, <2>2 DEF SelectRedirect, Becomes
    <3>2. \A c \in Clients : client[c] \notin Managers
      BY <3>1, Icccm2Assumption DEF KeptInv, WindowsKept
    <3> QED
      BY <3>1, <3>2 DEF KeptInv, WindowsKept, EmptyHasNone
  <2> QED
    BY <2>1, <2>2
<1>8. ASSUME NEW m \in Managers, Capture(m) PROVE Goal'
  BY <1>8, Icccm2Assumption DEF Capture, KeptInv, Holders, WindowsKept,
     EmptyHasNone, Becomes
<1>9. ASSUME NEW m \in Managers, SelectionClear(m) PROVE Goal'
  BY <1>9 DEF SelectionClear, KeptInv, WindowsKept, EmptyHasNone, Becomes
<1>10. ASSUME NEW m \in Managers, NEW c \in Clients, MapRequest(m, c) PROVE Goal'
  BY <1>10, Icccm2Assumption DEF MapRequest, NextEvent, Handling, KeptInv,
     Holders, WindowsKept, EmptyHasNone
<1>11. ASSUME NEW m \in Managers, Quit(m) PROVE Goal'
  BY <1>11 DEF Quit, KeptInv, WindowsKept, EmptyHasNone, Becomes
<1>12. ASSUME NEW m \in Managers, Reborder(m) PROVE Goal'
  BY <1>12, Icccm2Assumption DEF Reborder, KeptInv, Holders, WindowsKept,
     EmptyHasNone, Becomes
<1>13. ASSUME NEW m \in Managers, CloseICCCM2(m) PROVE Goal'
  BY <1>13 DEF CloseICCCM2, KeptInv, WindowsKept, EmptyHasNone, Becomes
<1>14. ASSUME NEW m \in Managers, CloseDisplay(m) PROVE Goal'
  BY <1>14, DisconnectsKept DEF CloseDisplay
<1>15. ASSUME NEW m \in Managers, Crash(m) PROVE Goal'
  BY <1>15, DisconnectsKept DEF Crash
<1>16. ASSUME NEW c \in Clients, MapWindow(c) PROVE Goal'
  BY <1>16, Icccm2Assumption DEF MapWindow, KeptInv, Holders, WindowsKept,
     EmptyHasNone
<1>17. CASE UNCHANGED vars
  BY <1>17 DEF vars, process, KeptInv, WindowsKept, EmptyHasNone
<1> QED
  BY <1>1, <1>2, <1>3, <1>4, <1>5, <1>6, <1>7, <1>8, <1>9, <1>10, <1>11,
     <1>12, <1>13, <1>14, <1>15, <1>16, <1>17 DEF Next, Setup, Events, Leave

LEMMA CalmStep == IInv /\ [Next]_vars => NeverRefused' /\ CalmInv'
<1> DEFINE Goal == NeverRefused /\ CalmInv
<1> SUFFICES ASSUME IInv, [Next]_vars PROVE Goal'
  OBVIOUS
<1>1. ASSUME NEW m \in Managers, Start(m) PROVE Goal'
  BY <1>1 DEF Start, IInv, NeverRefused, CalmInv, OneStarts, InTime,
     OwnerAsked, OwnsWhileStarting, RedirectOwned, Starting, Becomes,
     selection
<1>2. ASSUME NEW m \in Managers, NEW r \in BOOLEAN, AskOwner(m, r) PROVE Goal'
  BY <1>2 DEF AskOwner, IInv, KeptInv, Types, NeverRefused, CalmInv,
     OneStarts, InTime, OwnerAsked, OwnsWhileStarting, RedirectOwned,
     Starting, Becomes, selection
<1>3. ASSUME NEW m \in Managers, GetTime(m) PROVE Goal'
  <2> SUFFICES ASSUME calm PROVE Goal'
    BY <1>3 DEF GetTime, Disconnects, NeverRefused, CalmInv
  <2>1. OneStarts /\ InTime /\ OwnerAsked /\ OwnsWhileStarting /\ RedirectOwned
    BY DEF IInv, CalmInv
  <2>2. Starting(m) /\ redirect # m
    BY <1>3 DEF GetTime, Starting, IInv, KeptInv, Holders
  <2>3. CASE Disconnects(m)
    <3>1. owner # m
      <4>1. pc[m] = "asked" /\ running_wm_win[m] \notin Connected \cup {Nil}
        BY <1>3, <2>3 DEF GetTime, Disconnects, IInv, KeptInv, Types
      <4>2. owner # Nil => running_wm_win[m] = owner
        BY <2>1, <4>1 DEF OwnerAsked
      <4>3. owner \in Connected \cup {Nil}
        BY DEF IInv, KeptInv, Holders
      <4> QED
        BY <4>1, <4>2, <4>3, Icccm2Assumption
    <3>2. owner' = owner /\ redirect' = redirect /\ pc' = [pc EXCEPT ![m] = "gone"]
      BY <2>2, <2>3, <3>1 DEF Disconnects, Becomes
    <3>3. OneStarts' /\ OwnerAsked' /\ OwnsWhileStarting' /\ NeverRefused'
      BY <2>1, <2>3, <3>2 DEF Disconnects, OneStarts, OwnerAsked,
         OwnsWhileStarting, Starting, NeverRefused, IInv
    <3>4. InTime'
      BY <2>1, <2>3, <3>2 DEF Disconnects, InTime
    <3>5. RedirectOwned'
      BY <2>1, <2>3, <3>1, <3>2 DEF Disconnects, RedirectOwned
    <3> QED
      BY <3>3, <3>4, <3>5 DEF CalmInv
  <2>4. CASE ~Disconnects(m)
    <3>1. pc' = [pc EXCEPT ![m] = "timed"] /\ UNCHANGED <<owner, redirect, running_wm_win>>
      BY <1>3, <2>4 DEF GetTime, Becomes
    <3>2. OneStarts' /\ OwnerAsked' /\ OwnsWhileStarting' /\ NeverRefused'
      BY <1>3, <2>1, <3>1 DEF GetTime, OneStarts, OwnerAsked,
         OwnsWhileStarting, Starting, NeverRefused
    <3>3. InTime'
      <4>1. changed' = changed /\ clock' = clock + 1
            /\ managing_since' = [managing_since EXCEPT ![m] = clock']
        BY <1>3, <2>4 DEF GetTime
      <4>2. changed' <= clock'
        BY <2>1, <4>1 DEF InTime, IInv, KeptInv, Types
      <4>3. ASSUME NEW n \in Managers, pc'[n] = "timed" PROVE n = m
        BY <2>1, <2>2, <3>1, <4>3 DEF OneStarts, Starting, IInv, KeptInv,
           Types
      <4>4. managing_since'[m] = clock'
        BY <4>1 DEF IInv, KeptInv, Types
      <4> QED
        BY <4>2, <4>3, <4>4 DEF InTime
    <3>4. RedirectOwned'
      BY <1>3, <2>1, <3>1 DEF GetTime, RedirectOwned
    <3> QED
      BY <3>2, <3>3, <3>4 DEF CalmInv
  <2> QED
    BY <2>3, <2>4
<1>4. ASSUME NEW m \in Managers, SetOwner(m) PROVE Goal'
  <2> SUFFICES ASSUME calm PROVE Goal'
    BY <1>4 DEF SetOwner, NeverRefused, CalmInv
  <2>1. OneStarts /\ InTime /\ OwnerAsked /\ OwnsWhileStarting /\ RedirectOwned
    BY DEF IInv, CalmInv
  <2>2. Starting(m) /\ pc' = [pc EXCEPT ![m] = "set"]
        /\ UNCHANGED <<calm, running_wm_win, managing_since, clock, redirect>>
    BY <1>4 DEF SetOwner, Becomes, Starting
  <2>3. owner' = m /\ changed' = clock
    BY <1>4, <2>1 DEF SetOwner, InTime, IInv, KeptInv, Types
  <2>4. OneStarts' /\ OwnsWhileStarting' /\ NeverRefused'
    BY <2>1, <2>2, <2>3 DEF OneStarts, OwnsWhileStarting, NeverRefused,
       Starting, IInv, KeptInv, Types
  <2>5. InTime'
    BY <2>1, <2>2, <2>3 DEF InTime, IInv, KeptInv, Types
  <2>6. OwnerAsked'
    BY <2>1, <2>2, <2>3 DEF OwnerAsked, OneStarts, Starting, IInv, KeptInv,
       Types
  <2>7. RedirectOwned'
    <3> SUFFICES ASSUME redirect # Nil PROVE running_wm_win[m] = redirect
      BY <2>2, <2>3 DEF RedirectOwned, IInv, KeptInv, Types
    <3>1. owner = redirect
      BY <1>4, <2>1 DEF SetOwner, RedirectOwned, OneStarts, Starting
    <3> QED
      BY <1>4, <2>1, <3>1 DEF SetOwner, OwnerAsked
  <2> QED
    BY <2>4, <2>5, <2>6, <2>7 DEF CalmInv
<1>5. ASSUME NEW m \in Managers, CheckOwner(m) PROVE Goal'
  <2> SUFFICES ASSUME calm PROVE Goal'
    BY <1>5 DEF CheckOwner, Disconnects, NeverRefused, CalmInv
  <2>1. owner = m
    BY <1>5 DEF CheckOwner, IInv, CalmInv, OwnsWhileStarting
  <2> QED
    <3>1. pc[m] = "set" /\ pc' = [pc EXCEPT ![m] = "waiting"]
          /\ UNCHANGED <<calm, running_wm_win, managing_since, selection, redirect>>
      BY <1>5, <2>1 DEF CheckOwner, Becomes
    <3>2. OneStarts' /\ OwnerAsked' /\ OwnsWhileStarting' /\ NeverRefused'
      BY <3>1 DEF IInv, CalmInv, OneStarts, OwnerAsked, OwnsWhileStarting,
         NeverRefused, Starting, selection
    <3>3. InTime' /\ RedirectOwned'
      BY <3>1 DEF IInv, CalmInv, InTime, RedirectOwned, selection
    <3> QED
      BY <3>2, <3>3 DEF CalmInv
<1>6. ASSUME NEW m \in Managers, WaitedForOld(m) PROVE Goal'
  BY <1>6, Icccm2Assumption, ZenonT(60) DEF WaitedForOld, IInv, KeptInv, Types, Holders,
     NeverRefused, CalmInv, OneStarts, InTime, OwnerAsked, OwnsWhileStarting,
     RedirectOwned, Starting, Connected, Becomes, process, selection
<1>7. ASSUME NEW m \in Managers, SelectRedirect(m) PROVE Goal'
  <2> SUFFICES ASSUME calm PROVE Goal'
    BY <1>7 DEF SelectRedirect, Disconnects, NeverRefused, CalmInv
  <2>1. redirect = Nil /\ owner = m
    BY <1>7 DEF SelectRedirect, IInv, CalmInv, OwnsWhileStarting, NeverRefused
  <2> QED
    <3>1. pc[m] = "waited" /\ pc' = [pc EXCEPT ![m] = "startup"] /\ redirect' = m
          /\ UNCHANGED <<calm, running_wm_win, managing_since, selection>>
      BY <1>7, <2>1 DEF SelectRedirect, Becomes
    <3>2. ASSUME NEW n \in Managers, Starting(n)' PROVE n = m /\ pc'[n] = "startup"
      BY <3>1, <3>2 DEF IInv, KeptInv, Types, CalmInv, OneStarts, Starting
    <3>3. OneStarts' /\ OwnerAsked' /\ NeverRefused'
      BY <3>2 DEF OneStarts, OwnerAsked, NeverRefused, Starting
    <3>4. OwnsWhileStarting' /\ RedirectOwned'
      BY <2>1, <3>1, <3>2 DEF OwnsWhileStarting, RedirectOwned, Starting,
         selection
    <3>5. InTime'
      BY <3>1 DEF IInv, CalmInv, InTime, selection
    <3> QED
      BY <3>3, <3>4, <3>5 DEF CalmInv
<1>8. ASSUME NEW m \in Managers, Capture(m) PROVE Goal'
  BY <1>8 DEF Capture, IInv, NeverRefused, CalmInv, OneStarts, InTime,
     OwnerAsked, OwnsWhileStarting, RedirectOwned, Starting, Becomes,
     selection
<1>9. ASSUME NEW m \in Managers, SelectionClear(m) PROVE Goal'
  BY <1>9 DEF SelectionClear, NextEvent, Handling, IInv, NeverRefused,
     CalmInv, OneStarts, InTime, OwnerAsked, OwnsWhileStarting, RedirectOwned,
     Starting, Becomes, selection
<1>10. ASSUME NEW m \in Managers, NEW c \in Clients, MapRequest(m, c) PROVE Goal'
  BY <1>10 DEF MapRequest, IInv, NeverRefused, CalmInv, OneStarts, InTime,
     OwnerAsked, OwnsWhileStarting, RedirectOwned, Starting, selection
<1>11. ASSUME NEW m \in Managers, Quit(m) PROVE Goal'
  BY <1>11 DEF Quit, Handling, IInv, NeverRefused, CalmInv, OneStarts, InTime,
     OwnerAsked, OwnsWhileStarting, RedirectOwned, Starting, Becomes,
     selection
<1>12. ASSUME NEW m \in Managers, Reborder(m) PROVE Goal'
  BY <1>12 DEF Reborder, IInv, NeverRefused, CalmInv, OneStarts, InTime,
     OwnerAsked, OwnsWhileStarting, RedirectOwned, Starting, Becomes,
     selection
<1>13. ASSUME NEW m \in Managers, CloseICCCM2(m) PROVE Goal'
  BY <1>13 DEF CloseICCCM2, IInv, NeverRefused, CalmInv, OneStarts, InTime,
     OwnerAsked, OwnsWhileStarting, RedirectOwned, Starting, Becomes,
     selection
<1>14. ASSUME NEW m \in Managers, CloseDisplay(m) PROVE Goal'
  BY <1>14 DEF CloseDisplay, Disconnects, IInv, NeverRefused, CalmInv,
     OneStarts, InTime, OwnerAsked, OwnsWhileStarting, RedirectOwned,
     Starting, Becomes
<1>15. ASSUME NEW m \in Managers, Crash(m) PROVE Goal'
  BY <1>15 DEF Crash, Disconnects, NeverRefused, CalmInv
<1>16. ASSUME NEW c \in Clients, MapWindow(c) PROVE Goal'
  BY <1>16 DEF MapWindow, IInv, NeverRefused, CalmInv, OneStarts, InTime,
     OwnerAsked, OwnsWhileStarting, RedirectOwned, Starting, selection
<1>17. CASE UNCHANGED vars
  BY <1>17 DEF vars, process, selection, IInv, NeverRefused, CalmInv,
     OneStarts, InTime, OwnerAsked, OwnsWhileStarting, RedirectOwned, Starting
<1> QED
  BY <1>1, <1>2, <1>3, <1>4, <1>5, <1>6, <1>7, <1>8, <1>9, <1>10, <1>11,
     <1>12, <1>13, <1>14, <1>15, <1>16, <1>17 DEF Next, Setup, Events, Leave

---------------------------------------------------------------------------
LEMMA Invariance == Spec => []IInv
<1>1. Init => IInv
  BY InitKept, InitCalm DEF IInv
<1>2. IInv /\ [Next]_vars => IInv'
  <2> SUFFICES ASSUME IInv, [Next]_vars PROVE IInv'
    OBVIOUS
  <2>1. KeptInv'
    BY TypesStep, HoldersStep, KeptStep DEF IInv, KeptInv
  <2>2. calm' = calm
    BY DEF Next, Setup, Events, Leave, Start, AskOwner, GetTime, SetOwner,
       CheckOwner, WaitedForOld, SelectRedirect, Capture, SelectionClear,
       MapRequest, Quit, Reborder, CloseICCCM2, CloseDisplay, Crash,
       MapWindow, Disconnects, vars
  <2> QED
    BY <2>1, <2>2, CalmStep DEF IInv
<1> QED
  BY <1>1, <1>2, PTL DEF Spec

\* Type correctness: the variables have their types in every reachable state, the
\* owner of the selection is connected, and the manager with the redirection is
\* the one between XSelectInput in SetupICCCM2 and CloseICCCM2.
THEOREM TypeCorrect == Spec => []TypeOK
<1>1. IInv => TypeOK
  BY DEF IInv, KeptInv, Types, Holders, TypeOK
<1> QED
  BY <1>1, Invariance, PTL

\* Windows are only in frames of the manager that gets their requests, and one
\* that has captured the windows has left none on the root window, however
\* managers are started, replaced, ended and killed.
THEOREM KeepsWindows == Spec => []WindowsKept
<1>1. IInv => WindowsKept
  BY DEF IInv, KeptInv
<1> QED
  BY <1>1, Invariance, PTL

\* A manager that has waited for the old owner's window selects
\* SubstructureRedirect without an error, when managers are started one by one.
THEOREM Granted == Spec => []NeverRefused
<1>1. IInv => NeverRefused
  BY DEF IInv
<1> QED
  BY <1>1, Invariance, PTL
===============================================================================
