--------------------------- MODULE PacketChannel ---------------------------
(***************************************************************************)
(* What a module may rely on: it gets the packets that were sent to it     *)
(* whole, each once and in the order in which they were sent.              *)
(***************************************************************************)
EXTENDS Sequences

CONSTANTS Modules, Packets

VARIABLES pending, received

channelVars == <<pending, received>>

Init == pending = [m \in Modules |-> <<>>] /\ received = [m \in Modules |-> <<>>]

Held(s) == {s[i] : i \in DOMAIN s}

Send(m, p) ==
  /\ p \notin Held(pending[m]) \cup Held(received[m])
  /\ pending' = [pending EXCEPT ![m] = Append(@, p)]
  /\ UNCHANGED received

Receive(m) ==
  /\ pending[m] # <<>>
  /\ pending' = [pending EXCEPT ![m] = Tail(@)]
  /\ received' = [received EXCEPT ![m] = Append(@, Head(pending[m]))]

Next == \E m \in Modules : Receive(m) \/ \E p \in Packets : Send(m, p)

Spec == Init /\ [][Next]_channelVars
=============================================================================
