--------------------------- MODULE ModuleContract ---------------------------
(***************************************************************************)
(* The module link implements PacketChannel.  A module has received a      *)
(* packet when it has read its last unit; what is on its way is in the     *)
(* pipe or in the message queue.                                           *)
(***************************************************************************)
EXTENDS ModuleLink

(* the packets that are in the pipe to their last unit, then the queue *)
WholeIn(units) == [k \in 1 .. Len(units) \div Units |-> units[k * Units][1]]

IdsOf(q) == [i \in DOMAIN q |-> q[i].id]

SentOf(units, q) == WholeIn(units) \o IdsOf(q)

SentTo(m) == SentOf(wire[m].sent, fmod[m].queue)

(* how many of them the module has read *)
ReadBy(m) == wire[m].read \div Units

ReceivedBy(m) == SubSeq(SentTo(m), 1, ReadBy(m))

OnItsWay(m) == SubSeq(SentTo(m), ReadBy(m) + 1, Len(SentTo(m)))

Channel == INSTANCE PacketChannel WITH
             Packets <- 1 .. MaxPackets,
             pending <- [m \in Modules |-> OnItsWay(m)],
             received <- [m \in Modules |-> ReceivedBy(m)]

(* ModuleLink implements PacketChannel. *)
DeliversPackets == Channel!Spec
=============================================================================
