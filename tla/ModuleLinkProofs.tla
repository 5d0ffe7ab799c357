---------------------------- MODULE ModuleLinkProofs ----------------------------
(***************************************************************************)
(* Proofs about ModuleLink, for any number of modules, types, packets and  *)
(* commands: the types, that each module has one owner, that pipes hold    *)
(* whole packets, that the manager and a module never wait for each other, *)
(* that, when commands do not Wait, no module is freed while it is in use, *)
(* that modules get what they are sent whole, once and in order, and that, *)
(* when no module is synchronous, their commands are executed in order and *)
(* loops over the list of modules stay in the list.                        *)
(***************************************************************************)
EXTENDS ModuleContract, SubsequenceProofs, SequenceTheorems

\* What the frames of each kind hold
Frames ==
  {f \in Frame :
     /\ f.at \in {"pw", "flush", "sync"} => f.mod \in Modules
     /\ f.at \in LoopPoints \cup {"each"} => f.mod = Nil
     /\ f.at = "pw" => f.msg \in Message
     /\ f.at = "each" /\ f.in # {} => f.msg \in Message}

ListTypes ==
  /\ module_list \in Seq(Modules) /\ death_row \in Seq(Modules) /\ freed \subseteq Modules

LinkTypes ==
  /\ fmod \in [Modules -> FmodType] /\ wire \in [Modules -> WireType]
  /\ inputs \in 0 .. MaxInputs

LoopTypes ==
  /\ cqueue \in Seq(Input) /\ stack \in Seq(Frames)
  /\ ran \in [Modules -> 0 .. MaxInputs] /\ packets \in 0 .. MaxPackets

ModeTypes ==
  /\ myxgrabcount \in 0 .. MaxGrabs /\ fMvwmInStartup \in BOOLEAN
  /\ isTerminated \in BOOLEAN /\ undefined \in {"none", "iterator", "module"}

Distinct(s) == \A i, j \in DOMAIN s : s[i] = s[j] => i = j

\* OwnedOnce, list by list
Owned ==
  /\ Distinct(module_list) /\ Distinct(death_row)
  /\ ToSet(module_list) \cap ToSet(death_row) = {}
  /\ (ToSet(module_list) \cup ToSet(death_row)) \cap freed = {}

Started(m) == wire[m].started

\* Only modules that were started are anywhere.
HoldersStarted ==
  /\ \A i \in DOMAIN module_list : Started(module_list[i])
  /\ \A i \in DOMAIN death_row : Started(death_row[i])
  /\ \A m \in freed : Started(m)
  /\ \A i \in DOMAIN stack : stack[i].mod # Nil => Started(stack[i].mod)
  /\ \A i \in DOMAIN cqueue : Started(cqueue[i].mod)

LinksStarted ==
  /\ \A m \in Modules :
       ~Started(m) =>
         /\ ~wire[m].up /\ wire[m].input = <<>> /\ wire[m].sent = <<>>
         /\ fmod[m].queue = <<>>
  /\ \A m \in Modules : \A i \in DOMAIN wire[m].input : wire[m].input[i].mod = m

\* What is in a pipe are packets, one after the other.
Packets(sent) ==
  \A i \in DOMAIN sent :
    /\ sent[i][2] = ((i - 1) % Units) + 1
    /\ sent[i][2] > 1 => sent[i - 1][1] = sent[i][1]

\* The last one is written as far as the first one of the queue is.
StreamOf(sent, q) ==
  LET rest == Len(sent) % Units
  IN /\ Packets(sent)
     /\ rest = IF q = <<>> THEN 0 ELSE q[1].done
     /\ rest # 0 => q[1].id = sent[Len(sent)][1]
     /\ \A i \in DOMAIN q : i > 1 => q[i].done = 0

Stream(m) == StreamOf(wire[m].sent, fmod[m].queue)

\* While the server is grabbed a command runs that only sends packets.
GrabbedByCommand ==
  myxgrabcount # 0 =>
    \E k \in DOMAIN stack :
      stack[k].at = "cmd" /\ \A i \in 1 .. k - 1 : stack[i].at \in {"each", "flush"}

\* What is being sent is younger than what was being sent, or what PositiveWrite
\* waits for, when it was begun.
SentLater ==
  /\ \A i \in DOMAIN stack : stack[i].msg.id <= packets
  /\ \A i, j \in DOMAIN stack :
       i < j /\ stack[i].at = "each" /\ stack[j].at \in {"each", "pw"} /\ stack[i].msg # NoMsg
         => stack[i].msg.id > stack[j].msg.id

Lacks(m, id) == \A i \in DOMAIN fmod[m].queue : fmod[m].queue[i].id # id

\* The packet that is to be answered has left the queue, unless that is about to
\* be flushed, or the module is killed, or all ends.
AnsweredSent ==
  \A j \in DOMAIN stack :
    stack[j].at = "pw" /\ stack[j].mod \in ToSet(module_list) /\ ~isTerminated =>
      \/ j = 2 /\ stack[1].at = "flush" /\ stack[1].mod = stack[j].mod
      \/ Lacks(stack[j].mod, stack[j].msg.id)

\* Without nested loops, the one loop is the outermost call.
OneLoop ==
  MaxWaits = 0 =>
    /\ stack # <<>> => stack[Len(stack)].at \in LoopPoints
    /\ \A i \in 1 .. Len(stack) - 1 : stack[i].at \notin LoopPoints
    /\ stack # <<>> /\ stack[Len(stack)].at \notin {"input", "exec"} => cqueue = <<>>
    /\ UsedModulesLive

IInv ==
  /\ ListTypes /\ LinkTypes /\ LoopTypes /\ ModeTypes
  /\ HoldersStarted /\ LinksStarted /\ Owned
  /\ \A m \in Modules : Stream(m)
  /\ GrabbedByCommand /\ SentLater /\ AnsweredSent
  /\ OneLoop
-----------------------------------------------------------------------------
(* Sequences and remainders *)

LEMMA PushFacts ==
  ASSUME NEW S, NEW s \in Seq(S), NEW f \in S
  PROVE  /\ <<f>> \o s \in Seq(S)
         /\ Len(<<f>> \o s) = Len(s) + 1
         /\ DOMAIN (<<f>> \o s) = 1 .. Len(s) + 1
         /\ (<<f>> \o s)[1] = f
         /\ \A i \in DOMAIN s : (<<f>> \o s)[i + 1] = s[i]
         /\ \A i \in 2 .. Len(s) + 1 : i - 1 \in DOMAIN s /\ (<<f>> \o s)[i] = s[i - 1]
OBVIOUS

LEMMA PopFacts ==
  ASSUME NEW S, NEW s \in Seq(S), s # <<>>
  PROVE  /\ Tail(s) \in Seq(S)
         /\ Len(Tail(s)) = Len(s) - 1 /\ Len(s) >= 1
         /\ DOMAIN Tail(s) = 1 .. Len(s) - 1
         /\ \A i \in DOMAIN Tail(s) : Tail(s)[i] = s[i + 1] /\ i + 1 \in DOMAIN s
         /\ s[1] \in S
OBVIOUS

LEMMA ReverseFacts ==
  ASSUME NEW S, NEW s \in Seq(S)
  PROVE  /\ Reverse(s) \in Seq(S)
         /\ Len(Reverse(s)) = Len(s)
         /\ \A i \in DOMAIN s :
              Len(s) + 1 - i \in DOMAIN s /\ Reverse(s)[i] = s[Len(s) + 1 - i]
BY DEF Reverse

LEMMA ModFacts ==
  ASSUME NEW U \in Nat \ {0}, NEW a \in Nat
  PROVE  a % U \in 0 .. U - 1 /\ a \div U \in Nat /\ a = U * (a \div U) + (a % U)
OBVIOUS

LEMMA ModUnique ==
  ASSUME NEW U \in Nat \ {0}, NEW q \in Int, NEW r \in 0 .. U - 1, U * q + r \in Nat
  PROVE  (U * q + r) % U = r /\ (U * q + r) \div U = q
<1> DEFINE x == U * q + r
           p == x \div U
           t == x % U
<1>1. t \in 0 .. U - 1 /\ p \in Nat /\ x = U * p + t
  BY ModFacts
<1> HIDE DEF p, t
<1>2. U * (q - p) = t - r
  BY <1>1
<1>3. ASSUME q - p >= 1 PROVE FALSE
  <2>1. U * (q - p) >= U
    BY <1>1, <1>3
  <2> QED
    BY <1>1, <1>2, <2>1
<1>4. ASSUME q - p <= -1 PROVE FALSE
  <2>1. U * (q - p) <= -U
    BY <1>1, <1>4
  <2> QED
    BY <1>1, <1>2, <2>1
<1>5. q = p
  BY <1>1, <1>3, <1>4
<1>6. t = r
  BY <1>1, <1>5
<1> QED
  BY <1>5, <1>6 DEF t, p

LEMMA ModAdd ==
  ASSUME NEW U \in Nat \ {0}, NEW a \in Nat, NEW n \in Nat
  PROVE  /\ (a % U) + n < U => (a + n) % U = (a % U) + n
         /\ (a % U) + n = U => (a + n) % U = 0
<1> DEFINE q == a \div U
           r == a % U
<1>1. r \in 0 .. U - 1 /\ q \in Nat /\ a = U * q + r
  BY ModFacts
<1> HIDE DEF q, r
<1>2. ASSUME r + n < U PROVE (a + n) % U = r + n
  <2>1. a + n = U * q + (r + n) /\ r + n \in 0 .. U - 1
    BY <1>1, <1>2
  <2> QED
    BY <1>1, <2>1, ModUnique
<1>3. ASSUME r + n = U PROVE (a + n) % U = 0
  <2>1. a + n = U * (q + 1) + 0
    BY <1>1, <1>3
  <2>2. q + 1 \in Int /\ 0 \in 0 .. U - 1 /\ U * (q + 1) + 0 \in Nat
    BY <1>1, <2>1
  <2>3. (U * (q + 1) + 0) % U = 0
    BY <2>2, ModUnique
  <2> QED
    BY <2>1, <2>3
<1> QED
  BY <1>2, <1>3 DEF r

LEMMA DivAdd ==
  ASSUME NEW U \in Nat \ {0}, NEW a \in Nat, NEW n \in Nat
  PROVE  /\ (a % U) + n < U => (a + n) \div U = a \div U
         /\ (a % U) + n = U =>
              /\ (a + n) \div U = (a \div U) + 1
              /\ a + n = ((a \div U) + 1) * U
<1> DEFINE q == a \div U
           r == a % U
<1>1. r \in 0 .. U - 1 /\ q \in Nat /\ a = U * q + r
  BY ModFacts
<1> HIDE DEF q, r
<1>2. ASSUME r + n < U PROVE (a + n) \div U = q
  <2>1. a + n = U * q + (r + n) /\ r + n \in 0 .. U - 1
    BY <1>1, <1>2
  <2> QED
    BY <1>1, <2>1, ModUnique
<1>3. ASSUME r + n = U PROVE (a + n) \div U = q + 1 /\ a + n = (q + 1) * U
  <2>1. a + n = U * (q + 1) + 0 /\ U * (q + 1) = (q + 1) * U
    BY <1>1, <1>3
  <2>2. q + 1 \in Int /\ 0 \in 0 .. U - 1 /\ U * (q + 1) + 0 \in Nat
    BY <1>1, <2>1
  <2>3. (U * (q + 1) + 0) \div U = q + 1
    BY <2>2, ModUnique
  <2> QED
    BY <2>1, <2>2, <2>3
<1> QED
  BY <1>2, <1>3 DEF q, r

\* One more is at most one more packet, and less is not more packets.
LEMMA DivGrows ==
  ASSUME NEW U \in Nat \ {0}, NEW a \in Nat
  PROVE  (a + 1) \div U \in {a \div U, (a \div U) + 1}
<1>1. (a % U) + 1 < U \/ (a % U) + 1 = U
  BY ModFacts
<1> QED
  BY <1>1, DivAdd

LEMMA DivMonotone ==
  ASSUME NEW U \in Nat \ {0}, NEW a \in Nat, NEW b \in Nat, a <= b
  PROVE  a \div U <= b \div U
<1>1. PICK p \in Nat, r \in 0 .. U - 1 : p = a \div U /\ a = U * p + r
  BY ModFacts
<1>2. PICK q \in Nat, t \in 0 .. U - 1 : q = b \div U /\ b = U * q + t
  BY ModFacts
<1>3. ASSUME p - q >= 1 PROVE FALSE
  <2>1. U * (p - q) >= U
    BY <1>3
  <2>2. U * (p - q) = U * p - U * q
    OBVIOUS
  <2> QED
    BY <1>1, <1>2, <2>1, <2>2
<1> QED
  BY <1>1, <1>2, <1>3

\* the last unit of packet k is there
LEMMA DivMultiple ==
  ASSUME NEW U \in Nat \ {0}, NEW a \in Nat, NEW k \in 1 .. a \div U
  PROVE  k * U \in 1 .. a
<1>1. PICK p \in Nat, r \in 0 .. U - 1 : p = a \div U /\ a = U * p + r
  BY ModFacts
<1>2. k \in 1 .. p
  BY <1>1
<1>3. U * (p - k) >= 0 /\ U * (p - k) = U * p - k * U
  BY <1>2
<1>4. k * U >= 1
  BY <1>2
<1>5. k * U <= a /\ k * U \in Nat
  BY <1>1, <1>2, <1>3
<1> QED
  BY <1>4, <1>5

-----------------------------------------------------------------------------
(* The lists *)

\* A module_kill moves modules from the list to the death row, and frees none.
LEMMA KillFacts ==
  ASSUME ListTypes, Owned, NEW S, Kill(S)
  PROVE  /\ ListTypes' /\ Owned' /\ freed' = freed
         /\ ToSet(module_list') = ToSet(module_list) \ S
         /\ ToSet(module_list') \cup ToSet(death_row') =
              ToSet(module_list) \cup ToSet(death_row)
<1> DEFINE at == {i \in DOMAIN module_list : module_list[i] \in S}
           rest == DOMAIN module_list \ at
           gone == Subsequence(module_list, at)
           left == Subsequence(module_list, rest)
<1>1. /\ module_list \in Seq(Modules) /\ death_row \in Seq(Modules)
      /\ Distinct(module_list) /\ Distinct(death_row)
      /\ at \in SUBSET (1 .. Len(module_list)) /\ rest \in SUBSET (1 .. Len(module_list))
  BY DEF ListTypes, Owned
<1>2. /\ gone \in Seq(Modules)
      /\ \A k \in DOMAIN gone : \E i \in at : gone[k] = module_list[i]
      /\ \A i \in at : \E k \in DOMAIN gone : gone[k] = module_list[i]
      /\ Distinct(gone)
  <2> HIDE DEF at
  <2>1. /\ gone \in Seq(Modules)
        /\ \A k \in DOMAIN gone : \E i \in at : gone[k] = module_list[i]
        /\ \A i \in at : \E k \in DOMAIN gone : gone[k] = module_list[i]
        /\ (\A i, j \in DOMAIN module_list : module_list[i] = module_list[j] => i = j) =>
             \A i, j \in DOMAIN gone : gone[i] = gone[j] => i = j
    BY <1>1, SubsequenceFacts, Zenon
  <2> QED
    BY <1>1, <2>1 DEF Distinct
<1>3. /\ left \in Seq(Modules)
      /\ \A k \in DOMAIN left : \E i \in rest : left[k] = module_list[i]
      /\ \A i \in rest : \E k \in DOMAIN left : left[k] = module_list[i]
      /\ Distinct(left)
  <2> HIDE DEF rest
  <2>1. /\ left \in Seq(Modules)
        /\ \A k \in DOMAIN left : \E i \in rest : left[k] = module_list[i]
        /\ \A i \in rest : \E k \in DOMAIN left : left[k] = module_list[i]
        /\ (\A i, j \in DOMAIN module_list : module_list[i] = module_list[j] => i = j) =>
             \A i, j \in DOMAIN left : left[i] = left[j] => i = j
    BY <1>1, SubsequenceFacts, Zenon
  <2> QED
    BY <1>1, <2>1 DEF Distinct
<1>4. /\ module_list' = left /\ death_row' = Reverse(gone) \o death_row /\ freed' = freed
  BY DEF Kill
<1> HIDE DEF gone, left
<1>5. ToSet(gone) = ToSet(module_list) \cap S
  BY <1>2 DEF ToSet
<1>6. ToSet(left) = ToSet(module_list) \ S
  BY <1>3 DEF ToSet
<1>7. /\ Reverse(gone) \in Seq(Modules) /\ Distinct(Reverse(gone))
      /\ ToSet(Reverse(gone)) = ToSet(gone)
  <2>1. /\ Reverse(gone) \in Seq(Modules) /\ Len(Reverse(gone)) = Len(gone)
        /\ \A i \in DOMAIN gone : /\ Len(gone) + 1 - i \in DOMAIN gone
                                  /\ Reverse(gone)[i] = gone[Len(gone) + 1 - i]
    BY <1>2, ReverseFacts
  <2>2. DOMAIN Reverse(gone) = DOMAIN gone
    BY <1>2, <2>1
  <2>3. Distinct(Reverse(gone))
    BY <1>2, <2>1, <2>2 DEF Distinct
  <2>4. ASSUME NEW i \in DOMAIN gone
        PROVE  \E j \in DOMAIN gone : gone[i] = Reverse(gone)[j]
    <3> DEFINE j == Len(gone) + 1 - i
    <3>1. j \in DOMAIN gone /\ Len(gone) + 1 - j = i
      BY <1>2, <2>1
    <3> QED
      BY <2>1, <3>1
  <2>5. ToSet(Reverse(gone)) = ToSet(gone)
    BY <2>1, <2>2, <2>4 DEF ToSet
  <2> QED
    BY <2>1, <2>3, <2>5
<1>8. ToSet(gone) \cap ToSet(death_row) = {}
  BY <1>5 DEF Owned
<1> DEFINE row == Reverse(gone)
<1>9. row \in Seq(Modules) /\ Distinct(row) /\ ToSet(row) \cap ToSet(death_row) = {}
      /\ ToSet(row) = ToSet(gone)
  BY <1>7, <1>8
<1> HIDE DEF row
<1>10. /\ row \o death_row \in Seq(Modules) /\ Distinct(row \o death_row)
       /\ ToSet(row \o death_row) = ToSet(row) \cup ToSet(death_row)
  <2>1. row \o death_row \in Seq(Modules)
    BY <1>1, <1>9
  <2>2. /\ DOMAIN (row \o death_row) = 1 .. Len(row) + Len(death_row)
        /\ \A i \in 1 .. Len(row) : (row \o death_row)[i] = row[i]
        /\ \A i \in 1 .. Len(death_row) : (row \o death_row)[Len(row) + i] = death_row[i]
        /\ DOMAIN row = 1 .. Len(row) /\ DOMAIN death_row = 1 .. Len(death_row)
        /\ Len(row) \in Nat /\ Len(death_row) \in Nat
    BY <1>1, <1>9
  <2>3. \A i \in DOMAIN (row \o death_row) :
          \/ i \in DOMAIN row /\ (row \o death_row)[i] = row[i]
          \/ i - Len(row) \in DOMAIN death_row
             /\ (row \o death_row)[i] = death_row[i - Len(row)]
    BY <2>2
  <2>4. \A i \in DOMAIN row, j \in DOMAIN death_row : row[i] # death_row[j]
    BY <1>9 DEF ToSet
  <2>5. Distinct(row \o death_row)
    BY <1>1, <1>9, <2>2, <2>3, <2>4 DEF Distinct
  <2>6. ToSet(row \o death_row) = ToSet(row) \cup ToSet(death_row)
    <3>1. \A i \in DOMAIN death_row : Len(row) + i \in DOMAIN (row \o death_row)
      BY <2>2
    <3>2. DOMAIN row \subseteq DOMAIN (row \o death_row)
      BY <2>2
    <3> QED
      BY <2>2, <2>3, <3>1, <3>2 DEF ToSet
  <2> QED
    BY <2>1, <2>5, <2>6
<1>11. death_row' = row \o death_row
  BY <1>4 DEF row
<1>12. ListTypes'
  BY <1>3, <1>4, <1>10, <1>11 DEF ListTypes
<1>13. Owned'
  BY <1>3, <1>4, <1>5, <1>6, <1>9, <1>10, <1>11 DEF Owned
<1> QED
  BY <1>4, <1>5, <1>6, <1>9, <1>10, <1>11, <1>12, <1>13

\* module_cleanup frees what was on the death row.
LEMMA CleanupFacts ==
  ASSUME ListTypes, Owned, Cleanup
  PROVE  /\ ListTypes' /\ Owned' /\ module_list' = module_list
         /\ freed' = freed \cup ToSet(death_row) /\ death_row' = <<>>
<1>1. death_row' = <<>> /\ freed' = freed \cup ToSet(death_row) /\ module_list' = module_list
  BY DEF Cleanup
<1>2. ToSet(death_row) \subseteq Modules
  BY DEF ListTypes, ToSet
<1>3. ListTypes'
  BY <1>1, <1>2 DEF ListTypes
<1>4. Owned'
  BY <1>1 DEF Owned, Distinct, ToSet
<1> QED
  BY <1>1, <1>3, <1>4

\* A module that is started is new.
LEMMA NewModuleFacts ==
  ASSUME ListTypes, Owned, HoldersStarted, NEW m \in Modules, ~Started(m),
         module_list' = <<m>> \o module_list, UNCHANGED <<death_row, freed>>
  PROVE  ListTypes' /\ Owned' /\ ToSet(module_list') = ToSet(module_list) \cup {m}
<1>1. module_list \in Seq(Modules)
  BY DEF ListTypes
<1>2. /\ module_list' \in Seq(Modules)
      /\ DOMAIN module_list' = 1 .. Len(module_list) + 1
      /\ module_list'[1] = m
      /\ \A i \in DOMAIN module_list : module_list'[i + 1] = module_list[i]
      /\ \A i \in 2 .. Len(module_list) + 1 :
           i - 1 \in DOMAIN module_list /\ module_list'[i] = module_list[i - 1]
  BY <1>1, PushFacts
<1>3. ToSet(module_list') = ToSet(module_list) \cup {m}
  <2>1. /\ 1 \in DOMAIN module_list'
        /\ \A i \in DOMAIN module_list : i + 1 \in DOMAIN module_list'
        /\ \A i \in DOMAIN module_list' : i = 1 \/ i - 1 \in DOMAIN module_list
    BY <1>1, <1>2
  <2>2. ToSet(module_list') \subseteq ToSet(module_list) \cup {m}
    BY <1>2, <2>1 DEF ToSet
  <2>3. ToSet(module_list) \cup {m} \subseteq ToSet(module_list')
    BY <1>2, <2>1, ZenonT(60) DEF ToSet
  <2> QED
    BY <2>2, <2>3
<1>4. m \notin ToSet(module_list) /\ m \notin ToSet(death_row) /\ m \notin freed
  BY DEF HoldersStarted, ToSet
<1>5. Distinct(module_list')
  <2>1. \A i \in DOMAIN module_list : module_list[i] # m
    BY <1>4 DEF ToSet
  <2>2. Distinct(module_list)
    BY DEF Owned
  <2> QED
    BY <1>1, <1>2, <2>1, <2>2 DEF Distinct
<1> QED
  BY <1>2, <1>3, <1>4, <1>5 DEF ListTypes, Owned

-----------------------------------------------------------------------------
(* The pipes and queues *)

Unit == (1 .. MaxPackets) \X (1 .. Units)

\* A packet that is put into the queue is written after all others.
LEMMA StreamAppend ==
  ASSUME NEW sent \in Seq(Unit), NEW q \in Seq(Queued), StreamOf(sent, q),
         NEW e \in Queued, e.done = 0
  PROVE  Append(q, e) \in Seq(Queued) /\ StreamOf(sent, Append(q, e))
<1>1. /\ Append(q, e) \in Seq(Queued) /\ Len(Append(q, e)) = Len(q) + 1
      /\ \A i \in DOMAIN q : Append(q, e)[i] = q[i]
      /\ Append(q, e)[Len(q) + 1] = e
      /\ Append(q, e) # <<>>
  OBVIOUS
<1>2. CASE q = <<>>
  <2>1. Append(q, e)[1] = e /\ Len(Append(q, e)) = 1
    BY <1>1, <1>2
  <2> QED
    BY <1>1, <1>2, <2>1 DEF StreamOf
<1>3. CASE q # <<>>
  <2>1. Append(q, e)[1] = q[1]
    BY <1>1, <1>3
  <2>2. \A i \in DOMAIN Append(q, e) : i \in DOMAIN q \/ i = Len(q) + 1
    BY <1>1
  <2>3. \A i \in DOMAIN Append(q, e) : i > 1 => Append(q, e)[i].done = 0
    BY <1>1, <2>2 DEF StreamOf
  <2> QED
    BY <1>1, <1>3, <2>1, <2>3 DEF StreamOf
<1> QED
  BY <1>2, <1>3, <1>1

LEMMA RowFacts ==
  ASSUME NEW S, NEW n \in Nat, NEW f \in [1 .. n -> S]
  PROVE  f \in Seq(S) /\ Len(f) = n
<1>1. f \in Seq(S)
  OBVIOUS
<1>2. DOMAIN f = 1 .. n /\ DOMAIN f = 1 .. Len(f) /\ Len(f) \in Nat
  BY <1>1
<1> QED
  BY <1>1, <1>2

LEMMA ConcatFacts ==
  ASSUME NEW S, NEW s \in Seq(S), NEW t \in Seq(S)
  PROVE  /\ s \o t \in Seq(S) /\ Len(s \o t) = Len(s) + Len(t)
         /\ DOMAIN (s \o t) = 1 .. Len(s) + Len(t)
         /\ \A i \in 1 .. Len(s) : (s \o t)[i] = s[i]
         /\ \A i \in Len(s) + 1 .. Len(s) + Len(t) : (s \o t)[i] = t[i - Len(s)]
OBVIOUS

\* the units of packet id after the first d ones
Row(id, d, n) == [i \in 1 .. n |-> <<id, d + i>>]

\* Units of one packet are added.
LEMMA PacketsGrow ==
  ASSUME NEW sent \in Seq(Unit), Packets(sent),
         NEW id \in 1 .. MaxPackets, NEW d \in 0 .. Units - 1, NEW n \in 1 .. Units - d,
         Len(sent) % Units = d, d # 0 => sent[Len(sent)][1] = id
  PROVE  /\ sent \o Row(id, d, n) \in Seq(Unit)
         /\ Len(sent \o Row(id, d, n)) = Len(sent) + n
         /\ Packets(sent \o Row(id, d, n))
         /\ (sent \o Row(id, d, n))[Len(sent) + n][1] = id
         /\ d + n = Units => (Len(sent) + n) % Units = 0
         /\ d + n < Units => (Len(sent) + n) % Units = d + n
<1>0. PICK L \in Nat : L = Len(sent) /\ L % Units = d /\ (d # 0 => sent[L][1] = id)
  OBVIOUS
<1>9. \A j \in Nat :
        /\ (L % Units) + j < Units => (L + j) % Units = (L % Units) + j
        /\ (L % Units) + j = Units => (L + j) % Units = 0
  BY ModuleLinkAssumption, ModAdd, Zenon
<1>8. L % Units = d
  BY <1>0
<1>1. Units \in Nat \ {0} /\ n \in Nat /\ n >= 1 /\ d \in Nat /\ d + n <= Units
  BY ModuleLinkAssumption
<1> DEFINE new == Row(id, d, n)
<1>2. new \in Seq(Unit) /\ Len(new) = n /\ \A i \in 1 .. n : new[i] = <<id, d + i>>
  <2>1. \A i \in 1 .. n : <<id, d + i>> \in Unit
    BY <1>0, <1>1 DEF Unit
  <2>2. new \in [1 .. n -> Unit]
    BY <2>1 DEF Row
  <2>3. \A i \in 1 .. n : new[i] = <<id, d + i>>
    BY DEF Row
  <2> QED
    BY <1>0, <1>1, <2>2, <2>3, RowFacts
<1> HIDE DEF new
<1>3. /\ sent \o new \in Seq(Unit) /\ Len(sent \o new) = L + n
      /\ DOMAIN (sent \o new) = 1 .. L + n
      /\ \A i \in 1 .. L : (sent \o new)[i] = sent[i]
      /\ \A i \in L + 1 .. L + n : (sent \o new)[i] = <<id, d + (i - L)>>
  <2>3. /\ sent \o new \in Seq(Unit) /\ Len(sent \o new) = Len(sent) + Len(new)
        /\ DOMAIN (sent \o new) = 1 .. Len(sent) + Len(new)
        /\ \A i \in 1 .. Len(sent) : (sent \o new)[i] = sent[i]
        /\ \A i \in Len(sent) + 1 .. Len(sent) + Len(new) :
             (sent \o new)[i] = new[i - Len(sent)]
    BY <1>2, ConcatFacts, Zenon
  <2>1. /\ sent \o new \in Seq(Unit) /\ Len(sent \o new) = L + n
        /\ DOMAIN (sent \o new) = 1 .. L + n
        /\ \A i \in 1 .. L : (sent \o new)[i] = sent[i]
        /\ \A i \in L + 1 .. L + n : (sent \o new)[i] = new[i - L]
    BY <1>0, <1>2, <2>3
  <2>2. \A i \in L + 1 .. L + n : i - L \in 1 .. n
    BY <1>0, <1>1
  <2> QED
    BY <1>2, <2>1, <2>2
<1> DEFINE more == sent \o new
<1> HIDE DEF more
<1>4. ASSUME NEW i \in 1 .. L + n
      PROVE  /\ more[i][2] = ((i - 1) % Units) + 1
             /\ more[i][2] > 1 => more[i - 1][1] = more[i][1]
  <2>1. CASE i <= L
    <3>1. i \in DOMAIN sent /\ i \in 1 .. L /\ i - 1 \in Nat /\ (i > 1 => i - 1 \in 1 .. L)
      BY <1>0, <1>1, <2>1
    <3>2. /\ sent[i][2] = ((i - 1) % Units) + 1
          /\ sent[i][2] > 1 => sent[i - 1][1] = sent[i][1]
      BY <3>1 DEF Packets
    <3>3. i = 1 => sent[i][2] = 1
      <4>1. 0 % Units = 0
        BY <1>0, <1>1
      <4> QED
        BY <3>2, <4>1
    <3>4. more[i] = sent[i] /\ (i > 1 => more[i - 1] = sent[i - 1])
      BY <1>3, <3>1 DEF more
    <3>5. CASE i = 1
      BY <3>2, <3>3, <3>4, <3>5
    <3>6. CASE i # 1
      BY <3>1, <3>2, <3>4, <3>6
    <3> QED
      BY <3>5, <3>6
  <2>2. CASE i > L
    <3> DEFINE k == i - L
    <3>1. k \in 1 .. n /\ i \in L + 1 .. L + n /\ k - 1 \in Nat /\ i - 1 = L + (k - 1)
      BY <1>0, <1>1, <2>2
    <3>2. more[i] = <<id, d + k>>
      BY <1>3, <3>1 DEF more
    <3> HIDE DEF k
    <3>3. (L % Units) + (k - 1) < Units
      BY <1>0, <1>1, <3>1
    <3>4. (L + (k - 1)) % Units = d + (k - 1)
      BY <1>8, <1>9, <3>1, <3>3
    <3> DEFINE u == more[i]
    <3>7. u[2] = d + k /\ u[1] = id /\ (i - 1) % Units = d + (k - 1)
      BY <3>1, <3>2, <3>4
    <3> HIDE DEF u
    <3>9. d + k = (d + (k - 1)) + 1
      BY <1>0, <1>1, <3>1
    <3>8. u[2] = ((i - 1) % Units) + 1
      BY <3>7, <3>9
    <3>5. CASE k = 1
      <4>1. d + k > 1 => L \in DOMAIN sent
        <5>1. 0 % Units = 0
          BY <1>0, <1>1
        <5> QED
          BY <1>0, <1>1, <3>5, <5>1
      <4>2. d + k > 1 => more[i - 1][1] = id
        BY <1>0, <1>1, <1>3, <3>1, <3>5, <4>1 DEF more
      <4> QED
        BY <3>7, <3>8, <4>2 DEF u
    <3>6. CASE k # 1
      <4>1. i - 1 \in L + 1 .. L + n
        BY <1>0, <1>1, <3>1, <3>6
      <4>3. more[i - 1] = <<id, d + ((i - 1) - L)>>
        BY <1>3, <4>1 DEF more
      <4>2. more[i - 1][1] = id
        BY <4>3
      <4> QED
        BY <3>7, <3>8, <4>2 DEF u
    <3> QED
      BY <3>5, <3>6
  <2> QED
    BY <1>8, <1>1, <2>1, <2>2
<1>5. Packets(more)
  BY <1>3, <1>4 DEF Packets, more
<1>6. more[L + n][1] = id
  <2>1. L + n \in L + 1 .. L + n
    BY <1>0, <1>1
  <2>2. more[L + n] = <<id, d + ((L + n) - L)>>
    BY <1>3, <2>1 DEF more
  <2> QED
    BY <2>2
<1>7. /\ d + n = Units => (L + n) % Units = 0
      /\ d + n < Units => (L + n) % Units = d + n
  BY <1>8, <1>9, <1>1
<1> QED
  BY <1>0, <1>3, <1>5, <1>6, <1>7 DEF more, new

\* Some units of the first packet of a queue are written.
LEMMA StreamWrite ==
  ASSUME NEW sent \in Seq(Unit), NEW q \in Seq(Queued), StreamOf(sent, q), q # <<>>,
         NEW n \in 1 .. Units - q[1].done,
         NEW more, more = sent \o Row(q[1].id, q[1].done, n)
  PROVE  /\ more \in Seq(Unit) /\ Written(q, n) \in Seq(Queued)
         /\ StreamOf(more, Written(q, n))
         /\ \A i \in DOMAIN Written(q, n) : \E j \in DOMAIN q : Written(q, n)[i].id = q[j].id
<1>1. /\ Len(q) >= 1 /\ Len(q) \in Nat /\ q[1] \in Queued /\ Units \in Nat \ {0}
      /\ DOMAIN q = 1 .. Len(q)
  BY ModuleLinkAssumption
<1>2. PICK id, d : id = q[1].id /\ d = q[1].done
  OBVIOUS
<1>3. id \in 1 .. MaxPackets /\ d \in 0 .. Units - 1 /\ n \in 1 .. Units - d
  BY <1>1, <1>2 DEF Queued
<1>4. PICK L \in Nat : L = Len(sent)
  OBVIOUS
<1>5. Packets(sent) /\ L % Units = d /\ (d # 0 => sent[L][1] = id)
  BY <1>2, <1>4 DEF StreamOf
<1>6. more = sent \o Row(id, d, n)
  BY <1>2
<1>7. /\ more \in Seq(Unit) /\ Len(more) = L + n
      /\ Packets(more) /\ more[L + n][1] = id
      /\ d + n = Units => (L + n) % Units = 0
      /\ d + n < Units => (L + n) % Units = d + n
  <2> DEFINE new == Row(id, d, n)
  <2>1. /\ sent \o new \in Seq(Unit) /\ Len(sent \o new) = Len(sent) + n
        /\ Packets(sent \o new) /\ (sent \o new)[Len(sent) + n][1] = id
        /\ d + n = Units => (Len(sent) + n) % Units = 0
        /\ d + n < Units => (Len(sent) + n) % Units = d + n
    <3>1. Len(sent) % Units = d /\ (d # 0 => sent[Len(sent)][1] = id)
      BY <1>4, <1>5
    <3> QED
      BY <1>3, <1>5, <3>1, PacketsGrow
  <2> QED
    BY <1>4, <1>6, <2>1
<1>8. \A i \in DOMAIN q : i > 1 => q[i].done = 0
  BY DEF StreamOf
<1>9. CASE d + n = Units
  <2>1. Written(q, n) = Tail(q)
    BY <1>2, <1>9 DEF Written
  <2>2. /\ Tail(q) \in Seq(Queued) /\ DOMAIN Tail(q) = 1 .. Len(q) - 1
        /\ \A i \in DOMAIN Tail(q) : Tail(q)[i] = q[i + 1] /\ i + 1 \in DOMAIN q
    BY PopFacts
  <2>3. \A i \in DOMAIN Tail(q) : Tail(q)[i].done = 0
    BY <1>8, <2>2
  <2>4. Tail(q) # <<>> => Tail(q)[1].done = 0
    <3>1. Tail(q) # <<>> => 1 \in DOMAIN Tail(q)
      BY <1>1, <2>2
    <3> QED
      BY <2>3, <3>1
  <2>5. StreamOf(more, Tail(q))
    BY <1>7, <1>9, <2>3, <2>4 DEF StreamOf
  <2> QED
    BY <1>7, <2>1, <2>2, <2>5
<1>10. CASE d + n # Units
  <2>1. d + n < Units /\ d + n \in 0 .. Units - 1 /\ (L + n) % Units = d + n
    BY <1>1, <1>3, <1>7, <1>10
  <2>2. PICK w : w = [q EXCEPT ![1].done = d + n]
    OBVIOUS
  <2>3. Written(q, n) = w
    BY <1>2, <1>10, <2>2 DEF Written
  <2>4. /\ w \in Seq(Queued) /\ w # <<>> /\ DOMAIN w = DOMAIN q
        /\ w[1].done = d + n /\ w[1].id = id
        /\ \A i \in DOMAIN q : i # 1 => w[i] = q[i]
    <3>1. PICK e : e = [q[1] EXCEPT !.done = d + n]
      OBVIOUS
    <3>2. e \in Queued /\ e.done = d + n /\ e.id = id
      BY <1>1, <1>2, <2>1, <3>1 DEF Queued
    <3>3. w = [q EXCEPT ![1] = e]
      BY <2>2, <3>1
    <3> QED
      BY <1>1, <3>2, <3>3
  <2>5. \A i \in DOMAIN w : i > 1 => w[i].done = 0
    BY <1>8, <2>4, SMTT(30)
  <2>6. StreamOf(more, w)
    BY <1>7, <2>1, <2>4, <2>5 DEF StreamOf
  <2>7. \A i \in DOMAIN w : w[i].id = q[i].id
    BY <1>2, <2>4
  <2> QED
    BY <1>7, <2>3, <2>4, <2>6, <2>7
<1> QED
  BY <1>9, <1>10
-----------------------------------------------------------------------------
(* What one step does to the lists, pipes and queues *)

\* The lists: modules are started, killed or freed, or nothing happens.
ListEffect ==
  /\ ListTypes' /\ Owned'
  /\ \A m \in ToSet(module_list') : m \in ToSet(module_list) \/ ~Started(m)
  /\ \A m \in ToSet(module_list') \cup ToSet(death_row') \cup freed' :
       \/ m \in ToSet(module_list) \cup ToSet(death_row) \cup freed
       \/ Started(m)'
  /\ \/ freed' = freed
     \/ /\ Top.at = "begin"
        /\ stack' \in {<<At("cmd")>> \o Goto(At("begin")), Goto(At("select")),
                       <<At("cmd")>> \o Goto(At("select"))}
        /\ cqueue' = cqueue
     \/ Top.at = "exec" /\ stack' \in Returned /\ cqueue' = cqueue /\ cqueue = <<>>

LEMMA UnchangedLists ==
  ASSUME ListTypes, Owned, UNCHANGED listVars
  PROVE  ListEffect
BY DEF ListTypes, Owned, ListEffect, listVars, Distinct, ToSet

LEMMA KilledLists ==
  ASSUME ListTypes, Owned, NEW S, Kill(S)
  PROVE  ListEffect /\ ToSet(module_list') = ToSet(module_list) \ S
<1>1. /\ ListTypes' /\ Owned' /\ freed' = freed
      /\ ToSet(module_list') = ToSet(module_list) \ S
      /\ ToSet(module_list') \cup ToSet(death_row') =
           ToSet(module_list) \cup ToSet(death_row)
  BY KillFacts
<1> QED
  BY <1>1 DEF ListEffect

LEMMA PushTwo ==
  ASSUME NEW S, NEW s \in Seq(S), NEW f \in S, NEW g \in S
  PROVE  <<f, g>> \o s = <<f>> \o (<<g>> \o s)
<1> DEFINE t == <<f, g>> \o s
           u == <<f>> \o (<<g>> \o s)
<1>1. /\ t \in Seq(S) /\ Len(t) = Len(s) + 2
      /\ t[1] = f /\ t[2] = g /\ \A i \in 3 .. Len(s) + 2 : t[i] = s[i - 2]
  OBVIOUS
<1>2. /\ u \in Seq(S) /\ Len(u) = Len(s) + 2
      /\ u[1] = f /\ u[2] = g /\ \A i \in 3 .. Len(s) + 2 : u[i] = s[i - 2]
  OBVIOUS
<1> HIDE DEF t, u
<1>3. \A i \in 1 .. Len(t) : t[i] = u[i]
  BY <1>1, <1>2
<1>4. t = u
  BY <1>1, <1>2, <1>3, SeqEqual
<1> QED
  BY <1>4 DEF t, u

LEMMA ListStep ==
  ASSUME IInv, Next
  PROVE  ListEffect
<1>1. ListTypes /\ Owned /\ HoldersStarted
  BY DEF IInv
<1>2. \A m : Receive(m) => ListEffect
  <2>1. ASSUME NEW m, Receive(m) PROVE Kill({m}) \/ UNCHANGED listVars
    BY <2>1 DEF Receive
  <2> QED
    BY <1>1, <2>1, KilledLists, UnchangedLists
<1>3. ASSUME Loops PROVE ListEffect
  <2>1. CASE LoopIdle
    <3>1. CASE UNCHANGED listVars
      BY <1>1, <3>1, UnchangedLists
    <3>2. CASE ~UNCHANGED listVars
      <4>1. Cleanup /\ Top.at = "begin" /\ cqueue' = cqueue
        BY <2>1, <3>2 DEF LoopIdle, Runs
      <4>2. /\ ListTypes' /\ Owned' /\ module_list' = module_list
            /\ freed' = freed \cup ToSet(death_row) /\ death_row' = <<>>
        BY <1>1, <4>1, CleanupFacts
      <4>3. stack' \in {<<At("cmd")>> \o Goto(At("begin")), Goto(At("select")),
                        <<At("cmd")>> \o Goto(At("select"))}
        BY <2>1 DEF LoopIdle, Startup
      <4> QED
        BY <4>1, <4>2, <4>3 DEF ListEffect, ToSet
    <3> QED
      BY <3>1, <3>2
  <2>2. CASE ExecEnd
    <3>1. /\ Cleanup /\ Top.at = "exec" /\ stack' \in Returned /\ cqueue' = cqueue
          /\ cqueue = <<>>
      BY <2>2 DEF ExecEnd, Runs
    <3>2. /\ ListTypes' /\ Owned' /\ module_list' = module_list
          /\ freed' = freed \cup ToSet(death_row) /\ death_row' = <<>>
      BY <1>1, <3>1, CleanupFacts
    <3> QED
      BY <3>1, <3>2 DEF ListEffect, ToSet
  <2>3. CASE InputNext
    <3>1. (\E m : Receive(m)) \/ UNCHANGED listVars
      BY <2>3 DEF InputNext
    <3> QED
      BY <1>1, <1>2, <3>1, UnchangedLists
  <2>4. CASE \/ LoopEnds \/ LoopEvent \/ LoopReturn \/ LoopSelect \/ LoopTerminated
             \/ LoopTimeout \/ InputEnd \/ ExecNext \/ WaitDone
    <3>1. UNCHANGED listVars
      BY <2>4 DEF LoopEnds, LoopEvent, LoopReturn, LoopSelect, LoopTerminated,
                  LoopTimeout, InputEnd, ExecNext, WaitDone
    <3> QED
      BY <1>1, <3>1, UnchangedLists
  <2> QED
    BY <1>3, <2>1, <2>2, <2>3, <2>4 DEF Loops
<1>4. ASSUME Commands PROVE ListEffect
  <2>1. ASSUME NEW m \in Modules, NEW listens \in BOOLEAN, NEW waits \in BOOLEAN,
               CmdModule(m, listens, waits)
        PROVE  ListEffect
    <3>1. /\ ~Started(m) /\ module_list' = <<m>> \o module_list
          /\ UNCHANGED <<death_row, freed>>
      BY <2>1 DEF CmdModule, Started
    <3>2. ListTypes' /\ Owned' /\ ToSet(module_list') = ToSet(module_list) \cup {m}
      BY <1>1, <3>1, NewModuleFacts
    <3>3. Started(m)'
      <4>1. wire' = [wire EXCEPT ![m] = On] /\ wire \in [Modules -> WireType]
        BY <2>1 DEF CmdModule, IInv, LinkTypes
      <4> QED
        BY <4>1 DEF Started, On, Off
    <3> QED
      BY <3>1, <3>2, <3>3 DEF ListEffect
  <2>2. ASSUME NEW S, CmdKillModule(S) PROVE ListEffect
    BY <1>1, <2>2, KilledLists DEF CmdKillModule
  <2>3. CASE \/ \E type \in Types : CmdBroadcast(type)
             \/ \E type \in Types \ Extended, S \in SUBSET Modules : CmdSendToModule(type, S)
             \/ \E type \in Types, flushes \in BOOLEAN : CmdReply(type, flushes)
             \/ \E which \in Masks, half \in {Extended, Types \ Extended} :
                  \E types \in SUBSET half : CmdSetMask(which, half, types)
             \/ CmdFlushAll \/ MyXGrabServer \/ MyXUngrabServer \/ CmdWait \/ CmdReturn
    <3>1. UNCHANGED listVars
      BY <2>3 DEF CmdBroadcast, CmdSendToModule, CmdReply, CmdSetMask, CmdFlushAll,
                  MyXGrabServer, MyXUngrabServer, CmdWait, CmdReturn
    <3> QED
      BY <1>1, <3>1, UnchangedLists
  <2> QED
    BY <1>4, <2>1, <2>2, <2>3 DEF Commands
<1>5. ASSUME Calls PROVE ListEffect
  <2>1. CASE FlushFails \/ PwTimeout
    <3>1. (\E S : Kill(S)) \/ UNCHANGED listVars
      BY <2>1 DEF FlushFails, PwTimeout
    <3> QED
      BY <1>1, <3>1, KilledLists, UnchangedLists
  <2>2. CASE AnswerOrInput
    BY <1>2, <2>2 DEF AnswerOrInput
  <2>3. CASE \/ EachNext \/ EachEnd \/ FlushWrite \/ FlushEnd \/ SyncFlush \/ SyncGivesUp
             \/ AnswerTerminated
    <3>1. UNCHANGED listVars
      BY <2>3 DEF EachNext, EachEnd, FlushWrite, FlushEnd, SyncFlush, SyncGivesUp,
                  AnswerTerminated
    <3> QED
      BY <1>1, <3>1, UnchangedLists
  <2> QED
    BY <1>5, <2>1, <2>2, <2>3 DEF Calls
<1>6. ASSUME Dangling \/ Processes \/ Terminate PROVE ListEffect
  <2>1. UNCHANGED listVars
    BY <1>6 DEF Dangling, Processes, Terminate, ModuleReads, ModuleSends, ModuleExits
  <2> QED
    BY <1>1, <2>1, UnchangedLists
<1> QED
  BY <1>3, <1>4, <1>5, <1>6 DEF Next
LinkInv == LinkTypes /\ LinksStarted /\ \A m \in Modules : Stream(m)

\* the packet that is being sent in a step
BeingSent(id) ==
  \/ id = packets + 1 /\ packets' = id
  \/ Top.at = "each" /\ Top.msg # NoMsg /\ id = Top.msg.id

\* The pipes and queues: what the current packet did not put in is not in.
LinkEffect ==
  /\ LinkInv'
  /\ \A m \in Modules : Started(m) => Started(m)'
  /\ \A m \in Modules : \A id : Lacks(m, id) => Lacks(m, id)' \/ BeingSent(id)

LEMMA UnchangedLinks ==
  ASSUME LinkInv, UNCHANGED linkVars
  PROVE  LinkEffect
BY DEF LinkInv, LinkTypes, LinksStarted, Stream, StreamOf, Packets, LinkEffect, linkVars, Started,
       Lacks

LEMMA ChangedLink ==
  ASSUME LinkInv, NEW m \in Modules, NEW f \in FmodType, NEW w \in WireType,
         fmod' = [fmod EXCEPT ![m] = f], wire' = [wire EXCEPT ![m] = w],
         inputs' \in 0 .. MaxInputs, w.started, StreamOf(w.sent, f.queue),
         \A i \in DOMAIN w.input : w.input[i].mod = m,
         \A i \in DOMAIN f.queue :
           \/ \E j \in DOMAIN fmod[m].queue : fmod[m].queue[j].id = f.queue[i].id
           \/ BeingSent(f.queue[i].id)
  PROVE  LinkEffect
<1>1. fmod \in [Modules -> FmodType] /\ wire \in [Modules -> WireType]
  BY DEF LinkInv, LinkTypes
<1>2. /\ fmod'[m] = f /\ wire'[m] = w
      /\ \A n \in Modules : n # m => fmod'[n] = fmod[n] /\ wire'[n] = wire[n]
  BY <1>1
<1>3. LinkTypes'
  BY <1>1 DEF LinkTypes
<1>4. \A n \in Modules : Stream(n)'
  <2>1. ASSUME NEW n \in Modules PROVE StreamOf(wire'[n].sent, fmod'[n].queue)
    BY <1>2 DEF LinkInv, Stream
  <2> QED
    BY <2>1 DEF Stream, StreamOf, Packets
<1>5. LinksStarted'
  BY <1>2 DEF LinkInv, LinksStarted, Started
<1>6. \A n \in Modules : Started(n) => Started(n)'
  BY <1>2 DEF Started
<1>7. \A n \in Modules : \A id : Lacks(n, id) => Lacks(n, id)' \/ BeingSent(id)
  <2> SUFFICES ASSUME NEW n \in Modules, NEW id, Lacks(n, id), ~BeingSent(id)
               PROVE  Lacks(n, id)'
    OBVIOUS
  <2>1. CASE n = m
    BY <1>2, <2>1 DEF Lacks
  <2>2. CASE n # m
    BY <1>2, <2>2 DEF Lacks
  <2> QED
    BY <2>1, <2>2
<1> QED
  BY <1>3, <1>4, <1>5, <1>6, <1>7 DEF LinkEffect, LinkInv

\* Only the process or the input of a module changes.
LEMMA ChangedWire ==
  ASSUME LinkInv, NEW m \in Modules, NEW w \in WireType,
         fmod' = fmod, wire' = [wire EXCEPT ![m] = w], inputs' \in 0 .. MaxInputs,
         Started(m), w.started, w.sent = wire[m].sent,
         \A i \in DOMAIN w.input : w.input[i].mod = m
  PROVE  LinkEffect
<1>1. fmod \in [Modules -> FmodType]
  BY DEF LinkInv, LinkTypes
<1>2. fmod' = [fmod EXCEPT ![m] = fmod[m]] /\ fmod[m] \in FmodType
  BY <1>1
<1>3. StreamOf(w.sent, fmod[m].queue)
  BY DEF LinkInv, Stream
<1> QED
  BY <1>2, <1>3, ChangedLink

LEMMA ReceiveLinks ==
  ASSUME LinkInv, NEW m \in Modules, Receive(m)
  PROVE  /\ LinkEffect
         /\ Received(m) # Nil => Received(m) \in Input /\ Received(m).mod = m /\ Started(m)
<1>1. wire \in [Modules -> WireType]
  BY DEF LinkInv, LinkTypes
<1>2. CASE Received(m) = Nil
  <2>1. UNCHANGED linkVars
    BY <1>2 DEF Receive, linkVars
  <2> QED
    BY <1>2, <2>1, UnchangedLinks
<1>3. CASE Received(m) # Nil
  <2> DEFINE w == [wire[m] EXCEPT !.input = Tail(@)]
  <2>1. wire' = [wire EXCEPT ![m] = w] /\ fmod' = fmod /\ inputs' = inputs
    BY <1>1, <1>3 DEF Receive
  <2>2. wire[m].input # <<>> /\ Received(m) = Head(wire[m].input)
    BY <1>3 DEF Received
  <2>3. wire[m] \in WireType /\ wire[m].input \in Seq(Input)
    BY <1>1 DEF WireType
  <2>4. Started(m) /\ \A i \in DOMAIN wire[m].input : wire[m].input[i].mod = m
    BY <2>2 DEF LinkInv, LinksStarted
  <2>5. /\ Tail(wire[m].input) \in Seq(Input)
        /\ \A i \in DOMAIN Tail(wire[m].input) : Tail(wire[m].input)[i].mod = m
    BY <2>2, <2>3, <2>4, PopFacts
  <2>6. w \in WireType /\ w.started /\ w.sent = wire[m].sent /\ w.input = Tail(wire[m].input)
    BY <2>3, <2>4, <2>5 DEF WireType, Started
  <2>7. LinkEffect
    <3> HIDE DEF w
    <3>1. inputs' \in 0 .. MaxInputs
      BY <2>1 DEF LinkInv, LinkTypes
    <3> QED
      BY <2>1, <2>4, <2>5, <2>6, <3>1, ChangedWire
  <2>8. Head(wire[m].input) \in Input /\ Head(wire[m].input).mod = m
    BY <2>2, <2>3, <2>4
  <2> QED
    BY <2>2, <2>4, <2>7, <2>8
<1> QED
  BY <1>2, <1>3

\* the packet that PositiveWrite appends
Packet(msg) == [id |-> msg.id, type |-> msg.type, done |-> 0]

LEMMA PositiveWriteLinks ==
  ASSUME LinkInv, NEW m \in Modules, Started(m), NEW msg \in Message, BeingSent(msg.id),
         NEW rest, PositiveWrite(m, msg, rest)
  PROVE  LinkEffect
<1>1. /\ fmod \in [Modules -> FmodType] /\ wire \in [Modules -> WireType]
      /\ inputs \in 0 .. MaxInputs
  BY DEF LinkInv, LinkTypes
<1>2. CASE UNCHANGED linkVars
  BY <1>2, UnchangedLinks
<1>3. CASE ~UNCHANGED linkVars
  <2> DEFINE q == Append(fmod[m].queue, Packet(msg))
             f == [fmod[m] EXCEPT !.queue = q]
  <2>1. fmod' = [fmod EXCEPT ![m] = f] /\ wire' = wire /\ inputs' = inputs
    BY <1>1, <1>3 DEF PositiveWrite, Packet
  <2>2. fmod[m] \in FmodType /\ fmod[m].queue \in Seq(Queued)
    BY <1>1 DEF FmodType
  <2>3. wire[m] \in WireType /\ wire[m].sent \in Seq(Unit)
    BY <1>1 DEF WireType, Unit
  <2>4. Packet(msg) \in Queued /\ Packet(msg).done = 0 /\ Packet(msg).id = msg.id
    BY ModuleLinkAssumption DEF Packet, Queued, Message
  <2>5. StreamOf(wire[m].sent, fmod[m].queue)
    BY DEF LinkInv, Stream
  <2>6. q \in Seq(Queued) /\ StreamOf(wire[m].sent, q)
    BY <2>2, <2>3, <2>4, <2>5, StreamAppend
  <2>7. f \in FmodType /\ f.queue = q
    BY <2>2, <2>6 DEF FmodType
  <2>8. \A i \in DOMAIN q :
          \/ \E j \in DOMAIN fmod[m].queue : fmod[m].queue[j].id = q[i].id
          \/ BeingSent(q[i].id)
    <3>1. \A i \in DOMAIN q :
            (i \in DOMAIN fmod[m].queue /\ q[i] = fmod[m].queue[i]) \/ q[i] = Packet(msg)
      <4> HIDE DEF Packet
      <4> QED
        BY <2>2, <2>4
    <3> QED
      BY <2>4, <3>1
  <2>9. wire' = [wire EXCEPT ![m] = wire[m]]
    BY <1>1, <2>1
  <2>10. wire[m].started /\ \A i \in DOMAIN wire[m].input : wire[m].input[i].mod = m
    BY DEF LinkInv, LinksStarted, Started
  <2>11. inputs' \in 0 .. MaxInputs
    BY <1>1, <2>1
  <2> HIDE DEF f, q
  <2> QED
    BY <2>1, <2>3, <2>6, <2>7, <2>8, <2>9, <2>10, <2>11, ChangedLink
<1> QED
  BY <1>2, <1>3
LEMMA FlushWriteLinks ==
  ASSUME IInv, FlushWrite
  PROVE  LinkEffect
<1> DEFINE m == Top.mod
           q == fmod[m].queue
<1>1. LinkInv /\ LinkTypes /\ LinksStarted /\ LoopTypes
  BY DEF IInv, LinkInv
<1>2. stack # <<>> /\ Top.at = "flush" /\ q # <<>> /\ wire[m].up
  BY DEF FlushWrite, Runs, Running
<1>3. PICK n \in 1 .. Units - q[1].done :
        /\ fmod' = [fmod EXCEPT ![m].queue = Written(q, n)]
        /\ wire' = [wire EXCEPT ![m].sent = @ \o [i \in 1 .. n |-> <<q[1].id, q[1].done + i>>]]
        /\ inputs' = inputs
  BY DEF FlushWrite
<1>4. m \in Modules
  <2>1. Top \in Frames
    BY <1>1, <1>2, PopFacts DEF LoopTypes, Top
  <2> QED
    BY <1>2, <2>1 DEF Frames
<1>5. /\ fmod \in [Modules -> FmodType] /\ wire \in [Modules -> WireType]
      /\ inputs \in 0 .. MaxInputs
  BY <1>1 DEF LinkTypes
<1> HIDE DEF m
<1>6. /\ fmod[m] \in FmodType /\ q \in Seq(Queued)
      /\ wire[m] \in WireType /\ wire[m].sent \in Seq(Unit)
  BY <1>4, <1>5 DEF FmodType, WireType, Unit
<1>7. StreamOf(wire[m].sent, q)
  BY <1>1, <1>4 DEF LinkInv, Stream
<1>8. PICK more : more = wire[m].sent \o Row(q[1].id, q[1].done, n)
  OBVIOUS
<1>9. /\ more \in Seq(Unit) /\ Written(q, n) \in Seq(Queued)
      /\ StreamOf(more, Written(q, n))
      /\ \A i \in DOMAIN Written(q, n) : \E j \in DOMAIN q : Written(q, n)[i].id = q[j].id
  <2> HIDE DEF q
  <2> QED
    BY <1>2, <1>6, <1>7, <1>8, StreamWrite
<1> DEFINE f == [fmod[m] EXCEPT !.queue = Written(q, n)]
           w == [wire[m] EXCEPT !.sent = more]
<1>10. fmod' = [fmod EXCEPT ![m] = f]
  BY <1>3, <1>5
<1>11. wire' = [wire EXCEPT ![m] = w]
  BY <1>3, <1>5, <1>8 DEF Row
<1>12. f \in FmodType /\ f.queue = Written(q, n)
  BY <1>6, <1>9 DEF FmodType
<1>13. w \in WireType /\ w.sent = more /\ w.started = wire[m].started /\ w.input = wire[m].input
  BY <1>6, <1>9 DEF WireType, Unit
<1>14. wire[m].started /\ \A i \in DOMAIN wire[m].input : wire[m].input[i].mod = m
  BY <1>1, <1>2, <1>4 DEF LinksStarted, Started
<1> HIDE DEF q, f, w
<1>15. \A i \in DOMAIN f.queue : \E j \in DOMAIN fmod[m].queue : fmod[m].queue[j].id = f.queue[i].id
  BY <1>9, <1>12 DEF q
<1>16. /\ StreamOf(w.sent, f.queue) /\ w.started /\ inputs' \in 0 .. MaxInputs
       /\ \A i \in DOMAIN w.input : w.input[i].mod = m
  BY <1>3, <1>5, <1>9, <1>12, <1>13, <1>14
<1> QED
  BY <1>1, <1>4, <1>10, <1>11, <1>12, <1>13, <1>15, <1>16, ChangedLink

LEMMA CmdModuleLinks ==
  ASSUME LinkInv, NEW m \in Modules, NEW listens \in BOOLEAN, NEW waits \in BOOLEAN,
         CmdModule(m, listens, waits)
  PROVE  LinkEffect
<1>1. /\ fmod \in [Modules -> FmodType] /\ wire \in [Modules -> WireType]
      /\ inputs \in 0 .. MaxInputs /\ LinksStarted
  BY DEF LinkInv, LinkTypes
<1>2. /\ ~Started(m) /\ wire' = [wire EXCEPT ![m] = On]
      /\ fmod' = [fmod EXCEPT ![m].writefd = ~listens] /\ inputs' = inputs
  BY DEF CmdModule, Started
<1>3. fmod[m].queue = <<>>
  BY <1>1, <1>2 DEF LinksStarted
<1> DEFINE f == [fmod[m] EXCEPT !.writefd = ~listens]
<1>4. fmod' = [fmod EXCEPT ![m] = f]
  BY <1>1, <1>2
<1>5. f \in FmodType /\ f.queue = <<>>
  BY <1>1, <1>3 DEF FmodType
<1>6. On \in WireType /\ On.started /\ On.sent = <<>> /\ On.input = <<>>
  BY DEF On, WireType
<1>7. StreamOf(<<>>, <<>>)
  <2>1. 0 % Units = 0 /\ Len(<<>>) = 0
    BY ModuleLinkAssumption
  <2> QED
    BY <2>1 DEF StreamOf, Packets
<1> HIDE DEF f
<1>8. /\ StreamOf(On.sent, f.queue) /\ On.started /\ inputs' \in 0 .. MaxInputs
      /\ \A i \in DOMAIN On.input : On.input[i].mod = m
      /\ \A i \in DOMAIN f.queue : BeingSent(f.queue[i].id)
  BY <1>1, <1>2, <1>5, <1>6, <1>7
<1> QED
  BY <1>2, <1>4, <1>5, <1>6, <1>8, ChangedLink

LEMMA CmdSetMaskLinks ==
  ASSUME LinkInv, LoopTypes, HoldersStarted, ModuleLinkAssumption,
         NEW which, NEW half \in {Extended, Types \ Extended}, NEW types \in SUBSET half,
         CmdSetMask(which, half, types)
  PROVE  LinkEffect
<1> DEFINE m == Top.mod
<1>1. /\ fmod \in [Modules -> FmodType] /\ wire \in [Modules -> WireType]
      /\ inputs \in 0 .. MaxInputs
  BY DEF LinkInv, LinkTypes
<1>2. stack # <<>> /\ m # Nil /\ wire' = wire /\ inputs' = inputs
  BY DEF CmdSetMask, Runs, Running
<1>3. m \in Modules /\ Started(m)
  <2>1. Top \in Frame /\ 1 \in DOMAIN stack
    BY <1>2, PopFacts DEF LoopTypes, Top, Frames
  <2> QED
    BY <1>2, <2>1 DEF HoldersStarted, Top, Frame, Pointers
<1>4. fmod[m] \in FmodType /\ wire[m] \in WireType /\ wire[m].started
      /\ \A i \in DOMAIN wire[m].input : wire[m].input[i].mod = m
  BY <1>1, <1>3 DEF LinkInv, LinksStarted, Started
<1>5. \A mask \in SUBSET Types : (mask \ half) \cup types \in SUBSET Types
  BY ModuleLinkAssumption
<1>6. PICK f \in FmodType : f.queue = fmod[m].queue /\ fmod' = [fmod EXCEPT ![m] = f]
  <2> DEFINE f == WithMask(fmod[m], which, half, types)
  <2>1. fmod' = [fmod EXCEPT ![m] = f]
    BY <1>1 DEF CmdSetMask
  <2>2. f \in FmodType /\ f.queue = fmod[m].queue
    BY <1>4, <1>5 DEF WithMask, FmodType
  <2> QED
    BY <2>1, <2>2
<1> HIDE DEF m
<1>7. StreamOf(wire[m].sent, f.queue)
  BY <1>3, <1>6 DEF LinkInv, Stream
<1>8. wire' = [wire EXCEPT ![m] = wire[m]] /\ inputs' \in 0 .. MaxInputs
  BY <1>1, <1>2
<1> QED
  BY <1>3, <1>4, <1>6, <1>7, <1>8, ChangedLink
\* The frame on top of the stack
LEMMA TopFacts ==
  ASSUME IInv, Running
  PROVE  /\ stack # <<>> /\ Len(stack) \in Nat /\ Len(stack) >= 1 /\ 1 \in DOMAIN stack
         /\ stack \in Seq(Frames) /\ Top = stack[1] /\ Top \in Frames /\ Top \in Frame
         /\ Top.mod \in Pointers /\ (Top.mod # Nil => Top.mod \in Modules /\ Started(Top.mod))
         /\ Top.at \in {"pw", "flush", "sync"} => Top.mod \in Modules
<1>1. stack # <<>> /\ stack \in Seq(Frames)
  BY DEF Running, IInv, LoopTypes
<1>2. /\ Len(stack) \in Nat /\ Len(stack) >= 1 /\ 1 \in DOMAIN stack
      /\ Top = stack[1] /\ Top \in Frames
  BY <1>1, PopFacts DEF Top
<1>3. Top \in Frame /\ Top.mod \in Pointers
  BY <1>2 DEF Frames, Frame
<1>4. Top.mod # Nil => Top.mod \in Modules /\ Started(Top.mod)
  BY <1>2, <1>3 DEF Pointers, IInv, HoldersStarted
<1>5. Top.at \in {"pw", "flush", "sync"} => Top.mod \in Modules
  BY <1>2 DEF Frames
<1> QED
  BY <1>1, <1>2, <1>3, <1>4, <1>5

LEMMA ListedStarted ==
  ASSUME IInv, NEW m \in ToSet(module_list)
  PROVE  m \in Modules /\ Started(m)
BY DEF IInv, ListTypes, HoldersStarted, ToSet

LEMMA EachNextLinks ==
  ASSUME IInv, EachNext
  PROVE  LinkEffect
<1> DEFINE m == Top.itr
           next == Goto([Top EXCEPT !.itr = ItrNext(m)])
           then == IF m \in Top.out THEN <<Of("flush", m)>> \o next ELSE next
<1>1. /\ LinkInv /\ Running /\ Top.at = "each" /\ m \in ToSet(module_list)
      /\ IF m \in Top.in THEN PositiveWrite(m, Top.msg, then)
         ELSE stack' = then /\ UNCHANGED linkVars
  BY DEF IInv, LinkInv, EachNext, Runs
<1>2. m \in Modules /\ Started(m)
  BY <1>1, ListedStarted
<1>3. CASE m \in Top.in
  <2>1. Top.msg \in Message
    BY <1>1, <1>3, TopFacts DEF Frames
  <2>2. Top.msg # NoMsg
    BY <2>1, ModuleLinkAssumption DEF Message, NoMsg
  <2>3. BeingSent(Top.msg.id)
    BY <1>1, <2>2 DEF BeingSent
  <2> HIDE DEF then, m
  <2> QED
    BY <1>1, <1>2, <1>3, <2>1, <2>3, PositiveWriteLinks
<1>4. CASE m \notin Top.in
  BY <1>1, <1>4, UnchangedLinks
<1> QED
  BY <1>3, <1>4

LEMMA CmdReplyLinks ==
  ASSUME IInv, NEW type \in Types, NEW flushes \in BOOLEAN, CmdReply(type, flushes)
  PROVE  LinkEffect
<1> DEFINE msg == [id |-> packets', type |-> type]
           rest == IF flushes THEN Push(Of("flush", Top.mod)) ELSE stack
<1>1. /\ LinkInv /\ Running /\ Top.mod # Nil /\ packets < MaxPackets
      /\ packets' = packets + 1 /\ packets \in Nat
      /\ PositiveWrite(Top.mod, msg, rest)
  BY DEF IInv, LinkInv, LoopTypes, CmdReply, Runs
<1>2. Top.mod \in Modules /\ Started(Top.mod)
  BY <1>1, TopFacts
<1>3. msg \in Message
  BY <1>1, ModuleLinkAssumption DEF Message
<1>4. BeingSent(msg.id)
  BY <1>1 DEF BeingSent
<1> HIDE DEF msg, rest
<1> QED
  BY <1>1, <1>2, <1>3, <1>4, PositiveWriteLinks

LEMMA ProcessLinks ==
  ASSUME IInv, Processes
  PROVE  LinkEffect
<1>1. /\ LinkInv /\ wire \in [Modules -> WireType] /\ fmod \in [Modules -> FmodType]
      /\ inputs \in 0 .. MaxInputs
  BY DEF IInv, LinkInv, LinkTypes
<1>2. ASSUME NEW m \in Modules, wire[m].up
      PROVE  /\ Started(m) /\ wire[m] \in WireType
             /\ \A i \in DOMAIN wire[m].input : wire[m].input[i].mod = m
  BY <1>1, <1>2 DEF LinkInv, LinksStarted
<1>3. ASSUME NEW m \in Modules, ModuleReads(m) PROVE LinkEffect
  <2> DEFINE w == [wire[m] EXCEPT !.read = @ + 1]
  <2>1. wire[m].up /\ wire' = [wire EXCEPT ![m] = w] /\ fmod' = fmod /\ inputs' = inputs
    BY <1>1, <1>3 DEF ModuleReads
  <2>3. wire[m].read + 1 \in Nat
    BY <1>2, <2>1 DEF WireType
  <2>2. w \in WireType /\ w.sent = wire[m].sent /\ w.input = wire[m].input /\ w.started
    BY <1>2, <2>1, <2>3 DEF WireType, Started
  <2> HIDE DEF w
  <2> QED
    BY <1>1, <1>2, <2>1, <2>2, ChangedWire
<1>4. ASSUME NEW m \in Modules, ModuleExits(m) PROVE LinkEffect
  <2> DEFINE w == [wire[m] EXCEPT !.up = FALSE]
  <2>1. wire[m].up /\ wire' = [wire EXCEPT ![m] = w] /\ fmod' = fmod /\ inputs' = inputs
    BY <1>1, <1>4 DEF ModuleExits
  <2>2. w \in WireType /\ w.sent = wire[m].sent /\ w.input = wire[m].input /\ w.started
    BY <1>2, <2>1 DEF WireType, Started
  <2> HIDE DEF w
  <2> QED
    BY <1>1, <1>2, <2>1, <2>2, ChangedWire
<1>5. ASSUME NEW m \in Modules, NEW text \in Texts, NEW last \in BOOLEAN,
             ModuleSends(m, text, last)
      PROVE  LinkEffect
  <2> DEFINE e == [mod |-> m, num |-> inputs', text |-> text, last |-> last]
             q == Append(wire[m].input, e)
             w == [wire[m] EXCEPT !.input = q]
  <2>1. /\ wire[m].up /\ wire' = [wire EXCEPT ![m] = w] /\ fmod' = fmod
        /\ inputs < MaxInputs /\ inputs' = inputs + 1
    BY <1>1, <1>5 DEF ModuleSends
  <2>2. inputs' \in 1 .. MaxInputs /\ inputs' \in 0 .. MaxInputs
    BY <1>1, <2>1, ModuleLinkAssumption
  <2>3. e \in Input /\ e.mod = m
    BY <2>2 DEF Input
  <2>4. wire[m].input \in Seq(Input)
    BY <1>2, <2>1 DEF WireType
  <2>5. q \in Seq(Input) /\ \A i \in DOMAIN q : q[i].mod = m
    <3> HIDE DEF e
    <3> QED
      BY <1>2, <2>1, <2>3, <2>4
  <2> HIDE DEF q
  <2>6. w \in WireType /\ w.sent = wire[m].sent /\ w.input = q /\ w.started
    <3>1. PICK x : x = wire[m]
      OBVIOUS
    <3>2. x \in WireType /\ x.started /\ q \in Seq(Input) /\ w = [x EXCEPT !.input = q]
      BY <1>2, <2>1, <2>5, <3>1 DEF Started
    <3>3. w.sent = x.sent /\ w.input = q /\ w.started
      BY <3>2 DEF WireType
    <3>4. w \in WireType
      BY <3>2 DEF WireType
    <3> QED
      BY <3>1, <3>3, <3>4
  <2> HIDE DEF w
  <2> QED
    BY <1>1, <1>2, <2>1, <2>2, <2>5, <2>6, ChangedWire
<1> QED
  BY <1>3, <1>4, <1>5 DEF Processes

LEMMA LinkStep ==
  ASSUME IInv, Next
  PROVE  LinkEffect
<1>1. LinkInv /\ LoopTypes /\ HoldersStarted
  BY DEF IInv, LinkInv
<1>2. ASSUME Loops PROVE LinkEffect
  <2>1. CASE InputNext
    <3>1. Top.itr \in ToSet(module_list) /\ (Receive(Top.itr) \/ UNCHANGED linkVars)
      BY <2>1 DEF InputNext
    <3> QED
      BY <1>1, <3>1, ListedStarted, ReceiveLinks, UnchangedLinks
  <2>2. CASE ~InputNext
    <3>1. UNCHANGED linkVars
      BY <1>2, <2>2 DEF Loops, LoopEnds, LoopEvent, LoopReturn, LoopIdle, LoopSelect,
            LoopTerminated, LoopTimeout, InputEnd, ExecNext, ExecEnd, WaitDone
    <3> QED
      BY <1>1, <3>1, UnchangedLinks
  <2> QED
    BY <2>1, <2>2
<1>3. ASSUME Commands PROVE LinkEffect
  <2>1. ASSUME NEW m \in Modules, NEW listens \in BOOLEAN, NEW waits \in BOOLEAN,
               CmdModule(m, listens, waits)
        PROVE  LinkEffect
    BY <1>1, <2>1, CmdModuleLinks
  <2>2. ASSUME NEW type \in Types, NEW flushes \in BOOLEAN, CmdReply(type, flushes)
        PROVE  LinkEffect
    BY <2>2, CmdReplyLinks
  <2>3. ASSUME NEW which \in Masks, NEW half \in {Extended, Types \ Extended},
               NEW types \in SUBSET half, CmdSetMask(which, half, types)
        PROVE  LinkEffect
    BY <1>1, <2>3, ModuleLinkAssumption, CmdSetMaskLinks
  <2>4. CASE \/ \E S \in SUBSET Modules : CmdKillModule(S)
             \/ \E type \in Types : CmdBroadcast(type)
             \/ \E type \in Types \ Extended, S \in SUBSET Modules : CmdSendToModule(type, S)
             \/ CmdFlushAll \/ MyXGrabServer \/ MyXUngrabServer \/ CmdWait \/ CmdReturn
    <3>1. UNCHANGED linkVars
      BY <2>4 DEF CmdKillModule, CmdBroadcast, CmdSendToModule, CmdFlushAll,
                  MyXGrabServer, MyXUngrabServer, CmdWait, CmdReturn
    <3> QED
      BY <1>1, <3>1, UnchangedLinks
  <2> QED
    BY <1>3, <2>1, <2>2, <2>3, <2>4 DEF Commands
<1>4. ASSUME Calls PROVE LinkEffect
  <2>1. CASE EachNext
    BY <2>1, EachNextLinks
  <2>2. CASE FlushWrite
    BY <2>2, FlushWriteLinks
  <2>3. CASE AnswerOrInput
    <3>1. Running /\ Top.at \in {"pw", "sync"} /\ Receive(Top.mod)
      BY <2>3 DEF AnswerOrInput, Runs
    <3> QED
      BY <1>1, <3>1, TopFacts, ReceiveLinks
  <2>4. CASE EachEnd \/ FlushFails \/ FlushEnd \/ PwTimeout \/ SyncFlush \/ SyncGivesUp
             \/ AnswerTerminated
    <3>1. UNCHANGED linkVars
      BY <2>4 DEF EachEnd, FlushFails, FlushEnd, PwTimeout, SyncFlush, SyncGivesUp,
                  AnswerTerminated
    <3> QED
      BY <1>1, <3>1, UnchangedLinks
  <2> QED
    BY <1>4, <2>1, <2>2, <2>3, <2>4 DEF Calls
<1>5. ASSUME Dangling \/ Terminate PROVE LinkEffect
  <2>1. UNCHANGED linkVars
    BY <1>5 DEF Dangling, Terminate
  <2> QED
    BY <1>1, <2>1, UnchangedLinks
<1> QED
  BY <1>2, <1>3, <1>4, <1>5, ProcessLinks DEF Next
-----------------------------------------------------------------------------
(* What one step does to the stack: it stays or returns, or the frame on    *)
(* top goes on, calls, and asks a module.                                   *)

\* a loop that sends a packet
Sending(f) == f.at = "each" /\ f.msg # NoMsg

\* Such a loop begins with a new packet at the first module, or goes on.
BegunOrGoesOn(f) ==
  \/ f.msg.id = packets + 1 /\ f.itr = ItrInit
  \/ /\ Top.at = "each" /\ Top.itr \in ToSet(module_list)
     /\ f = [Top EXCEPT !.itr = ItrNext(Top.itr)]

NewFrame ==
  {f \in Frames :
     /\ f.msg.id <= packets'
     /\ Sending(f) => BegunOrGoesOn(f)
     /\ f.mod # Nil => Started(f.mod)'
     /\ f.mod \in freed => \E i \in DOMAIN cqueue : cqueue[i].mod = f.mod}

Resumed(s) ==
  \/ s = stack
  \/ \E f \in NewFrame :
       /\ s = Goto(f)
       /\ \/ Top.at \in LoopPoints /\ f.at \in LoopPoints
          \/ Top.at = "each" /\ f.at = "each" /\ f.msg = Top.msg

Called(s, t) ==
  \/ t = s
  \/ \E g \in NewFrame :
       /\ t = <<g>> \o s /\ g.at # "pw"
       /\ g.at = "each" => g.msg = NoMsg \/ g.msg.id = packets + 1
       /\ g.at \in LoopPoints => MaxWaits # 0
       /\ myxgrabcount # 0 => g.at \in {"each", "flush"}

Asked(t) ==
  \/ stack' = t
  \/ \E m \in Modules, msg \in Message :
       /\ stack' = <<Of("flush", m), Pw(m, msg)>> \o t
       /\ Of("flush", m) \in NewFrame /\ Pw(m, msg) \in NewFrame /\ myxgrabcount = 0

StackEffect ==
  \/ stack' = stack
  \/ stack # <<>> /\ stack' = Tail(stack) /\ (myxgrabcount # 0 => Top.at # "cmd")
  \/ /\ stack # <<>> /\ Top.at # "flush"
     /\ \E s, t : Resumed(s) /\ Called(s, t) /\ Asked(t)

LEMMA GrabbedTop ==
  ASSUME IInv, Running, myxgrabcount # 0
  PROVE  Top.at \in {"cmd", "each", "flush"}
<1>1. PICK k \in DOMAIN stack :
        stack[k].at = "cmd" /\ \A i \in 1 .. k - 1 : stack[i].at \in {"each", "flush"}
  BY DEF IInv, GrabbedByCommand
<1>2. Top = stack[1] /\ Len(stack) \in Nat /\ stack \in Seq(Frames)
  BY TopFacts
<1>3. k = 1 \/ 1 \in 1 .. k - 1
  BY <1>1, <1>2
<1> QED
  BY <1>1, <1>2, <1>3

LEMMA AtFacts ==
  ASSUME NEW p \in LoopPoints \cup {"cmd"}
  PROVE  At(p) \in Frames /\ At(p).mod = Nil /\ At(p).at = p /\ At(p).msg = NoMsg
BY DEF At, Frames, Frame, LoopPoints, Pointers, NoMsg

LEMMA OfFacts ==
  ASSUME NEW p \in {"cmd", "flush", "sync"}, NEW m \in Modules
  PROVE  Of(p, m) \in Frames /\ Of(p, m).mod = m /\ Of(p, m).at = p /\ Of(p, m).msg = NoMsg
BY DEF Of, At, Frames, Frame, LoopPoints, Pointers, NoMsg

LEMMA PwFacts ==
  ASSUME NEW m \in Modules, NEW msg \in Message
  PROVE  /\ Pw(m, msg) \in Frames /\ Pw(m, msg).mod = m /\ Pw(m, msg).at = "pw"
         /\ Pw(m, msg).msg = msg
BY DEF Pw, Of, At, Frames, Frame, LoopPoints, Pointers, NoMsg

LEMMA EachFacts ==
  ASSUME NEW itr \in Pointers, NEW msg \in Message \cup {NoMsg}, NEW S \in SUBSET Modules,
         NEW flushed \in SUBSET Modules, msg \in Message \/ S = {}
  PROVE  /\ Each(itr, msg, S, flushed) \in Frames /\ Each(itr, msg, S, flushed).mod = Nil
         /\ Each(itr, msg, S, flushed).at = "each" /\ Each(itr, msg, S, flushed).msg = msg
         /\ Each(itr, msg, S, flushed).itr = itr
BY DEF Each, At, Frames, Frame, LoopPoints, Pointers, NoMsg

LEMMA PacketsStep ==
  ASSUME IInv, Next
  PROVE  packets \in Nat /\ packets' \in 0 .. MaxPackets /\ packets' >= packets
<1>1. packets \in 0 .. MaxPackets /\ MaxPackets \in Nat
  BY ModuleLinkAssumption DEF IInv, LoopTypes
<1>2. ASSUME Loops \/ Calls \/ Dangling \/ Processes \/ Terminate
      PROVE  packets' = packets
  <2>1. CASE Loops
    BY <2>1 DEF Loops, LoopEnds, LoopEvent, LoopReturn, LoopIdle, LoopSelect, LoopTerminated,
                LoopTimeout, InputNext, InputEnd, ExecNext, ExecEnd, WaitDone
  <2>2. CASE Calls
    BY <2>2 DEF Calls, EachNext, EachEnd, FlushWrite, FlushFails, FlushEnd, AnswerOrInput,
                PwTimeout, SyncFlush, SyncGivesUp, AnswerTerminated
  <2>3. CASE Dangling \/ Processes \/ Terminate
    BY <2>3 DEF Dangling, Processes, Terminate, ModuleReads, ModuleSends, ModuleExits
  <2> QED
    BY <1>2, <2>1, <2>2, <2>3
<1>3. ASSUME Commands
      PROVE  packets' = packets \/ (packets < MaxPackets /\ packets' = packets + 1)
  <2>1. CASE \/ \E m \in Modules, listens, waits \in BOOLEAN : CmdModule(m, listens, waits)
             \/ \E S \in SUBSET Modules : CmdKillModule(S)
             \/ \E which \in Masks, half \in {Extended, Types \ Extended} :
                  \E types \in SUBSET half : CmdSetMask(which, half, types)
             \/ CmdFlushAll \/ MyXGrabServer \/ MyXUngrabServer \/ CmdWait \/ CmdReturn
    BY <2>1 DEF CmdModule, CmdKillModule, CmdSetMask, CmdFlushAll, MyXGrabServer,
                MyXUngrabServer, CmdWait, CmdReturn
  <2>2. CASE \/ \E type \in Types : CmdBroadcast(type)
             \/ \E type \in Types \ Extended, S \in SUBSET Modules : CmdSendToModule(type, S)
             \/ \E type \in Types, flushes \in BOOLEAN : CmdReply(type, flushes)
    BY <2>2 DEF CmdBroadcast, CmdSendToModule, CmdReply
  <2> QED
    BY <1>3, <2>1, <2>2 DEF Commands
<1>4. packets' = packets \/ (packets < MaxPackets /\ packets' = packets + 1)
  BY <1>2, <1>3 DEF Next
<1> QED
  BY <1>1, <1>4

\* A frame of no module and with no packet, or with an old one, is a new frame.
LEMMA NewFrameOfNobody ==
  ASSUME IInv, Next, NEW f \in Frames, f.mod = Nil, f.msg.id <= packets,
         Sending(f) => BegunOrGoesOn(f)
  PROVE  f \in NewFrame
<1>1. f.msg.id \in Nat
  BY ModuleLinkAssumption DEF Frames, Frame, Message, NoMsg
<1>2. f.msg.id <= packets'
  BY <1>1, PacketsStep, ModuleLinkAssumption
<1> QED
  BY <1>2, ModuleLinkAssumption DEF NewFrame, IInv, ListTypes

LEMMA NewAt ==
  ASSUME IInv, Next, NEW p \in LoopPoints \cup {"cmd"}
  PROVE  At(p) \in NewFrame
<1>1. At(p).msg.id <= packets
  BY AtFacts, PacketsStep DEF NoMsg
<1>2. ~Sending(At(p))
  BY AtFacts DEF Sending
<1> QED
  BY <1>1, <1>2, AtFacts, NewFrameOfNobody

LEMMA NewOf ==
  ASSUME IInv, Next, NEW p \in {"cmd", "flush", "sync"}, NEW m \in Modules, Started(m) \/ Started(m)',
         m \in freed => \E i \in DOMAIN cqueue : cqueue[i].mod = m
  PROVE  Of(p, m) \in NewFrame
<1>1. Of(p, m).msg.id <= packets'
  BY OfFacts, PacketsStep, ModuleLinkAssumption DEF NoMsg
<1>2. Started(m)'
  BY LinkStep DEF LinkEffect
<1>3. ~Sending(Of(p, m))
  BY OfFacts DEF Sending
<1> QED
  BY <1>1, <1>2, <1>3, OfFacts DEF NewFrame

LEMMA CallEffect ==
  ASSUME stack # <<>>, Top.at # "flush", NEW g \in NewFrame, stack' = <<g>> \o stack,
         g.at # "pw", g.at = "each" => g.msg = NoMsg \/ g.msg.id = packets + 1,
         g.at \in LoopPoints => MaxWaits # 0, myxgrabcount # 0 => g.at \in {"each", "flush"}
  PROVE  StackEffect
BY DEF StackEffect, Resumed, Called, Asked

LEMMA GoEffect ==
  ASSUME stack # <<>>, Top.at # "flush", NEW f \in NewFrame, stack' = Goto(f),
         \/ Top.at \in LoopPoints /\ f.at \in LoopPoints
         \/ Top.at = "each" /\ f.at = "each" /\ f.msg = Top.msg
  PROVE  StackEffect
BY DEF StackEffect, Resumed, Called, Asked

LEMMA GoAndCallEffect ==
  ASSUME stack # <<>>, Top.at # "flush", NEW f \in NewFrame, NEW g \in NewFrame,
         stack' = <<g>> \o Goto(f),
         \/ Top.at \in LoopPoints /\ f.at \in LoopPoints
         \/ Top.at = "each" /\ f.at = "each" /\ f.msg = Top.msg,
         g.at \in {"cmd", "flush"}, myxgrabcount # 0 => g.at = "flush"
  PROVE  StackEffect
BY DEF StackEffect, Resumed, Called, Asked, LoopPoints
LEMMA ItrFacts ==
  ASSUME ListTypes
  PROVE  /\ ItrInit \in Pointers
         /\ \A m \in ToSet(module_list) : ItrNext(m) \in Pointers
<1>1. module_list \in Seq(Modules)
  BY DEF ListTypes
<1>2. ItrInit \in Pointers
  <2>1. module_list # <<>> => module_list[1] \in Modules
    BY <1>1, PopFacts
  <2> QED
    BY <2>1 DEF ItrInit, Pointers
<1>3. ASSUME NEW m \in ToSet(module_list) PROVE ItrNext(m) \in Pointers
  <2> DEFINE i == CHOOSE i \in DOMAIN module_list : module_list[i] = m
  <2>1. i \in DOMAIN module_list
    BY DEF ToSet
  <2>2. i # Len(module_list) => module_list[i + 1] \in Modules
    <3> HIDE DEF i
    <3>1. DOMAIN module_list = 1 .. Len(module_list) /\ Len(module_list) \in Nat
      BY <1>1
    <3>2. i # Len(module_list) => i + 1 \in DOMAIN module_list
      BY <2>1, <3>1
    <3> QED
      BY <1>1, <3>1, <3>2
  <2> QED
    BY <2>2 DEF ItrNext, Pointers
<1> QED
  BY <1>2, <1>3

LEMMA LoopGoes ==
  ASSUME IInv, Next, Running, Top.at \in LoopPoints, NEW p \in LoopPoints,
         stack' \in {Goto(At(p)), <<At("cmd")>> \o Goto(At(p))}
  PROVE  StackEffect
<1>1. stack # <<>> /\ Top.at # "flush" /\ myxgrabcount = 0
  BY GrabbedTop DEF Running, LoopPoints
<1>2. At(p) \in NewFrame /\ At("cmd") \in NewFrame /\ At(p).at = p /\ At("cmd").at = "cmd"
  BY NewAt, AtFacts
<1>3. CASE stack' = Goto(At(p))
  BY <1>1, <1>2, <1>3, GoEffect
<1>4. CASE stack' = <<At("cmd")>> \o Goto(At(p))
  BY <1>1, <1>2, <1>4, GoAndCallEffect
<1> QED
  BY <1>3, <1>4

LEMMA LoopsStack ==
  ASSUME IInv, Next, Loops
  PROVE  StackEffect
<1>1. Running /\ Top.at \in LoopPoints
  BY DEF Loops, LoopEnds, LoopEvent, LoopReturn, LoopIdle, LoopSelect, LoopTerminated,
         LoopTimeout, InputNext, InputEnd, ExecNext, ExecEnd, WaitDone, Runs, LoopPoints
<1>2. /\ stack # <<>> /\ Top.at # "flush" /\ Top.at # "cmd" /\ Top.at # "each"
      /\ myxgrabcount = 0
  BY <1>1, GrabbedTop DEF Running, LoopPoints
<1>3. CASE LoopEnds \/ WaitDone
  BY <1>2, <1>3 DEF LoopEnds, WaitDone, StackEffect
<1>4. CASE \/ LoopEvent \/ LoopReturn \/ ExecEnd \/ LoopIdle \/ LoopTimeout \/ LoopTerminated
           \/ InputEnd
  <2>1. \E p \in LoopPoints : stack' \in {Goto(At(p)), <<At("cmd")>> \o Goto(At(p))}
    BY <1>4 DEF LoopEvent, LoopReturn, ExecEnd, LoopIdle, LoopTimeout, LoopTerminated, InputEnd,
                Returned, Dispatched, Startup, LoopPoints
  <2> QED
    BY <1>1, <2>1, LoopGoes
<1>5. CASE LoopSelect
  <2> DEFINE f == [At("input") EXCEPT !.itr = ItrInit, !.in = ReadyIn, !.out = ReadyOut]
  <2>1. stack' = Goto(f)
    BY <1>5 DEF LoopSelect
  <2>2. ItrInit \in Pointers /\ ReadyIn \in SUBSET Modules /\ ReadyOut \in SUBSET Modules
    BY ItrFacts, ListedStarted DEF ReadyIn, ReadyOut, IInv
  <2>3. f \in Frames /\ f.at = "input" /\ f.mod = Nil /\ f.msg = NoMsg
    BY <2>2 DEF At, Frames, Frame, Pointers, LoopPoints
  <2> HIDE DEF f
  <2>4. f \in NewFrame
    BY <2>3, NewFrameOfNobody, PacketsStep DEF NoMsg, Sending
  <2> QED
    BY <1>1, <1>2, <2>1, <2>3, <2>4, GoEffect DEF LoopPoints
<1>6. CASE InputNext
  <2> DEFINE m == Top.itr
             f == [Top EXCEPT !.itr = ItrNext(m)]
  <2>1. /\ stack' \in {Goto(f), <<Of("flush", m)>> \o Goto(f)} /\ m \in ToSet(module_list)
        /\ Top.at = "input"
    BY <1>6 DEF InputNext, Runs
  <2>2. m \in Modules /\ Started(m) /\ m \notin freed
    BY <2>1, ListedStarted DEF IInv, Owned
  <2>3. ItrNext(m) \in Pointers
    BY <2>1, ItrFacts DEF IInv
  <2>4. Top \in Frames /\ Top.mod = Nil /\ Top.msg.id <= packets
    BY <1>1, TopFacts DEF Frames, IInv, SentLater
  <2> HIDE DEF m
  <2>5. f \in Frames /\ f.at = "input" /\ f.mod = Nil /\ f.msg = Top.msg
    BY <2>1, <2>3, <2>4 DEF Frames, Frame, LoopPoints
  <2> HIDE DEF f
  <2>6. f \in NewFrame
    BY <2>4, <2>5, NewFrameOfNobody DEF Sending
  <2>7. Of("flush", m) \in NewFrame /\ Of("flush", m).at = "flush"
    BY <2>2, NewOf, OfFacts
  <2> QED
    BY <1>1, <1>2, <2>1, <2>5, <2>6, <2>7, GoEffect, GoAndCallEffect DEF LoopPoints
<1>7. CASE ExecNext
  <2>1. cqueue # <<>> /\ stack' = <<Of("cmd", Head(cqueue).mod)>> \o stack
    BY <1>7 DEF ExecNext, Execute
  <2>2. /\ Head(cqueue) = cqueue[1] /\ 1 \in DOMAIN cqueue /\ cqueue[1].mod \in Modules
        /\ Started(cqueue[1].mod)
    <3>1. cqueue \in Seq(Input)
      BY DEF IInv, LoopTypes
    <3>2. Head(cqueue) = cqueue[1] /\ 1 \in DOMAIN cqueue /\ cqueue[1] \in Input
      BY <2>1, <3>1
    <3> QED
      BY <3>2 DEF Input, IInv, HoldersStarted
  <2>3. Of("cmd", cqueue[1].mod) \in NewFrame /\ Of("cmd", cqueue[1].mod).at = "cmd"
    BY <2>2, NewOf, OfFacts
  <2> QED
    BY <1>2, <2>1, <2>2, <2>3, CallEffect DEF LoopPoints
<1> QED
  BY <1>3, <1>4, <1>5, <1>6, <1>7 DEF Loops
LEMMA WaitsBound ==
  ASSUME IInv, Running, MaxWaits = 0
  PROVE  Waits \in Nat
<1> DEFINE points == {i \in DOMAIN stack : stack[i].at \in LoopPoints}
<1>1. stack # <<>> /\ stack \in Seq(Frames) /\ Len(stack) \in Nat /\ Len(stack) >= 1
  BY TopFacts
<1>2. Len(stack) \in points
  <2>1. stack[Len(stack)].at \in LoopPoints
    BY <1>1 DEF IInv, OneLoop
  <2> QED
    BY <1>1, <2>1
<1>3. IsFiniteSet(points)
  <2>1. points \in SUBSET (1 .. Len(stack))
    BY <1>1
  <2> QED
    BY <1>1, <2>1, PositionsFinite
<1> HIDE DEF points
<1>4. Cardinality(points) \in Nat /\ Cardinality(points) # 0
  BY <1>2, <1>3, FS_CardinalityType, FS_EmptySet
<1>5. Waits = Cardinality(points) - 1
  BY DEF Waits, points
<1> QED
  BY <1>4, <1>5

LEMMA SendsEffect ==
  ASSUME IInv, Next, Runs({"cmd"}), NEW S \in SUBSET Modules, NEW flushed \in SUBSET Modules,
         NEW msg \in Message \cup {NoMsg}, stack' = Push(Each(ItrInit, msg, S, flushed)),
         \/ msg = NoMsg /\ S = {}
         \/ msg \in Message /\ packets' = packets + 1 /\ msg.id = packets'
  PROVE  StackEffect
<1>1. stack # <<>> /\ Top.at = "cmd"
  BY DEF Runs, Running
<1>2. ItrInit \in Pointers
  BY ItrFacts DEF IInv
<1> DEFINE f == Each(ItrInit, msg, S, flushed)
<1>3. f \in Frames /\ f.mod = Nil /\ f.at = "each" /\ f.msg = msg /\ f.itr = ItrInit
  BY <1>2, EachFacts
<1>4. stack' = <<f>> \o stack
  BY DEF Push
<1> HIDE DEF f
<1>5. f.msg = NoMsg \/ f.msg.id = packets + 1
  BY <1>3
<1>6. f.msg.id <= packets'
  BY <1>3, PacketsStep DEF NoMsg
<1>7. Sending(f) => BegunOrGoesOn(f)
  BY <1>3, <1>5 DEF Sending, BegunOrGoesOn
<1>8. f \in NewFrame
  BY <1>3, <1>6, <1>7, ModuleLinkAssumption DEF NewFrame, IInv, ListTypes
<1> QED
  BY <1>1, <1>3, <1>4, <1>5, <1>8, CallEffect DEF LoopPoints

LEMMA AskEffect ==
  ASSUME IInv, Next, Running, Top.at \in {"cmd", "each"}, NEW s, NEW t, Resumed(s), Called(s, t),
         NEW m \in Modules, NEW msg \in Message, Started(m), m \notin freed, msg.id <= packets',
         PositiveWrite(m, msg, t)
  PROVE  StackEffect
<1>1. stack # <<>> /\ Top.at # "flush"
  BY DEF Running
<1>2. Of("flush", m) \in NewFrame
  BY NewOf
<1>3. Pw(m, msg) \in NewFrame
  BY PwFacts, LinkStep DEF NewFrame, LinkEffect, Sending
<1>4. \/ stack' = t
      \/ stack' = <<Of("flush", m), Pw(m, msg)>> \o t /\ myxgrabcount = 0
  BY DEF PositiveWrite, Locks
<1>5. Asked(t)
  BY <1>2, <1>3, <1>4 DEF Asked
<1> QED
  BY <1>1, <1>5 DEF StackEffect

LEMMA CommandsStack ==
  ASSUME IInv, Next, Commands
  PROVE  StackEffect
<1>1. Runs({"cmd"}) /\ Running /\ Top.at = "cmd" /\ stack # <<>>
  BY DEF Commands, CmdModule, CmdKillModule, CmdBroadcast, CmdSendToModule, CmdReply,
         CmdSetMask, CmdFlushAll, MyXGrabServer, MyXUngrabServer, CmdWait, CmdReturn, Runs, Running
<1>2. ASSUME NEW m \in Modules, NEW listens \in BOOLEAN, NEW waits \in BOOLEAN,
             CmdModule(m, listens, waits)
      PROVE  StackEffect
  <2>1. /\ stack' \in {stack, <<Of("sync", m)>> \o stack} /\ ~Started(m) /\ myxgrabcount = 0
        /\ wire' = [wire EXCEPT ![m] = On]
    BY <1>2 DEF CmdModule, Push, Started
  <2>2. m \notin freed
    BY <2>1 DEF IInv, HoldersStarted
  <2>3. Started(m)'
    BY <2>1 DEF Started, On, IInv, LinkTypes
  <2>4. Of("sync", m) \in NewFrame /\ Of("sync", m).at = "sync"
    BY <2>2, <2>3, NewOf, OfFacts
  <2>5. CASE stack' = stack
    BY <2>5 DEF StackEffect
  <2>6. CASE stack' = <<Of("sync", m)>> \o stack
    BY <1>1, <2>1, <2>4, <2>6, CallEffect DEF LoopPoints
  <2> QED
    BY <2>1, <2>5, <2>6
<1>3. ASSUME NEW type \in Types, CmdBroadcast(type) PROVE StackEffect
  <2> DEFINE msg == [id |-> packets', type |-> type]
  <2>1. /\ packets < MaxPackets /\ packets' = packets + 1
        /\ stack' = Push(Each(ItrInit, msg, Modules, {}))
    BY <1>3 DEF CmdBroadcast
  <2>2. msg \in Message /\ msg.id = packets'
    BY <2>1, PacketsStep DEF Message
  <2> HIDE DEF msg
  <2> QED
    BY <1>1, <2>1, <2>2, SendsEffect
<1>4. ASSUME NEW type \in Types, NEW S \in SUBSET Modules, CmdSendToModule(type, S)
      PROVE  StackEffect
  <2> DEFINE msg == [id |-> packets', type |-> type]
  <2>1. /\ packets < MaxPackets /\ packets' = packets + 1
        /\ stack' = Push(Each(ItrInit, msg, S, S))
    BY <1>4 DEF CmdSendToModule
  <2>2. msg \in Message /\ msg.id = packets'
    BY <2>1, PacketsStep DEF Message
  <2> HIDE DEF msg
  <2> QED
    BY <1>1, <2>1, <2>2, SendsEffect
<1>5. CASE CmdFlushAll
  BY <1>1, <1>5, SendsEffect DEF CmdFlushAll
<1>6. ASSUME NEW type \in Types, NEW flushes \in BOOLEAN, CmdReply(type, flushes)
      PROVE  StackEffect
  <2> DEFINE msg == [id |-> packets', type |-> type]
             m == Top.mod
             t == IF flushes THEN Push(Of("flush", m)) ELSE stack
  <2>1. /\ packets < MaxPackets /\ packets' = packets + 1 /\ m # Nil /\ m \notin freed
        /\ PositiveWrite(m, msg, t) /\ myxgrabcount = 0
    BY <1>6 DEF CmdReply
  <2>2. msg \in Message /\ msg.id <= packets'
    BY <2>1, PacketsStep DEF Message
  <2>3. m \in Modules /\ Started(m)
    BY <1>1, <2>1, TopFacts
  <2> HIDE DEF msg, m
  <2>4. Of("flush", m) \in NewFrame /\ Of("flush", m).at = "flush"
    BY <2>1, <2>3, NewOf, OfFacts
  <2>5. Resumed(stack) /\ Called(stack, t)
    BY <2>1, <2>4 DEF Resumed, Called, Push, LoopPoints
  <2> HIDE DEF t
  <2> QED
    BY <1>1, <2>1, <2>2, <2>3, <2>5, AskEffect
<1>7. CASE CmdWait
  <2>1. stack' = <<At("begin")>> \o stack /\ myxgrabcount = 0 /\ Waits < MaxWaits
    BY <1>7 DEF CmdWait, Push
  <2>2. MaxWaits # 0
    <3> SUFFICES ASSUME MaxWaits = 0 PROVE FALSE
      OBVIOUS
    <3>1. Waits \in Nat
      BY <1>1, WaitsBound
    <3> QED
      BY <2>1, <3>1
  <2>3. At("begin") \in NewFrame /\ At("begin").at = "begin"
    BY NewAt, AtFacts DEF LoopPoints
  <2> QED
    BY <1>1, <2>1, <2>2, <2>3, CallEffect
<1>8. CASE CmdReturn
  BY <1>1, <1>8 DEF CmdReturn, StackEffect
<1>9. CASE \/ \E S \in SUBSET Modules : CmdKillModule(S)
           \/ \E which \in Masks, half \in {Extended, Types \ Extended} :
                \E types \in SUBSET half : CmdSetMask(which, half, types)
           \/ MyXGrabServer \/ MyXUngrabServer
  BY <1>9 DEF CmdKillModule, CmdSetMask, MyXGrabServer, MyXUngrabServer, StackEffect
<1> QED
  BY <1>2, <1>3, <1>4, <1>5, <1>6, <1>7, <1>8, <1>9 DEF Commands
LEMMA EachNextStack ==
  ASSUME IInv, Next, EachNext
  PROVE  StackEffect
<1> DEFINE m == Top.itr
           f == [Top EXCEPT !.itr = ItrNext(m)]
           t == IF m \in Top.out THEN <<Of("flush", m)>> \o Goto(f) ELSE Goto(f)
<1>1. /\ Running /\ Top.at = "each" /\ m \in ToSet(module_list)
      /\ IF m \in Top.in THEN PositiveWrite(m, Top.msg, t) ELSE stack' = t
  BY DEF EachNext, Runs
<1>2. m \in Modules /\ Started(m) /\ m \notin freed
  BY <1>1, ListedStarted DEF IInv, Owned
<1>3. ItrNext(m) \in Pointers
  BY <1>1, ItrFacts DEF IInv
<1>4. stack # <<>> /\ Top \in Frames /\ Top.msg.id <= packets
  BY <1>1, TopFacts DEF IInv, SentLater
<1>5. m \in Top.in => Top.msg \in Message
  BY <1>1, <1>4 DEF Frames
<1>13. BegunOrGoesOn(f)
  BY <1>1 DEF BegunOrGoesOn
<1> HIDE DEF m
<1>6. f \in Frames /\ f.at = "each" /\ f.mod = Top.mod /\ f.msg = Top.msg
  BY <1>1, <1>3, <1>4 DEF Frames, Frame, LoopPoints
<1> HIDE DEF f
<1>7. Top.mod = Nil
  BY <1>1, <1>4 DEF Frames
<1>8. f \in NewFrame
  BY <1>4, <1>6, <1>7, <1>13, NewFrameOfNobody
<1>9. Of("flush", m) \in NewFrame /\ Of("flush", m).at = "flush"
  BY <1>2, NewOf, OfFacts
<1>10. Resumed(Goto(f)) /\ Called(Goto(f), t)
  BY <1>1, <1>6, <1>8, <1>9 DEF Resumed, Called, LoopPoints
<1>11. CASE m \in Top.in
  <2>1. Top.msg.id <= packets'
    BY <1>6, <1>8 DEF NewFrame
  <2> HIDE DEF t
  <2> QED
    BY <1>1, <1>2, <1>5, <1>10, <1>11, <2>1, AskEffect
<1>12. CASE m \notin Top.in
  <2> HIDE DEF t
  <2> QED
    BY <1>1, <1>4, <1>10, <1>12 DEF StackEffect, Asked
<1> QED
  BY <1>11, <1>12

LEMMA CallsStack ==
  ASSUME IInv, Next, Calls
  PROVE  StackEffect
<1>1. CASE EachNext
  BY <1>1, EachNextStack
<1>2. CASE FlushWrite
  BY <1>2 DEF FlushWrite, StackEffect
<1>3. CASE EachEnd \/ FlushFails \/ FlushEnd \/ PwTimeout \/ SyncGivesUp \/ AnswerTerminated
  BY <1>3 DEF EachEnd, FlushFails, FlushEnd, PwTimeout, SyncGivesUp, AnswerTerminated,
              StackEffect, Runs, Running
<1>4. CASE AnswerOrInput
  <2> DEFINE m == Top.mod
  <2>1. /\ Running /\ Top.at \in {"pw", "sync"} /\ m \notin freed /\ Receive(m)
        /\ IF Received(m) = Nil \/ Received(m).text = Awaited
           THEN stack' = Tail(stack) ELSE stack' = <<Of("cmd", Received(m).mod)>> \o stack
    BY <1>4 DEF AnswerOrInput, Runs, Execute
  <2>2. m \in Modules /\ stack # <<>> /\ myxgrabcount = 0
    BY <2>1, TopFacts, GrabbedTop
  <2> HIDE DEF m
  <2>3. Received(m) # Nil => Received(m).mod = m /\ Started(m)
    BY <2>1, <2>2, ReceiveLinks DEF IInv, LinkInv
  <2>4. CASE stack' = Tail(stack)
    BY <2>1, <2>2, <2>4 DEF StackEffect
  <2>5. CASE stack' # Tail(stack)
    <3>1. stack' = <<Of("cmd", m)>> \o stack /\ Started(m)
      BY <2>1, <2>3, <2>5
    <3>2. Of("cmd", m) \in NewFrame /\ Of("cmd", m).at = "cmd"
      BY <2>1, <2>2, <3>1, NewOf, OfFacts
    <3> QED
      BY <2>1, <2>2, <3>1, <3>2, CallEffect DEF LoopPoints
  <2> QED
    BY <2>4, <2>5
<1>5. CASE SyncFlush
  <2>1. Running /\ Top.at = "sync" /\ Top.mod \notin freed /\ stack' = <<Of("flush", Top.mod)>> \o stack
    BY <1>5 DEF SyncFlush, Runs, Push
  <2>2. Top.mod \in Modules /\ stack # <<>> /\ Started(Top.mod)
    BY <2>1, TopFacts, ModuleLinkAssumption
  <2>3. Of("flush", Top.mod) \in NewFrame /\ Of("flush", Top.mod).at = "flush"
    BY <2>1, <2>2, NewOf, OfFacts
  <2> QED
    BY <2>1, <2>2, <2>3, CallEffect DEF LoopPoints
<1> QED
  BY <1>1, <1>2, <1>3, <1>4, <1>5 DEF Calls

LEMMA StackStep ==
  ASSUME IInv, Next
  PROVE  StackEffect
<1>1. CASE Dangling \/ Processes \/ Terminate
  BY <1>1 DEF Dangling, Processes, Terminate, ModuleReads, ModuleSends, ModuleExits, StackEffect
<1> QED
  BY <1>1, LoopsStack, CommandsStack, CallsStack DEF Next
-----------------------------------------------------------------------------
(* What the effects of a step keep *)

LEMMA Retyped ==
  ASSUME NEW S, NEW T, NEW s \in Seq(S), \A i \in DOMAIN s : s[i] \in T
  PROVE  s \in Seq(T)
<1>1. Len(s) \in Nat /\ s \in [1 .. Len(s) -> T]
  OBVIOUS
<1> QED
  BY <1>1, RowFacts

LEMMA CalledIn ==
  ASSUME NEW F, stack \in Seq(F), stack # <<>>, NEW s, NEW t, Resumed(s), Called(s, t),
         \A f \in NewFrame : f.at # "pw" => f \in F
  PROVE  s \in Seq(F) /\ t \in Seq(F)
<1>1. Tail(stack) \in Seq(F)
  BY PopFacts
<1>2. s \in Seq(F)
  <2>1. CASE s = stack
    BY <2>1
  <2>2. CASE s # stack
    <3>1. PICK f \in NewFrame : s = <<f>> \o Tail(stack) /\ f.at # "pw"
      BY <2>2 DEF Resumed, Goto, LoopPoints
    <3> QED
      BY <1>1, <3>1, PushFacts
  <2> QED
    BY <2>1, <2>2
<1>3. t \in Seq(F)
  <2>1. CASE t = s
    BY <1>2, <2>1
  <2>2. CASE t # s
    <3>1. PICK g \in NewFrame : t = <<g>> \o s /\ g.at # "pw"
      BY <2>2 DEF Called
    <3> QED
      BY <1>2, <3>1, PushFacts
  <2> QED
    BY <2>1, <2>2
<1> QED
  BY <1>2, <1>3

LEMMA EffectIn ==
  ASSUME NEW F, stack \in Seq(F), StackEffect, NewFrame \subseteq F
  PROVE  stack' \in Seq(F)
<1>1. CASE stack' = stack
  BY <1>1
<1>2. CASE stack # <<>> /\ stack' = Tail(stack)
  BY <1>2, PopFacts
<1>3. ASSUME stack # <<>>, NEW s, NEW t, Resumed(s), Called(s, t), Asked(t)
      PROVE  stack' \in Seq(F)
  <2>1. t \in Seq(F)
    BY <1>3, CalledIn
  <2>2. CASE stack' = t
    BY <2>1, <2>2
  <2>3. CASE stack' # t
    <3>1. PICK f \in F, g \in F : stack' = <<f, g>> \o t
      BY <1>3, <2>3 DEF Asked
    <3> QED
      BY <2>1, <3>1, PushTwo, PushFacts
  <2> QED
    BY <2>2, <2>3
<1> QED
  BY <1>1, <1>2, <1>3 DEF StackEffect

\* Frames that are fit for the state after the step
Fit ==
  {f \in Frames : f.msg.id <= packets' /\ (f.mod # Nil => Started(f.mod)')}

LEMMA FramesStep ==
  ASSUME IInv, Next
  PROVE  stack' \in Seq(Fit)
<1>1. stack \in Seq(Frames)
  BY DEF IInv, LoopTypes
<1>2. ASSUME NEW i \in DOMAIN stack PROVE stack[i] \in Fit
  <2>1. stack[i] \in Frames /\ stack[i].msg.id <= packets
    BY <1>1 DEF IInv, SentLater
  <2>2. stack[i].mod # Nil => wire'[stack[i].mod].started
    <3>1. PICK m : m = stack[i].mod
      OBVIOUS
    <3>2. m # Nil => m \in Modules /\ Started(m)
      BY <2>1, <3>1 DEF IInv, HoldersStarted, Frames, Frame, Pointers
    <3>3. m # Nil => Started(m)'
      BY <3>2, LinkStep DEF LinkEffect
    <3> QED
      BY <3>1, <3>3 DEF Started
  <2>3. stack[i].msg.id <= packets'
    <3>1. stack[i].msg.id \in Nat
      BY <2>1, ModuleLinkAssumption DEF Frames, Frame, Message, NoMsg
    <3> QED
      BY <2>1, <3>1, PacketsStep
  <2> QED
    BY <2>1, <2>2, <2>3 DEF Fit, Started
<1>3. stack \in Seq(Fit)
  <2>1. \A i \in DOMAIN stack : stack[i] \in Fit
    BY <1>2
  <2> QED
    BY <1>1, <2>1, Retyped
<1> QED
  BY <1>3, StackStep, EffectIn DEF NewFrame, Fit

(* Packets that loops are sending are younger than those that are sent or   *)
(* waited for below them.                                                   *)
Later(s) ==
  \A i, j \in DOMAIN s :
    i < j /\ s[i].at = "each" /\ s[j].at \in {"each", "pw"} /\ s[i].msg # NoMsg
      => s[i].msg.id > s[j].msg.id

Younger(f, s) ==
  f.at = "each" /\ f.msg # NoMsg =>
    \A j \in DOMAIN s : s[j].at \in {"each", "pw"} => f.msg.id > s[j].msg.id

LEMMA LaterPush ==
  ASSUME NEW s \in Seq(Frames), NEW f \in Frames, Later(s), Younger(f, s)
  PROVE  Later(<<f>> \o s)
<1> DEFINE t == <<f>> \o s
<1>1. /\ DOMAIN t = 1 .. Len(s) + 1 /\ t[1] = f /\ Len(s) \in Nat
      /\ \A i \in 2 .. Len(s) + 1 : i - 1 \in DOMAIN s /\ t[i] = s[i - 1]
  BY PushFacts
<1> HIDE DEF t
<1>2. ASSUME NEW i \in DOMAIN t, NEW j \in DOMAIN t, i < j, t[i].at = "each", t[j].at \in {"each", "pw"},
             t[i].msg # NoMsg
      PROVE  t[i].msg.id > t[j].msg.id
  <2>1. j \in 2 .. Len(s) + 1 /\ j - 1 \in DOMAIN s /\ t[j] = s[j - 1]
    BY <1>1, <1>2
  <2>2. CASE i = 1
    BY <1>1, <1>2, <2>1, <2>2 DEF Younger
  <2>3. CASE i # 1
    <3>1. i \in 2 .. Len(s) + 1 /\ i - 1 < j - 1
      BY <1>1, <1>2, <2>3
    <3>2. i - 1 \in DOMAIN s /\ t[i] = s[i - 1]
      BY <1>1, <3>1
    <3> QED
      BY <1>2, <2>1, <3>1, <3>2 DEF Later
  <2> QED
    BY <2>2, <2>3
<1>3. Later(t)
  BY <1>2 DEF Later
<1> QED
  BY <1>3 DEF t

LEMMA LaterPop ==
  ASSUME NEW s \in Seq(Frames), s # <<>>, Later(s)
  PROVE  Later(Tail(s)) /\ Younger(s[1], Tail(s))
<1>1. /\ DOMAIN Tail(s) = 1 .. Len(s) - 1 /\ Len(s) \in Nat /\ 1 \in DOMAIN s
      /\ \A i \in DOMAIN Tail(s) : Tail(s)[i] = s[i + 1] /\ i + 1 \in DOMAIN s /\ i \in Nat /\ i >= 1
  BY PopFacts
<1>2. Later(Tail(s))
  <2>1. ASSUME NEW i \in DOMAIN Tail(s), NEW j \in DOMAIN Tail(s), i < j,
               Tail(s)[i].at = "each", Tail(s)[j].at \in {"each", "pw"},
               Tail(s)[i].msg # NoMsg
        PROVE  Tail(s)[i].msg.id > Tail(s)[j].msg.id
    <3>1. i + 1 < j + 1
      BY <1>1, <2>1
    <3> QED
      BY <1>1, <2>1, <3>1 DEF Later
  <2> QED
    BY <2>1 DEF Later
<1>3. Younger(s[1], Tail(s))
  <2>1. ASSUME NEW j \in DOMAIN Tail(s), s[1].at = "each", s[1].msg # NoMsg,
               Tail(s)[j].at \in {"each", "pw"}
        PROVE  s[1].msg.id > Tail(s)[j].msg.id
    <3>1. 1 < j + 1
      BY <1>1
    <3> QED
      BY <1>1, <2>1, <3>1 DEF Later
  <2> QED
    BY <2>1 DEF Younger
<1> QED
  BY <1>2, <1>3

LEMMA LaterStep ==
  ASSUME IInv, Next
  PROVE  Later(stack')
<1>1. stack \in Seq(Frames) /\ Later(stack) /\ \A i \in DOMAIN stack : stack[i].msg.id <= packets
  BY DEF IInv, LoopTypes, SentLater, Later
<1>2. CASE stack' = stack
  BY <1>1, <1>2
<1>3. CASE stack # <<>> /\ stack' = Tail(stack)
  BY <1>1, <1>3, LaterPop
<1>4. ASSUME stack # <<>>, NEW s, NEW t, Resumed(s), Called(s, t), Asked(t)
      PROVE  Later(stack')
  <2>1. s \in Seq(Frames) /\ t \in Seq(Frames)
    BY <1>1, <1>4, CalledIn DEF NewFrame
  <2>2. Later(s)
    <3>1. CASE s = stack
      BY <1>1, <3>1
    <3>2. CASE s # stack
      <4>1. PICK f \in NewFrame :
              /\ s = <<f>> \o Tail(stack)
              /\ f.at = "each" => Top.at = "each" /\ f.msg = Top.msg
        BY <3>2, <1>4 DEF Resumed, Goto, LoopPoints
      <4>2. Later(Tail(stack)) /\ Younger(Top, Tail(stack)) /\ Tail(stack) \in Seq(Frames)
        BY <1>1, <1>4, LaterPop, PopFacts DEF Top
      <4>3. Younger(f, Tail(stack)) /\ f \in Frames
        BY <4>1, <4>2 DEF Younger, NewFrame
      <4> QED
        BY <4>1, <4>2, <4>3, LaterPush
    <3> QED
      BY <3>1, <3>2
  <2>3. Later(t)
    <3>1. CASE t = s
      BY <2>2, <3>1
    <3>2. CASE t # s
      <4>1. PICK g \in NewFrame :
              t = <<g>> \o s /\ (g.at = "each" => g.msg = NoMsg \/ g.msg.id = packets + 1)
        BY <1>4, <3>2 DEF Called
      <4>2. \A j \in DOMAIN s : s[j].at \in {"each", "pw"} => s[j].msg.id < packets + 1
        <5> DEFINE Old == {f \in Frames : f.at \in {"each", "pw"} => f.msg.id <= packets}
        <5>1. stack \in Seq(Old)
          <6>1. \A i \in DOMAIN stack : stack[i] \in Old
            BY <1>1
          <6> HIDE DEF Old
          <6> QED
            BY <1>1, <6>1, Retyped
        <5>2. s \in Seq(Old)
          <6>1. CASE s = stack
            BY <5>1, <6>1
          <6>2. CASE s # stack
            <7>1. PICK f \in NewFrame :
                    /\ s = <<f>> \o Tail(stack)
                    /\ \/ f.at \in LoopPoints
                       \/ Top.at = "each" /\ f.at = "each" /\ f.msg = Top.msg
              BY <6>2, <1>4 DEF Resumed, Goto
            <7>2. Top \in Old /\ Tail(stack) \in Seq(Old)
              <8> HIDE DEF Old
              <8> QED
                BY <5>1, <1>4, PopFacts DEF Top
            <7>3. f \in Old
              BY <7>1, <7>2 DEF NewFrame, LoopPoints
            <7> HIDE DEF Old
            <7> QED
              BY <7>1, <7>2, <7>3, PushFacts
          <6> QED
            BY <6>1, <6>2
        <5>3. ASSUME NEW j \in DOMAIN s, s[j].at \in {"each", "pw"} PROVE s[j].msg.id < packets + 1
          <6>1. s[j] \in Frames /\ s[j].msg.id <= packets
            BY <5>2, <5>3
          <6>2. s[j].msg.id \in Nat /\ packets \in Nat
            BY <6>1, PacketsStep, ModuleLinkAssumption DEF Frames, Frame, Message, NoMsg
          <6> QED
            BY <6>1, <6>2
        <5> QED
          BY <5>3
      <4>3. Younger(g, s) /\ g \in Frames
        <5>1. ASSUME NEW j \in DOMAIN s, s[j].at \in {"each", "pw"}, g.msg.id = packets + 1
              PROVE  g.msg.id > s[j].msg.id
          BY <2>1, <4>2, <5>1
        <5> QED
          BY <4>1, <5>1 DEF Younger, NewFrame
      <4> QED
        BY <2>1, <2>2, <4>1, <4>3, LaterPush
    <3> QED
      BY <3>1, <3>2
  <2>4. CASE stack' = t
    BY <2>3, <2>4
  <2>5. CASE stack' # t
    <3>1. PICK f \in Frames, g \in Frames :
            stack' = <<f, g>> \o t /\ f.at # "each" /\ g.at # "each"
      <4>1. PICK m \in Modules, msg \in Message :
              stack' = <<Of("flush", m), Pw(m, msg)>> \o t
        BY <1>4, <2>5 DEF Asked
      <4>2. Of("flush", m) \in Frames /\ Of("flush", m).at = "flush"
        BY OfFacts
      <4>3. Pw(m, msg) \in Frames /\ Pw(m, msg).at = "pw"
        BY PwFacts
      <4> QED
        BY <4>1, <4>2, <4>3
    <3>2. <<g>> \o t \in Seq(Frames) /\ Later(<<g>> \o t)
      BY <2>1, <2>3, <3>1, LaterPush, PushFacts DEF Younger
    <3>3. Later(<<f>> \o (<<g>> \o t))
      BY <3>1, <3>2, LaterPush DEF Younger
    <3> QED
      BY <2>1, <3>1, <3>3, PushTwo
  <2> QED
    BY <2>4, <2>5
<1> QED
  BY <1>2, <1>3, <1>4, StackStep DEF StackEffect
\* Some command is running, and only sends packets.
Commanded(s) ==
  \E k \in DOMAIN s : s[k].at = "cmd" /\ \A i \in 1 .. k - 1 : s[i].at \in {"each", "flush"}

LEMMA CommandedPush ==
  ASSUME NEW s \in Seq(Frames), NEW f \in Frames, Commanded(s), f.at \in {"each", "flush"}
  PROVE  Commanded(<<f>> \o s)
<1> DEFINE t == <<f>> \o s
<1>1. /\ DOMAIN t = 1 .. Len(s) + 1 /\ t[1] = f /\ Len(s) \in Nat /\ DOMAIN s = 1 .. Len(s)
      /\ \A i \in DOMAIN s : t[i + 1] = s[i]
      /\ \A i \in 2 .. Len(s) + 1 : i - 1 \in DOMAIN s /\ t[i] = s[i - 1]
  BY PushFacts
<1> HIDE DEF t
<1>2. PICK k \in DOMAIN s : s[k].at = "cmd" /\ \A i \in 1 .. k - 1 : s[i].at \in {"each", "flush"}
  BY DEF Commanded
<1>3. k + 1 \in DOMAIN t /\ t[k + 1].at = "cmd"
  BY <1>1, <1>2
<1>4. ASSUME NEW i \in 1 .. (k + 1) - 1 PROVE t[i].at \in {"each", "flush"}
  <2>1. CASE i = 1
    BY <1>1, <2>1
  <2>2. CASE i # 1
    <3>1. i \in 2 .. Len(s) + 1 /\ i - 1 \in 1 .. k - 1
      BY <1>1, <1>2, <2>2
    <3> QED
      BY <1>1, <1>2, <3>1
  <2> QED
    BY <2>1, <2>2
<1>5. Commanded(t)
  BY <1>3, <1>4 DEF Commanded
<1> QED
  BY <1>5 DEF t

LEMMA CommandedPop ==
  ASSUME NEW s \in Seq(Frames), s # <<>>, Commanded(s), s[1].at # "cmd"
  PROVE  Commanded(Tail(s))
<1>1. /\ DOMAIN Tail(s) = 1 .. Len(s) - 1 /\ Len(s) \in Nat /\ DOMAIN s = 1 .. Len(s)
      /\ \A i \in DOMAIN Tail(s) : Tail(s)[i] = s[i + 1]
  BY PopFacts
<1>2. PICK k \in DOMAIN s : s[k].at = "cmd" /\ \A i \in 1 .. k - 1 : s[i].at \in {"each", "flush"}
  BY DEF Commanded
<1>3. k # 1
  BY <1>2
<1>4. k - 1 \in DOMAIN Tail(s) /\ Tail(s)[k - 1] = s[(k - 1) + 1] /\ (k - 1) + 1 = k
  BY <1>1, <1>2, <1>3
<1>5. ASSUME NEW i \in 1 .. (k - 1) - 1 PROVE Tail(s)[i].at \in {"each", "flush"}
  <2>1. i \in DOMAIN Tail(s) /\ i + 1 \in 1 .. k - 1
    BY <1>1, <1>2, <1>3
  <2> QED
    BY <1>1, <1>2, <2>1
<1> QED
  BY <1>2, <1>4, <1>5 DEF Commanded

LEMMA ModesStep ==
  ASSUME IInv, Next
  PROVE  /\ ModeTypes'
         /\ isTerminated => isTerminated'
         /\ \/ myxgrabcount' = myxgrabcount
            \/ stack # <<>> /\ Top.at = "cmd" /\ stack' = stack
<1>1. ModeTypes /\ MaxGrabs \in Nat
  BY ModuleLinkAssumption DEF IInv
<1>2. CASE Loops
  BY <1>1, <1>2 DEF Loops, LoopEnds, LoopEvent, LoopReturn, LoopIdle, LoopSelect, LoopTerminated,
       LoopTimeout, InputNext, InputEnd, ExecNext, ExecEnd, WaitDone, ModeTypes, modeVars, Startup
<1>3. CASE Calls
  BY <1>1, <1>3 DEF Calls, EachNext, EachEnd, FlushWrite, FlushFails, FlushEnd, AnswerOrInput,
       PwTimeout, SyncFlush, SyncGivesUp, AnswerTerminated, ModeTypes, modeVars
<1>4. CASE Dangling \/ Processes \/ Terminate
  BY <1>1, <1>4 DEF Dangling, Processes, Terminate, ModuleReads, ModuleSends, ModuleExits,
       ModeTypes, modeVars
<1>5. CASE MyXGrabServer \/ MyXUngrabServer
  BY <1>1, <1>5 DEF MyXGrabServer, MyXUngrabServer, ModeTypes, Runs, Running
<1>6. CASE Commands /\ ~MyXGrabServer /\ ~MyXUngrabServer
  <2>1. UNCHANGED modeVars
    BY <1>6 DEF Commands, CmdModule, CmdKillModule, CmdBroadcast, CmdSendToModule, CmdReply,
              CmdSetMask, CmdFlushAll, CmdWait, CmdReturn
  <2> QED
    BY <1>1, <2>1 DEF modeVars, ModeTypes
<1> QED
  BY <1>2, <1>3, <1>4, <1>5, <1>6 DEF Next

LEMMA GrabsStep ==
  ASSUME IInv, Next
  PROVE  GrabbedByCommand'
<1>1. stack \in Seq(Frames) /\ (myxgrabcount # 0 => Commanded(stack))
  BY DEF IInv, LoopTypes, GrabbedByCommand, Commanded
<1> SUFFICES ASSUME myxgrabcount' # 0 PROVE Commanded(stack')
  BY DEF GrabbedByCommand, Commanded
<1>2. CASE stack # <<>> /\ Top.at = "cmd" /\ stack' = stack
  <2>1. 1 \in DOMAIN stack /\ stack[1].at = "cmd"
    BY <1>1, <1>2, PopFacts DEF Top
  <2> QED
    BY <1>2, <2>1 DEF Commanded
<1>3. CASE ~(stack # <<>> /\ Top.at = "cmd" /\ stack' = stack)
  <2>1. myxgrabcount # 0
    BY <1>3, ModesStep
  <2>2. Commanded(stack)
    BY <1>1, <2>1
  <2>3. CASE stack' = stack
    BY <2>2, <2>3
  <2>4. CASE stack # <<>> /\ stack' = Tail(stack) /\ Top.at # "cmd"
    BY <1>1, <2>2, <2>4, CommandedPop DEF Top
  <2>5. ASSUME stack # <<>>, NEW s, NEW t, Resumed(s), Called(s, t), Asked(t)
        PROVE  Commanded(stack')
    <3>1. s \in Seq(Frames)
      BY <1>1, <2>5, CalledIn DEF NewFrame
    <3>2. Top.at \notin LoopPoints
      <4>1. PICK k \in DOMAIN stack :
              stack[k].at = "cmd" /\ \A i \in 1 .. k - 1 : stack[i].at \in {"each", "flush"}
        BY <2>2 DEF Commanded
      <4>2. k = 1 \/ 1 \in 1 .. k - 1
        BY <1>1, <4>1
      <4> QED
        BY <4>1, <4>2 DEF Top, LoopPoints
    <3>3. Commanded(s)
      <4>1. CASE s = stack
        BY <2>2, <4>1
      <4>2. CASE s # stack
        <5>1. PICK f \in NewFrame : s = <<f>> \o Tail(stack) /\ f.at = "each" /\ Top.at = "each"
          BY <2>5, <3>2, <4>2 DEF Resumed, Goto
        <5>2. Commanded(Tail(stack)) /\ Tail(stack) \in Seq(Frames)
          BY <1>1, <2>2, <2>5, <5>1, CommandedPop, PopFacts DEF Top
        <5> QED
          BY <5>1, <5>2, CommandedPush DEF NewFrame
      <4> QED
        BY <4>1, <4>2
    <3>4. Commanded(t)
      <4>1. CASE t = s
        BY <3>3, <4>1
      <4>2. CASE t # s
        <5>1. PICK g \in NewFrame : t = <<g>> \o s /\ g.at \in {"each", "flush"}
          BY <2>1, <2>5, <4>2 DEF Called
        <5> QED
          BY <3>1, <3>3, <5>1, CommandedPush DEF NewFrame
      <4> QED
        BY <4>1, <4>2
    <3> QED
      BY <2>1, <2>5, <3>4 DEF Asked
  <2> QED
    BY <2>1, <2>3, <2>4, <2>5, StackStep DEF StackEffect
<1> QED
  BY <1>2, <1>3
\* frames that do not wait for the answer to a packet that is still in the queue
Served ==
  {f \in Frames :
     f.at = "pw" /\ f.mod \in ToSet(module_list') /\ ~isTerminated'
       => Lacks(f.mod, f.msg.id)'}

Pending == Len(stack) >= 2 /\ stack[1].at = "flush" /\ stack[2].mod = stack[1].mod

LEMMA ServedStay ==
  ASSUME IInv, Next, NEW j \in DOMAIN stack, ~(Pending /\ j = 2)
  PROVE  stack[j] \in Served
<1>1. /\ stack \in Seq(Frames) /\ stack[j] \in Frames /\ DOMAIN stack = 1 .. Len(stack)
      /\ Len(stack) \in Nat
  BY DEF IInv, LoopTypes
<1>2. PICK m, id : m = stack[j].mod /\ id = stack[j].msg.id
  OBVIOUS
<1> SUFFICES ASSUME stack[j].at = "pw", m \in ToSet(module_list'), ~isTerminated'
             PROVE  Lacks(m, id)'
  BY <1>1, <1>2 DEF Served, Lacks
<1>3. m \in Modules /\ Started(m) /\ id \in Nat
  BY <1>1, <1>2, ModuleLinkAssumption
     DEF Frames, Frame, Message, NoMsg, IInv, HoldersStarted
<1>4. m \in ToSet(module_list) /\ ~isTerminated
  BY <1>3, ListStep, ModesStep DEF ListEffect
<1>5. Lacks(m, id)
  BY <1>1, <1>2, <1>4 DEF IInv, AnsweredSent, Pending
<1>6. ~BeingSent(id)
  <2>1. id # packets + 1
    <3>1. id <= packets /\ packets \in Nat
      BY <1>2, PacketsStep DEF IInv, SentLater
    <3> QED
      BY <1>3, <3>1
  <2>2. ASSUME Top.at = "each", Top.msg # NoMsg, id = Top.msg.id PROVE FALSE
    <3>1. 1 \in DOMAIN stack /\ 1 < j /\ Top = stack[1]
      BY <1>1, <2>2 DEF Top
    <3>2. Top.msg.id > id
      BY <1>2, <2>2, <3>1 DEF IInv, SentLater
    <3> QED
      BY <1>3, <2>2, <3>2
  <2> QED
    BY <2>1, <2>2 DEF BeingSent
<1> QED
  BY <1>3, <1>5, <1>6, LinkStep DEF LinkEffect

\* FlushMessageQueue returns when all is written, or the module is killed.
LEMMA FlushReturns ==
  ASSUME IInv, Next, NEW m, m = Top.mod, Top.at = "flush", stack' # stack
  PROVE  m \notin ToSet(module_list') \/ isTerminated' \/ \A id : Lacks(m, id)'
<1>1. CASE FlushFails
  <2>1. Kill({m}) \/ isTerminated
    BY <1>1 DEF FlushFails
  <2>2. Kill({m}) => m \notin ToSet(module_list')
    BY KilledLists DEF IInv
  <2> QED
    BY <2>1, <2>2, ModesStep
<1>2. CASE FlushEnd
  <2>1. fmod[m].queue = <<>> /\ fmod' = fmod
    BY <1>2 DEF FlushEnd, linkVars
  <2> QED
    BY <2>1 DEF Lacks
<1>3. CASE ~FlushFails /\ ~FlushEnd
  <2>1. ~Loops
    BY DEF Loops, LoopEnds, LoopEvent, LoopReturn, LoopIdle, LoopSelect, LoopTerminated,
       LoopTimeout, InputNext, InputEnd, ExecNext, ExecEnd, WaitDone, Runs
  <2>2. ~Commands
    BY DEF Commands, CmdModule, CmdKillModule, CmdBroadcast, CmdSendToModule, CmdReply,
           CmdSetMask, CmdFlushAll, MyXGrabServer, MyXUngrabServer, CmdWait, CmdReturn, Runs
  <2>3. ~Calls
    BY <1>3 DEF Calls, EachNext, EachEnd, FlushWrite, FlushFails, FlushEnd, AnswerOrInput,
       PwTimeout, SyncFlush, SyncGivesUp, AnswerTerminated, Runs
  <2>4. ~Dangling /\ ~Processes /\ ~Terminate
    BY DEF Dangling, Processes, ModuleReads, ModuleSends, ModuleExits, Terminate
  <2> QED
    BY <2>1, <2>2, <2>3, <2>4 DEF Next
<1> QED
  BY <1>1, <1>2, <1>3

LEMMA AnsweredStep ==
  ASSUME IInv, Next
  PROVE  AnsweredSent'
<1>1. stack \in Seq(Frames)
  BY DEF IInv, LoopTypes
<1>2. ASSUME stack' \in Seq(Served) PROVE AnsweredSent'
  BY <1>2 DEF AnsweredSent, Served, Lacks
<1>3. CASE ~Pending
  <2>1. stack \in Seq(Served)
    <3>1. \A j \in DOMAIN stack : stack[j] \in Served
      BY <1>3, ServedStay
    <3> QED
      BY <1>1, <3>1, Retyped
  <2>2. CASE stack' = stack
    BY <1>2, <2>1, <2>2
  <2>3. CASE stack # <<>> /\ stack' = Tail(stack)
    BY <1>2, <2>1, <2>3, PopFacts
  <2>4. ASSUME stack # <<>>, NEW s, NEW t, Resumed(s), Called(s, t), Asked(t)
        PROVE  AnsweredSent'
    <3>1. t \in Seq(Served)
      <4>1. \A f \in NewFrame : f.at # "pw" => f \in Served
        BY DEF NewFrame, Served
      <4> QED
        BY <2>1, <2>4, <4>1, CalledIn
    <3>2. CASE stack' = t
      BY <1>2, <3>1, <3>2
    <3>3. CASE stack' # t
      <4>1. PICK m \in Modules, msg \in Message :
              stack' = <<Of("flush", m), Pw(m, msg)>> \o t
        BY <2>4, <3>3 DEF Asked
      <4> DEFINE f == Of("flush", m)
                 g == Pw(m, msg)
      <4>2. f.at = "flush" /\ f.mod = m /\ g.mod = m
        BY OfFacts, PwFacts
      <4> HIDE DEF f, g
      <4>3. /\ DOMAIN stack' = 1 .. Len(t) + 2 /\ stack'[1] = f /\ stack'[2] = g
            /\ \A j \in 3 .. Len(t) + 2 : j - 2 \in DOMAIN t /\ stack'[j] = t[j - 2]
        BY <3>1, <4>1 DEF f, g
      <4>4. \A j \in DOMAIN stack' : j \in {1, 2} \/ stack'[j] \in Served
        BY <3>1, <4>3
      <4> QED
        BY <4>2, <4>3, <4>4 DEF AnsweredSent, Served, Lacks
    <3> QED
      BY <3>2, <3>3
  <2> QED
    BY <2>2, <2>3, <2>4, StackStep DEF StackEffect
<1>4. CASE Pending
  <2>1. Len(stack) \in Nat /\ Len(stack) >= 2 /\ stack # <<>> /\ Top.at = "flush" /\ Top = stack[1]
        /\ DOMAIN stack = 1 .. Len(stack)
    BY <1>1, <1>4 DEF Pending, Top
  <2>2. \A j \in DOMAIN stack : j # 2 => stack[j] \in Served
    BY ServedStay
  <2>3. CASE stack' = stack
    <3>1. \A j \in DOMAIN stack' : j = 2 \/ stack'[j] \in Served
      BY <2>2, <2>3
    <3> QED
      BY <1>4, <2>1, <2>3, <3>1 DEF AnsweredSent, Served, Lacks, Pending
  <2>4. CASE stack' # stack
    <3>1. stack' = Tail(stack)
      BY <2>1, <2>4, StackStep DEF StackEffect
    <3>2. PICK m : m = Top.mod
      OBVIOUS
    <3>3. m \notin ToSet(module_list') \/ isTerminated' \/ \A id : Lacks(m, id)'
      BY <2>1, <2>4, <3>2, FlushReturns
    <3>4. stack[2] \in Served
      <4>1. stack[2] \in Frames /\ stack[2].mod = m
        BY <1>1, <1>4, <2>1, <3>2 DEF Pending
      <4> QED
        BY <3>3, <4>1 DEF Served, Lacks
    <3>5. /\ Tail(stack) \in Seq(Frames)
          /\ \A j \in DOMAIN Tail(stack) : Tail(stack)[j] = stack[j + 1] /\ j + 1 \in DOMAIN stack
      BY <1>1, <2>1, PopFacts
    <3>6. \A j \in DOMAIN Tail(stack) : Tail(stack)[j] \in Served
      BY <2>2, <3>4, <3>5
    <3>7. Tail(stack) \in Seq(Served)
      BY <3>5, <3>6, Retyped
    <3> QED
      BY <1>2, <3>1, <3>7
  <2> QED
    BY <2>3, <2>4
<1> QED
  BY <1>3, <1>4
-----------------------------------------------------------------------------
(* The command queue, and the loop that fills and empties it *)

QueueEffect ==
  /\ cqueue' \in Seq(Input) /\ ran' \in [Modules -> 0 .. MaxInputs]
  /\ \A i \in DOMAIN cqueue' :
       \/ \E j \in DOMAIN cqueue : cqueue'[i] = cqueue[j]
       \/ cqueue'[i].mod \in ToSet(module_list)
  /\ cqueue' = cqueue \/ (stack # <<>> /\ Top.at \in {"input", "exec"})

LEMMA QueueStep ==
  ASSUME IInv, Next
  PROVE  QueueEffect
<1>1. cqueue \in Seq(Input) /\ ran \in [Modules -> 0 .. MaxInputs] /\ MaxInputs \in Nat
  BY ModuleLinkAssumption DEF IInv, LoopTypes
<1>2. ASSUME cqueue' = cqueue, ran' = ran PROVE QueueEffect
  BY <1>1, <1>2 DEF QueueEffect
<1>3. ASSUME NEW e \in Input, NEW rest, Execute(e, rest)
      PROVE  ran' \in [Modules -> 0 .. MaxInputs]
  <2>1. e.mod \in Modules /\ e.num \in 0 .. MaxInputs
    BY <1>1 DEF Input
  <2> QED
    BY <1>1, <1>3, <2>1 DEF Execute
<1>4. CASE Loops
  <2>1. CASE InputNext
    <3>1. /\ ran' = ran /\ stack # <<>> /\ Top.at = "input" /\ Top.itr \in ToSet(module_list)
          /\ \/ cqueue' = cqueue
             \/ /\ Receive(Top.itr) /\ Received(Top.itr) # Nil
                /\ cqueue' = Append(cqueue, Received(Top.itr))
      BY <2>1 DEF InputNext, Runs, Running
    <3>2. PICK m : m = Top.itr
      OBVIOUS
    <3>3. CASE cqueue' = cqueue
      BY <1>2, <3>1, <3>3
    <3>4. CASE cqueue' # cqueue
      <4>1. PICK e : e = Received(m)
        OBVIOUS
      <4>2. e \in Input /\ e.mod = m
        BY <3>1, <3>2, <3>4, <4>1, ListedStarted, ReceiveLinks DEF IInv, LinkInv
      <4>3. cqueue' = Append(cqueue, e)
        BY <3>1, <3>2, <3>4, <4>1
      <4>4. /\ cqueue' \in Seq(Input)
            /\ \A i \in DOMAIN cqueue' :
                 (i \in DOMAIN cqueue /\ cqueue'[i] = cqueue[i]) \/ cqueue'[i] = e
        BY <1>1, <4>2, <4>3
      <4> QED
        BY <1>1, <3>1, <3>2, <4>2, <4>4 DEF QueueEffect
    <3> QED
      BY <3>3, <3>4
  <2>2. CASE ExecNext
    <3>1. /\ cqueue # <<>> /\ cqueue' = Tail(cqueue) /\ stack # <<>> /\ Top.at = "exec"
          /\ Execute(Head(cqueue), stack)
      BY <2>2 DEF ExecNext, Runs, Running
    <3>2. /\ Tail(cqueue) \in Seq(Input) /\ Head(cqueue) \in Input
          /\ \A i \in DOMAIN Tail(cqueue) : Tail(cqueue)[i] = cqueue[i + 1] /\ i + 1 \in DOMAIN cqueue
      BY <1>1, <3>1, PopFacts
    <3> QED
      BY <1>3, <3>1, <3>2 DEF QueueEffect
  <2>3. CASE ~InputNext /\ ~ExecNext
    <3>1. cqueue' = cqueue /\ ran' = ran
      BY <1>4, <2>3 DEF Loops, LoopEnds, LoopEvent, LoopReturn, LoopIdle, LoopSelect,
            LoopTerminated, LoopTimeout, InputEnd, ExecEnd, WaitDone
    <3> QED
      BY <1>2, <3>1
  <2> QED
    BY <2>1, <2>2, <2>3
<1>5. CASE Commands
  <2>1. cqueue' = cqueue /\ ran' = ran
    BY <1>5 DEF Commands, CmdModule, CmdKillModule, CmdBroadcast, CmdSendToModule, CmdReply,
              CmdSetMask, CmdFlushAll, MyXGrabServer, MyXUngrabServer, CmdWait, CmdReturn
  <2> QED
    BY <1>2, <2>1
<1>6. CASE Calls
  <2>1. CASE AnswerOrInput
    <3>1. /\ cqueue' = cqueue /\ Running /\ Top.at \in {"pw", "sync"} /\ Receive(Top.mod)
          /\ \/ ran' = ran
             \/ Received(Top.mod) # Nil /\ \E rest : Execute(Received(Top.mod), rest)
      BY <2>1 DEF AnswerOrInput, Runs
    <3>2. Top.mod \in Modules
      BY <3>1, TopFacts
    <3>3. Received(Top.mod) # Nil => Received(Top.mod) \in Input
      BY <3>1, <3>2, ReceiveLinks DEF IInv, LinkInv
    <3>4. ran' \in [Modules -> 0 .. MaxInputs]
      BY <1>1, <1>3, <3>1, <3>3
    <3> QED
      BY <1>1, <3>1, <3>4 DEF QueueEffect
  <2>2. CASE ~AnswerOrInput
    <3>1. cqueue' = cqueue /\ ran' = ran
      BY <1>6, <2>2 DEF Calls, EachNext, EachEnd, FlushWrite, FlushFails, FlushEnd,
            PwTimeout, SyncFlush, SyncGivesUp, AnswerTerminated
    <3> QED
      BY <1>2, <3>1
  <2> QED
    BY <2>1, <2>2
<1>7. CASE Dangling \/ Processes \/ Terminate
  <2>1. cqueue' = cqueue /\ ran' = ran
    BY <1>7 DEF Dangling, Processes, Terminate, ModuleReads, ModuleSends, ModuleExits
  <2> QED
    BY <1>2, <2>1
<1> QED
  BY <1>4, <1>5, <1>6, <1>7 DEF Next

\* One loop, and that is the outermost call
Single(s) ==
  s # <<>> => /\ s[Len(s)].at \in LoopPoints
              /\ \A i \in 1 .. Len(s) - 1 : s[i].at \notin LoopPoints

LEMMA SinglePush ==
  ASSUME NEW s \in Seq(Frames), NEW f \in Frames, s # <<>>, Single(s), f.at \notin LoopPoints
  PROVE  /\ Single(<<f>> \o s) /\ <<f>> \o s # <<>>
         /\ (<<f>> \o s)[Len(<<f>> \o s)] = s[Len(s)]
<1> DEFINE t == <<f>> \o s
<1>1. /\ Len(t) = Len(s) + 1 /\ t[1] = f /\ Len(s) \in Nat /\ Len(s) >= 1 /\ t # <<>>
      /\ \A i \in 2 .. Len(s) + 1 : t[i] = s[i - 1]
  BY PushFacts
<1> HIDE DEF t
<1>2. t[Len(t)] = s[Len(s)]
  BY <1>1
<1>3. ASSUME NEW i \in 1 .. Len(t) - 1 PROVE t[i].at \notin LoopPoints
  <2>1. CASE i = 1
    BY <1>1, <2>1
  <2>2. CASE i # 1
    <3>1. i \in 2 .. Len(s) + 1 /\ i - 1 \in 1 .. Len(s) - 1
      BY <1>1, <2>2
    <3> QED
      BY <1>1, <3>1 DEF Single
  <2> QED
    BY <2>1, <2>2
<1>4. Single(t) /\ t # <<>> /\ t[Len(t)] = s[Len(s)]
  BY <1>1, <1>2, <1>3 DEF Single
<1> QED
  BY <1>4 DEF t

LEMMA SinglePop ==
  ASSUME NEW s \in Seq(Frames), s # <<>>, Single(s)
  PROVE  /\ Single(Tail(s))
         /\ s[1].at \in LoopPoints => Len(s) = 1 /\ Tail(s) = <<>>
         /\ s[1].at \notin LoopPoints => Tail(s) # <<>> /\ Tail(s)[Len(Tail(s))] = s[Len(s)]
<1>1. /\ Tail(s) \in Seq(Frames)
      /\ Len(Tail(s)) = Len(s) - 1 /\ Len(s) \in Nat /\ Len(s) >= 1
      /\ \A i \in 1 .. Len(s) - 1 : Tail(s)[i] = s[i + 1]
  BY PopFacts
<1>2. CASE Len(s) = 1
  <2>1. Tail(s) = <<>>
    <3>1. Len(Tail(s)) = 0
      BY <1>1, <1>2
    <3> QED
      BY <1>1, <3>1, EmptySeq
  <2> QED
    BY <1>2, <2>1 DEF Single
<1>3. CASE Len(s) # 1
  <2>1. Len(s) - 1 \in 1 .. Len(s) - 1 /\ 1 \in 1 .. Len(s) - 1
    BY <1>1, <1>3
  <2>2. s[1].at \notin LoopPoints
    BY <2>1 DEF Single
  <2>3. Tail(s) # <<>> /\ Tail(s)[Len(Tail(s))] = s[Len(s)]
    <3>1. Tail(s)[Len(s) - 1] = s[(Len(s) - 1) + 1] /\ (Len(s) - 1) + 1 = Len(s)
      BY <1>1, <2>1
    <3>2. Len(Tail(s)) # 0
      BY <1>1, <1>3
    <3> QED
      BY <1>1, <3>1, <3>2, EmptySeq
  <2>4. \A i \in 1 .. Len(Tail(s)) - 1 : Tail(s)[i].at \notin LoopPoints
    <3>1. \A i \in 1 .. Len(Tail(s)) - 1 : i \in 1 .. Len(s) - 1 /\ i + 1 \in 1 .. Len(s) - 1
      BY <1>1, <1>3
    <3> QED
      BY <1>1, <3>1 DEF Single
  <2> QED
    BY <2>2, <2>3, <2>4 DEF Single
<1> QED
  BY <1>2, <1>3

\* What runs above the loop leaves it alone.
LEMMA SingleStep ==
  ASSUME IInv, Next, MaxWaits = 0
  PROVE  /\ Single(stack')
         /\ stack # <<>> /\ Top.at \notin LoopPoints =>
              stack' # <<>> /\ stack'[Len(stack')] = stack[Len(stack)]
<1>1. stack \in Seq(Frames) /\ Single(stack)
  BY DEF IInv, LoopTypes, OneLoop, Single
<1>2. CASE stack' = stack
  BY <1>1, <1>2
<1>3. CASE stack # <<>> /\ stack' = Tail(stack)
  BY <1>1, <1>3, SinglePop DEF Top
<1>4. ASSUME stack # <<>>, NEW s, NEW t, Resumed(s), Called(s, t), Asked(t)
      PROVE  /\ Single(stack')
             /\ Top.at \notin LoopPoints =>
                  stack' # <<>> /\ stack'[Len(stack')] = stack[Len(stack)]
  <2> DEFINE Kept(u) ==
        /\ u # <<>> /\ Single(u)
        /\ Top.at \notin LoopPoints => u[Len(u)] = stack[Len(stack)]
  <2>1. ASSUME NEW u \in Seq(Frames), Kept(u), NEW f \in Frames, f.at \notin LoopPoints
        PROVE  <<f>> \o u \in Seq(Frames) /\ Kept(<<f>> \o u)
    BY <2>1, SinglePush, PushFacts
  <2>2. s \in Seq(Frames) /\ t \in Seq(Frames)
    BY <1>1, <1>4, CalledIn DEF NewFrame
  <2>3. Kept(s)
    <3>1. CASE s = stack
      BY <1>1, <1>4, <3>1
    <3>2. CASE s # stack
      <4>1. PICK f \in NewFrame :
              s = <<f>> \o Tail(stack) /\ (f.at \in LoopPoints <=> Top.at \in LoopPoints)
        BY <1>4, <3>2 DEF Resumed, Goto, LoopPoints
      <4>2. f \in Frames /\ Tail(stack) \in Seq(Frames)
        BY <1>1, <1>4, PopFacts DEF NewFrame
      <4>3. CASE Top.at \in LoopPoints
        <5>1. Tail(stack) = <<>>
          BY <1>1, <1>4, <4>3, SinglePop DEF Top
        <5>2. s # <<>> /\ Len(s) = 1 /\ s[1] = f
          <6>1. <<f>> \o <<>> = <<f>>
            BY <4>2
          <6> QED
            BY <4>1, <5>1, <6>1
        <5> QED
          BY <4>1, <4>3, <5>2 DEF Single
      <4>4. CASE Top.at \notin LoopPoints
        <5>1. /\ Tail(stack) # <<>> /\ Single(Tail(stack))
              /\ Tail(stack)[Len(Tail(stack))] = stack[Len(stack)]
          BY <1>1, <1>4, <4>4, SinglePop DEF Top
        <5> QED
          BY <4>1, <4>2, <4>4, <5>1, SinglePush
      <4> QED
        BY <4>3, <4>4
    <3> QED
      BY <3>1, <3>2
  <2>4. Kept(t)
    <3>1. CASE t = s
      BY <2>3, <3>1
    <3>2. CASE t # s
      <4>1. PICK g \in NewFrame : t = <<g>> \o s /\ g.at \notin LoopPoints
        BY <1>4, <3>2 DEF Called
      <4> HIDE DEF Kept
      <4> QED
        BY <2>1, <2>2, <2>3, <4>1 DEF NewFrame
    <3> QED
      BY <3>1, <3>2
  <2>5. Kept(stack')
    <3>1. CASE stack' = t
      BY <2>4, <3>1
    <3>2. CASE stack' # t
      <4>1. PICK m \in Modules, msg \in Message :
              stack' = <<Of("flush", m), Pw(m, msg)>> \o t
        BY <1>4, <3>2 DEF Asked
      <4>2. PICK f \in Frames, g \in Frames :
              /\ f = Of("flush", m) /\ g = Pw(m, msg)
              /\ f.at \notin LoopPoints /\ g.at \notin LoopPoints
        <5>1. Of("flush", m) \in Frames /\ Of("flush", m).at = "flush"
          BY OfFacts
        <5>2. Pw(m, msg) \in Frames /\ Pw(m, msg).at = "pw"
          BY PwFacts
        <5> QED
          BY <5>1, <5>2 DEF LoopPoints
      <4> HIDE DEF Kept
      <4>3. <<g>> \o t \in Seq(Frames) /\ Kept(<<g>> \o t)
        BY <2>1, <2>2, <2>4, <4>2
      <4>4. Kept(<<f>> \o (<<g>> \o t))
        BY <2>1, <4>2, <4>3
      <4>5. stack' = <<f>> \o (<<g>> \o t)
        BY <2>2, <4>1, <4>2, PushTwo, ZenonT(60)
      <4> QED
        BY <4>4, <4>5
    <3> QED
      BY <3>1, <3>2
  <2> QED
    BY <2>5
<1> QED
  BY <1>2, <1>3, <1>4, StackStep DEF StackEffect
LEMMA ShortStack ==
  ASSUME NEW f, NEW g
  PROVE  <<f>> \o <<>> = <<f>> /\ <<g>> \o <<f>> = <<g, f>>
<1> DEFINE S == {f, g}
<1>1. <<>> \in Seq(S) /\ <<f>> \in Seq(S) /\ <<g, f>> \in Seq(S) /\ f \in S /\ g \in S
  OBVIOUS
<1> HIDE DEF S
<1>2. <<f>> \o <<>> = <<f>>
  <2>1. <<f>> \o <<>> \in Seq(S) /\ Len(<<f>> \o <<>>) = 1 /\ (<<f>> \o <<>>)[1] = f
    BY <1>1
  <2>2. \A i \in 1 .. Len(<<f>>) : (<<f>> \o <<>>)[i] = <<f>>[i]
    BY <2>1
  <2> QED
    BY <1>1, <2>1, <2>2, SeqEqual
<1>3. <<g>> \o <<f>> = <<g, f>>
  <2>1. /\ <<g>> \o <<f>> \in Seq(S) /\ Len(<<g>> \o <<f>>) = 2
        /\ (<<g>> \o <<f>>)[1] = g /\ (<<g>> \o <<f>>)[2] = f
    BY <1>1
  <2>2. \A i \in 1 .. 2 : (<<g>> \o <<f>>)[i] = <<g, f>>[i]
    BY <2>1
  <2> QED
    BY <1>1, <2>1, <2>2, SeqEqual
<1> QED
  BY <1>2, <1>3

\* The loop that input is waiting for
LEMMA LoopBottom ==
  ASSUME IInv, Next, stack # <<>>, Len(stack) = 1, Top.at \in {"input", "exec"}
  PROVE  \/ cqueue' = <<>>
         \/ stack' # <<>> /\ stack'[Len(stack')].at \in {"input", "exec"}
<1>1. stack \in Seq(Frames) /\ Tail(stack) = <<>> /\ Top \in Frames /\ stack[Len(stack)] = Top
  <2>1. stack \in Seq(Frames)
    BY DEF IInv, LoopTypes
  <2>2. Tail(stack) \in Seq(Frames) /\ Len(Tail(stack)) = 0 /\ Top \in Frames
    BY <2>1, PopFacts DEF Top
  <2> QED
    BY <2>1, <2>2, EmptySeq DEF Top
<1>2. CASE stack' = stack
  BY <1>1, <1>2
<1>3. CASE InputNext
  <2> DEFINE f == [Top EXCEPT !.itr = ItrNext(Top.itr)]
             g == Of("flush", Top.itr)
  <2>1. /\ stack' = <<f>> \o Tail(stack) \/ stack' = <<g>> \o (<<f>> \o Tail(stack))
        /\ Top.at = "input"
    BY <1>3 DEF InputNext, Runs, Goto
  <2>2. f.at = Top.at
    BY <1>1 DEF Frames, Frame
  <2> HIDE DEF f, g
  <2>3. stack' = <<f>> \/ stack' = <<g, f>>
    BY <1>1, <2>1, ShortStack
  <2> QED
    BY <2>1, <2>2, <2>3
<1>4. CASE InputEnd
  <2>1. stack' = <<At("exec")>>
    BY <1>1, <1>4, ShortStack DEF InputEnd, Goto
  <2> QED
    BY <2>1, AtFacts DEF LoopPoints
<1>5. CASE ExecNext
  <2> DEFINE g == Of("cmd", Head(cqueue).mod)
  <2>1. stack' = <<g>> \o stack
    BY <1>5 DEF ExecNext, Execute
  <2> HIDE DEF g
  <2>2. /\ stack' # <<>> /\ Len(stack') = Len(stack) + 1
        /\ stack'[2] = stack[1]
    <3>1. stack \in Seq({g} \cup Frames)
      <4>1. \A i \in DOMAIN stack : stack[i] \in {g} \cup Frames
        BY <1>1
      <4> QED
        BY <1>1, <4>1, Retyped
    <3> QED
      BY <2>1, <3>1, PushFacts
  <2> QED
    BY <1>1, <2>2
<1>6. CASE ExecEnd
  BY <1>6 DEF ExecEnd
<1>7. CASE ~InputNext /\ ~InputEnd /\ ~ExecNext /\ ~ExecEnd /\ stack' # stack
  <2>1. ~Loops
    BY <1>7 DEF Loops, LoopEnds, LoopEvent, LoopReturn, LoopIdle, LoopSelect, LoopTerminated,
       LoopTimeout, WaitDone, Runs
  <2>2. ~Commands
    BY DEF Commands, CmdModule, CmdKillModule, CmdBroadcast, CmdSendToModule, CmdReply,
           CmdSetMask, CmdFlushAll, MyXGrabServer, MyXUngrabServer, CmdWait, CmdReturn, Runs
  <2>3. ~Calls
    BY DEF Calls, EachNext, EachEnd, FlushWrite, FlushFails, FlushEnd, AnswerOrInput,
       PwTimeout, SyncFlush, SyncGivesUp, AnswerTerminated, Runs
  <2>4. ~Dangling /\ ~Processes /\ ~Terminate
    BY <1>7 DEF Dangling, Processes, ModuleReads, ModuleSends, ModuleExits, Terminate
  <2> QED
    BY <2>1, <2>2, <2>3, <2>4 DEF Next
<1> QED
  BY <1>2, <1>3, <1>4, <1>5, <1>6, <1>7

\* Without nested loops no module that is in use is freed.
LEMMA LiveStep ==
  ASSUME IInv, Next, MaxWaits = 0
  PROVE  UsedModulesLive'
<1>1. /\ stack \in Seq(Frames) /\ Single(stack) /\ cqueue \in Seq(Input) /\ freed \subseteq Modules
      /\ \A i \in DOMAIN stack : stack[i].mod \notin freed
      /\ \A i \in DOMAIN cqueue : cqueue[i].mod \notin freed
  BY DEF IInv, LoopTypes, OneLoop, UsedModulesLive, Single, ListTypes
<1>2. CASE freed' = freed
  <2> DEFINE Live == {f \in Frames : f.mod \notin freed}
  <2>1. stack' \in Seq(Live)
    <3>1. \A i \in DOMAIN stack : stack[i] \in Live
      BY <1>1
    <3>2. NewFrame \subseteq Live
      BY <1>1 DEF NewFrame
    <3> HIDE DEF Live
    <3>3. stack \in Seq(Live)
      BY <1>1, <3>1, Retyped
    <3> QED
      BY <3>2, <3>3, StackStep, EffectIn
  <2>2. \A i \in DOMAIN cqueue' : cqueue'[i].mod \notin freed
    <3>1. \A m \in ToSet(module_list) : m \notin freed
      BY DEF IInv, Owned
    <3> QED
      BY <1>1, <3>1, QueueStep DEF QueueEffect
  <2> QED
    BY <1>2, <2>1, <2>2 DEF UsedModulesLive
<1>3. CASE freed' # freed
  <2>1. /\ Top.at \in {"begin", "exec"} /\ cqueue' = cqueue
        /\ \E p \in LoopPoints : stack' \in {Goto(At(p)), <<At("cmd")>> \o Goto(At(p))}
        /\ Top.at = "exec" => cqueue = <<>>
    BY <1>3, ListStep DEF ListEffect, Returned, Dispatched, LoopPoints
  <2>2. PICK p \in LoopPoints : stack' \in {Goto(At(p)), <<At("cmd")>> \o Goto(At(p))}
    BY <2>1
  <2>3. stack # <<>>
    BY DEF Next, Loops, LoopEnds, LoopEvent, LoopReturn, LoopIdle, LoopSelect, LoopTerminated,
           LoopTimeout, InputNext, InputEnd, ExecNext, ExecEnd, WaitDone,
           Commands, CmdModule, CmdKillModule, CmdBroadcast, CmdSendToModule, CmdReply,
           CmdSetMask, CmdFlushAll, MyXGrabServer, MyXUngrabServer, CmdWait, CmdReturn,
           Calls, EachNext, EachEnd, FlushWrite, FlushFails, FlushEnd, AnswerOrInput,
           PwTimeout, SyncFlush, SyncGivesUp, AnswerTerminated,
           Dangling, Processes, ModuleReads, ModuleSends, ModuleExits, Terminate, Runs, Running
  <2>4. Len(stack) = 1 /\ Tail(stack) = <<>>
    BY <1>1, <2>1, <2>3, SinglePop DEF Top, LoopPoints
  <2>5. cqueue = <<>>
    <3>1. Top = stack[Len(stack)]
      BY <2>4 DEF Top
    <3> QED
      BY <2>1, <2>3, <3>1 DEF IInv, OneLoop
  <2>6. \A i \in DOMAIN stack' : stack'[i].mod = Nil
    <3> DEFINE f == At(p)
               g == At("cmd")
    <3>1. f.mod = Nil /\ g.mod = Nil
      BY AtFacts
    <3> HIDE DEF f, g
    <3>2. stack' = <<f>> \/ stack' = <<g, f>>
      BY <2>2, <2>4, ShortStack DEF f, g, Goto
    <3> QED
      BY <3>1, <3>2
  <2>7. Nil \notin freed'
    BY ListStep, ModuleLinkAssumption DEF ListEffect, ListTypes
  <2> QED
    BY <2>1, <2>5, <2>6, <2>7 DEF UsedModulesLive
<1> QED
  BY <1>2, <1>3

LEMMA OneLoopStep ==
  ASSUME IInv, Next
  PROVE  OneLoop'
<1> SUFFICES ASSUME MaxWaits = 0
             PROVE  /\ Single(stack')
                    /\ stack' # <<>> /\ stack'[Len(stack')].at \notin {"input", "exec"}
                         => cqueue' = <<>>
  BY LiveStep DEF OneLoop, Single
<1>1. Single(stack')
  BY SingleStep
<1>2. /\ stack \in Seq(Frames) /\ Single(stack)
      /\ stack # <<>> /\ stack[Len(stack)].at \notin {"input", "exec"} => cqueue = <<>>
  BY DEF IInv, LoopTypes, OneLoop, Single
<1>3. CASE stack = <<>>
  <2>1. stack' = stack
    BY <1>3, StackStep DEF StackEffect
  <2> QED
    BY <1>1, <1>3, <2>1
<1>4. CASE stack # <<>> /\ Top.at \notin LoopPoints
  <2>1. stack' # <<>> /\ stack'[Len(stack')] = stack[Len(stack)]
    BY <1>4, SingleStep
  <2>2. cqueue' = cqueue
    BY <1>4, QueueStep DEF QueueEffect, LoopPoints
  <2> QED
    BY <1>1, <1>2, <1>4, <2>1, <2>2
<1>5. CASE stack # <<>> /\ Top.at \in LoopPoints
  <2>1. Len(stack) = 1 /\ Top = stack[Len(stack)]
    BY <1>2, <1>5, SinglePop DEF Top
  <2>2. CASE Top.at \in {"input", "exec"}
    BY <1>1, <1>5, <2>1, <2>2, LoopBottom
  <2>3. CASE Top.at \notin {"input", "exec"}
    <3>1. cqueue = <<>> /\ cqueue' = cqueue
      BY <1>2, <1>5, <2>1, <2>3, QueueStep DEF QueueEffect
    <3> QED
      BY <1>1, <3>1
  <2> QED
    BY <2>2, <2>3
<1> QED
  BY <1>3, <1>4, <1>5

LEMMA HoldersStep ==
  ASSUME IInv, Next
  PROVE  HoldersStarted'
<1>1. \A m \in Modules : Started(m) => Started(m)'
  BY LinkStep DEF LinkEffect
<1>2. /\ \A m \in ToSet(module_list) \cup ToSet(death_row) \cup freed : m \in Modules /\ Started(m)
      /\ \A i \in DOMAIN cqueue : cqueue[i].mod \in Modules /\ Started(cqueue[i].mod)
  <2>1. \A i \in DOMAIN cqueue : cqueue[i] \in Input
    BY DEF IInv, LoopTypes
  <2> QED
    BY <2>1 DEF IInv, ListTypes, HoldersStarted, ToSet, Input
<1>3. \A m \in ToSet(module_list') \cup ToSet(death_row') \cup freed' : Started(m)'
  BY <1>1, <1>2, ListStep DEF ListEffect
<1>4. \A i \in DOMAIN cqueue' : wire'[cqueue'[i].mod].started
  <2> SUFFICES ASSUME NEW i \in DOMAIN cqueue' PROVE wire'[cqueue'[i].mod].started
    OBVIOUS
  <2>1. PICK m : m = cqueue'[i].mod
    OBVIOUS
  <2>2. m \in Modules /\ Started(m)
    BY <1>2, <2>1, QueueStep DEF QueueEffect
  <2>3. Started(m)'
    BY <1>1, <2>2
  <2> QED
    BY <2>1, <2>3 DEF Started
<1>5. \A i \in DOMAIN stack' : stack'[i].mod # Nil => wire'[stack'[i].mod].started
  BY FramesStep DEF Fit, Started
<1> QED
  BY <1>3, <1>4, <1>5 DEF HoldersStarted, Started, ToSet
---------------------------------------------------------------------------
LEMMA FirstListed ==
  ASSUME Init
  PROVE  /\ module_list \in Seq(Modules) /\ Distinct(module_list)
         /\ ToSet(module_list) = CmdLine
<1>1. PICK n : n = Cardinality(CmdLine)
  OBVIOUS
<1>2. n \in Nat
  BY <1>1, ModuleLinkAssumption, FS_CardinalityType
<1>3. module_list \in [1 .. n -> CmdLine] /\ ToSet(module_list) = CmdLine
  BY <1>1 DEF Init
<1>4. IsFiniteSet(1 .. n) /\ Cardinality(1 .. n) = n
  BY <1>2, FS_Interval
<1>5. \A m \in CmdLine : \E i \in 1 .. n : module_list[i] = m
  BY <1>3 DEF ToSet
<1>6. module_list \in Surjection(1 .. n, CmdLine)
  BY <1>3, <1>5 DEF Surjection
<1>7. module_list \in Injection(1 .. n, CmdLine)
  BY <1>1, <1>4, <1>6, ModuleLinkAssumption, FS_SurjSameCardinalityImpliesInj
<1>8. Distinct(module_list)
  BY <1>7 DEF Injection, IsInjective, Distinct
<1>9. CmdLine \subseteq Modules
  BY ModuleLinkAssumption
<1>10. module_list \in [1 .. n -> Modules]
  BY <1>3, <1>9
<1> QED
  BY <1>2, <1>3, <1>8, <1>10

LEMMA InitHolds == Init => IInv
<1> SUFFICES ASSUME Init PROVE IInv
  OBVIOUS
<1>1. ListTypes /\ Owned
  <2>1. ToSet(<<>>) = {} /\ <<>> \in Seq(Modules) /\ Distinct(<<>>)
    BY DEF ToSet, Distinct
  <2> QED
    BY <2>1, FirstListed DEF ListTypes, Owned, Init
<1>2. At("begin") \in Frames /\ At("begin").mod = Nil /\ At("begin").at = "begin"
      /\ At("begin").msg = NoMsg
  BY AtFacts DEF LoopPoints
<1>3. /\ stack = <<At("begin")>> /\ stack \in Seq(Frames) /\ Len(stack) = 1
      /\ DOMAIN stack = {1} /\ stack[1] = At("begin") /\ stack # <<>>
  BY <1>2 DEF Init
<1>4. NewModule \in FmodType /\ NewModule.queue = <<>>
  BY DEF NewModule, FmodType
<1>5. /\ On \in WireType /\ On.sent = <<>> /\ On.input = <<>> /\ On.started
      /\ Off \in WireType /\ Off.sent = <<>> /\ Off.input = <<>> /\ ~Off.started /\ ~Off.up
  BY DEF On, Off, WireType
<1>6. ASSUME NEW m \in Modules
      PROVE  /\ fmod[m] = NewModule
             /\ wire[m] = IF m \in CmdLine THEN On ELSE Off
  BY DEF Init
<1>7. LinkTypes
  BY <1>4, <1>5, ModuleLinkAssumption DEF LinkTypes, Init
<1>8. LinksStarted
  BY <1>4, <1>5, <1>6 DEF LinksStarted, Started
<1>9. ASSUME NEW m \in Modules PROVE Stream(m)
  <2>1. wire[m].sent = <<>> /\ fmod[m].queue = <<>>
    BY <1>4, <1>5, <1>6
  <2>2. Len(<<>>) = 0 /\ DOMAIN <<>> = {} /\ 0 % Units = 0
    BY ModuleLinkAssumption
  <2> QED
    BY <2>1, <2>2 DEF Stream, StreamOf, Packets
<1>10. LoopTypes
  <2>1. ran \in [Modules -> 0 .. MaxInputs] /\ packets \in 0 .. MaxPackets
    BY ModuleLinkAssumption DEF Init
  <2> QED
    BY <1>3, <2>1 DEF LoopTypes, Init
<1>11. ModeTypes
  <2>1. MaxGrabs \in Nat
    BY ModuleLinkAssumption
  <2>2. 0 \in 0 .. MaxGrabs
    BY <2>1
  <2> QED
    BY <2>2 DEF ModeTypes, Init
<1>12. HoldersStarted
  <2>1. \A m \in CmdLine : Started(m)
    BY <1>5, <1>6, ModuleLinkAssumption DEF Started
  <2>2. \A i \in DOMAIN module_list : module_list[i] \in CmdLine
    BY FirstListed DEF ToSet
  <2> QED
    BY <1>2, <1>3, <2>1, <2>2 DEF HoldersStarted, Init
<1>13. GrabbedByCommand
  BY DEF GrabbedByCommand, Init
<1>14. SentLater
  BY <1>2, <1>3 DEF SentLater, NoMsg, Init
<1>15. AnsweredSent
  BY <1>2, <1>3 DEF AnsweredSent
<1>16. OneLoop
  BY <1>2, <1>3 DEF OneLoop, UsedModulesLive, LoopPoints, Init
<1> QED
  BY <1>1, <1>7, <1>8, <1>9, <1>10, <1>11, <1>12, <1>13, <1>14, <1>15, <1>16 DEF IInv

LEMMA StutterKeeps ==
  ASSUME IInv, UNCHANGED vars
  PROVE  IInv'
<1>1. ListTypes' /\ LinkTypes' /\ LoopTypes' /\ ModeTypes'
  BY DEF IInv, ListTypes, LinkTypes, LoopTypes, ModeTypes, vars
<1>2. HoldersStarted' /\ LinksStarted' /\ Owned'
  BY DEF IInv, HoldersStarted, LinksStarted, Started, Owned, Distinct, ToSet, vars
<1>3. \A m \in Modules : Stream(m)'
  BY DEF IInv, Stream, StreamOf, Packets, vars
<1>4. GrabbedByCommand' /\ SentLater'
  BY DEF IInv, GrabbedByCommand, SentLater, vars
<1>5. AnsweredSent'
  BY DEF IInv, AnsweredSent, Lacks, ToSet, vars
<1>6. OneLoop'
  BY DEF IInv, OneLoop, UsedModulesLive, vars
<1> QED
  BY <1>1, <1>2, <1>3, <1>4, <1>5, <1>6 DEF IInv

LEMMA NextKeeps ==
  ASSUME IInv, Next
  PROVE  IInv'
<1>1. ListTypes' /\ Owned'
  BY ListStep DEF ListEffect
<1>2. LinkTypes' /\ LinksStarted' /\ \A m \in Modules : Stream(m)'
  BY LinkStep DEF LinkEffect, LinkInv
<1>3. stack' \in Seq(Fit)
  BY FramesStep
<1>4. \A i \in DOMAIN stack' : stack'[i] \in Frames /\ stack'[i].msg.id <= packets'
  BY <1>3 DEF Fit
<1>5. stack' \in Seq(Frames)
  BY <1>3, <1>4, Retyped
<1>6. LoopTypes'
  BY <1>5, QueueStep, PacketsStep DEF QueueEffect, LoopTypes
<1>7. ModeTypes'
  BY ModesStep
<1>8. SentLater'
  BY <1>4, LaterStep DEF SentLater, Later
<1> QED
  BY <1>1, <1>2, <1>6, <1>7, <1>8, HoldersStep, GrabsStep, AnsweredStep, OneLoopStep DEF IInv

LEMMA Invariance == Spec => []IInv
<1>1. IInv /\ [Next]_vars => IInv'
  BY StutterKeeps, NextKeeps
<1> QED
  BY <1>1, InitHolds, PTL DEF Spec

(* Type correctness: every variable has the type of its C counterpart in    *)
(* every reachable state, however deep the event loop and the waits for     *)
(* modules are nested.                                                      *)
THEOREM TypeCorrect == Spec => []TypeOK
<1>1. ASSUME IInv PROVE TypeOK
  <2>1. stack \in Seq(Frame)
    <3>1. stack \in Seq(Frames) /\ \A i \in DOMAIN stack : stack[i] \in Frames
      BY <1>1 DEF IInv, LoopTypes
    <3>2. \A i \in DOMAIN stack : stack[i] \in Frame
      BY <3>1 DEF Frames
    <3> QED
      BY <3>1, <3>2, Retyped
  <2> QED
    BY <1>1, <2>1 DEF IInv, ListTypes, LinkTypes, LoopTypes, ModeTypes, TypeOK
<1> QED
  BY <1>1, Invariance, PTL

(* Pipes hold whole packets: FlushMessageQueue, which writes in pieces, is  *)
(* interrupted and is called again from inside a wait, never mixes packets  *)
(* up, and the queue knows how far the last one is written.                 *)
THEOREM PacketsWhole == Spec => []StreamWhole
<1>1. ASSUME IInv, NEW m \in Modules
      PROVE  LET sent == wire[m].sent
                 rest == Len(sent) % Units
             IN /\ \A i \in DOMAIN sent :
                     /\ sent[i][2] = ((i - 1) % Units) + 1
                     /\ sent[i][2] > 1 => sent[i - 1][1] = sent[i][1]
                /\ rest # 0 => /\ fmod[m].queue # <<>>
                               /\ fmod[m].queue[1].id = Last(sent)[1]
                               /\ fmod[m].queue[1].done = rest
  BY <1>1 DEF IInv, Stream, StreamOf, Packets, Last
<1>2. IInv => StreamWhole
  BY <1>1 DEF StreamWhole
<1> QED
  BY <1>2, Invariance, PTL

(* The manager does not wait for a module that waits for it: PositiveWrite  *)
(* waits for the unlock of a module only after that module was sent the     *)
(* packet, and the manager waits for no module while it has the server      *)
(* grabbed.                                                                 *)
THEOREM NeverBothWait == Spec => []NoMutualWait
<1>1. ASSUME IInv PROVE SyncDelivered
  <2> SUFFICES ASSUME stack # <<>>, Top.at = "pw", Top.mod \in ToSet(module_list),
                      ~isTerminated
               PROVE  Lacks(Top.mod, Top.msg.id)
    BY DEF SyncDelivered, Lacks
  <2>1. 1 \in DOMAIN stack /\ Top = stack[1]
    BY <1>1 DEF IInv, LoopTypes, Top
  <2> QED
    BY <1>1, <2>1 DEF IInv, AnsweredSent
<1>2. ASSUME IInv PROVE NoWaitWhileGrabbed
  <2> SUFFICES ASSUME stack # <<>>, Top.at \in {"pw", "sync"}, myxgrabcount # 0
               PROVE  FALSE
    BY DEF NoWaitWhileGrabbed
  <2>1. stack \in Seq(Frames) /\ Len(stack) \in Nat /\ Top = stack[1]
    BY <1>2 DEF IInv, LoopTypes, Top
  <2>2. PICK k \in DOMAIN stack :
          stack[k].at = "cmd" /\ \A i \in 1 .. k - 1 : stack[i].at \in {"each", "flush"}
    BY <1>2 DEF IInv, GrabbedByCommand
  <2>3. k = 1 \/ 1 \in 1 .. k - 1
    BY <2>1, <2>2
  <2> QED
    BY <2>1, <2>2, <2>3
<1>3. IInv => NoMutualWait
  BY <1>1, <1>2 DEF NoMutualWait
<1> QED
  BY <1>3, Invariance, PTL

LEMMA OwnedOnceHolds ==
  ASSUME ListTypes, Owned
  PROVE  OwnedOnce
<1> DEFINE all == module_list \o death_row
<1>1. module_list \in Seq(Modules) /\ death_row \in Seq(Modules)
  BY DEF ListTypes
<1>2. /\ DOMAIN all = 1 .. Len(module_list) + Len(death_row)
      /\ \A i \in 1 .. Len(module_list) : all[i] = module_list[i]
      /\ \A i \in Len(module_list) + 1 .. Len(module_list) + Len(death_row) :
           all[i] = death_row[i - Len(module_list)]
  BY <1>1, ConcatFacts
<1>3. /\ DOMAIN module_list = 1 .. Len(module_list) /\ DOMAIN death_row = 1 .. Len(death_row)
      /\ Len(module_list) \in Nat /\ Len(death_row) \in Nat
  BY <1>1
<1> HIDE DEF all
<1>4. ASSUME NEW i \in DOMAIN all
      PROVE  \/ i \in DOMAIN module_list /\ all[i] = module_list[i]
             \/ /\ i \notin DOMAIN module_list /\ i - Len(module_list) \in DOMAIN death_row
                /\ all[i] = death_row[i - Len(module_list)]
  BY <1>2, <1>3
<1>5. ASSUME NEW i \in DOMAIN all, NEW j \in DOMAIN all, all[i] = all[j] PROVE i = j
  <2>1. i \in Int /\ j \in Int
    BY <1>2, <1>3
  <2>2. CASE i \in DOMAIN module_list /\ j \in DOMAIN module_list
    BY <1>4, <1>5, <2>2 DEF Owned, Distinct
  <2>3. CASE i \in DOMAIN module_list /\ j \notin DOMAIN module_list
    BY <1>4, <1>5, <2>3 DEF Owned, ToSet
  <2>4. CASE i \notin DOMAIN module_list /\ j \in DOMAIN module_list
    BY <1>4, <1>5, <2>4 DEF Owned, ToSet
  <2>5. CASE i \notin DOMAIN module_list /\ j \notin DOMAIN module_list
    <3>1. i - Len(module_list) = j - Len(module_list)
      BY <1>4, <1>5, <2>5 DEF Owned, Distinct
    <3> QED
      BY <1>3, <2>1, <3>1
  <2> QED
    BY <2>2, <2>3, <2>4, <2>5
<1>6. IsInjective(all)
  BY <1>5 DEF IsInjective
<1>7. ToSet(all) \cap freed = {}
  BY <1>4 DEF Owned, ToSet
<1> QED
  BY <1>6, <1>7 DEF OwnedOnce, all

(* A module is in one of the two lists only and there once, and none of     *)
(* them is freed: module_cleanup frees no structure twice, although it is   *)
(* module_kill that is called again and again for killed modules.           *)
THEOREM ListedOnce == Spec => []OwnedOnce
<1>1. IInv => OwnedOnce
  BY OwnedOnceHolds DEF IInv
<1> QED
  BY <1>1, Invariance, PTL

(* When commands do not Wait, module_cleanup frees no module that a call in *)
(* progress or a queued command still uses: the only event loop is the      *)
(* outermost call, and where it cleans up no command is queued.             *)
THEOREM FreedWhenUnused ==
  ASSUME MaxWaits = 0
  PROVE  Spec => []ModulesOwned
<1>1. IInv => ModulesOwned
  BY OwnedOnceHolds DEF IInv, OneLoop, ModulesOwned
<1> QED
  BY <1>1, Invariance, PTL
-----------------------------------------------------------------------------
(* What modules are sent (ModuleContract) *)

\* packet p is not sent to a module twice: a loop that sends it has not reached
\* the modules that are at its iterator or after it
Beyond(list, a, b) == \E i, j \in DOMAIN list : i <= j /\ list[i] = a /\ list[j] = b

SentIn(m, p) == \E i \in DOMAIN SentTo(m) : SentTo(m)[i] = p

NotReached(f) ==
  /\ f.itr # Nil => Started(f.itr)
  /\ \A m \in Modules : Beyond(module_list, f.itr, m) => ~SentIn(m, f.msg.id)

LoopsSendOnce == \A i \in DOMAIN stack : Sending(stack[i]) => NotReached(stack[i])

SentBefore == \A m \in Modules : \A p \in 1 .. MaxPackets : SentIn(m, p) => p <= packets

ReadWithin == \A m \in Modules : wire[m].read <= Len(wire[m].sent)

CInv == LoopsSendOnce /\ SentBefore /\ ReadWithin
-----------------------------------------------------------------------------
(* Sequences *)

LEMMA AppendFacts ==
  ASSUME NEW S, NEW s \in Seq(S), NEW x \in S
  PROVE  /\ Append(s, x) \in Seq(S) /\ Len(Append(s, x)) = Len(s) + 1 /\ Len(s) \in Nat
         /\ DOMAIN Append(s, x) = 1 .. Len(s) + 1
         /\ Append(s, x)[Len(s) + 1] = x
         /\ \A i \in 1 .. Len(s) : Append(s, x)[i] = s[i]
OBVIOUS

LEMMA ConcatAppend ==
  ASSUME NEW S, NEW s \in Seq(S), NEW t \in Seq(S), NEW x \in S
  PROVE  s \o Append(t, x) = Append(s \o t, x)
<1> DEFINE u == Append(t, x)
           v == s \o t
<1>1. /\ u \in Seq(S) /\ Len(u) = Len(t) + 1 /\ u[Len(t) + 1] = x
      /\ \A i \in 1 .. Len(t) : u[i] = t[i]
  BY AppendFacts
<1>2. /\ v \in Seq(S) /\ Len(v) = Len(s) + Len(t)
      /\ \A i \in 1 .. Len(s) : v[i] = s[i]
      /\ \A i \in Len(s) + 1 .. Len(s) + Len(t) : v[i] = t[i - Len(s)]
  BY ConcatFacts
<1> HIDE DEF u, v
<1>3. /\ s \o u \in Seq(S) /\ Len(s \o u) = Len(s) + Len(u)
      /\ \A i \in 1 .. Len(s) : (s \o u)[i] = s[i]
      /\ \A i \in Len(s) + 1 .. Len(s) + Len(u) : (s \o u)[i] = u[i - Len(s)]
  BY <1>1, ConcatFacts
<1>4. /\ Append(v, x) \in Seq(S) /\ Len(Append(v, x)) = Len(v) + 1
      /\ Append(v, x)[Len(v) + 1] = x /\ \A i \in 1 .. Len(v) : Append(v, x)[i] = v[i]
  BY <1>2, AppendFacts
<1>5. Len(s) \in Nat /\ Len(t) \in Nat
  OBVIOUS
<1>6. ASSUME NEW i \in Nat, 1 <= i, i <= Len(s) + Len(t) + 1
      PROVE  (s \o u)[i] = Append(v, x)[i]
  <2>1. CASE i <= Len(s)
    BY <1>1, <1>2, <1>3, <1>4, <1>5, <1>6, <2>1
  <2>2. CASE i > Len(s) /\ i <= Len(s) + Len(t)
    <3>1. i - Len(s) \in 1 .. Len(t) /\ i \in Len(s) + 1 .. Len(s) + Len(t) /\ i \in 1 .. Len(v)
          /\ i \in Len(s) + 1 .. Len(s) + Len(u)
      BY <1>1, <1>2, <1>5, <1>6, <2>2
    <3> QED
      BY <1>1, <1>2, <1>3, <1>4, <3>1
  <2>3. CASE i > Len(s) + Len(t)
    <3>1. i = Len(s) + Len(t) + 1 /\ i - Len(s) = Len(t) + 1 /\ i = Len(v) + 1
          /\ i \in Len(s) + 1 .. Len(s) + Len(u)
      BY <1>1, <1>2, <1>3, <1>5, <1>6, <2>3
    <3> QED
      BY <1>1, <1>3, <1>4, <3>1
  <2>4. i <= Len(s) \/ (i > Len(s) /\ i <= Len(s) + Len(t)) \/ i > Len(s) + Len(t)
    <3>1. PICK a \in Nat, b \in Nat : a = Len(s) /\ b = Len(t)
      BY <1>5
    <3>2. i <= a \/ (i > a /\ i <= a + b) \/ i > a + b
      OBVIOUS
    <3> QED
      BY <3>1, <3>2, Zenon
  <2> QED
    BY <2>1, <2>2, <2>3, <2>4, Zenon
<1>7. Len(s \o u) = Len(Append(v, x))
  BY <1>1, <1>2, <1>3, <1>4, <1>5
<1>8. s \o u = Append(v, x)
  <2>1. ASSUME NEW i \in 1 .. Len(s \o u) PROVE (s \o u)[i] = Append(v, x)[i]
    <3>1. PICK k \in Nat : k = Len(s \o u) /\ k = Len(s) + Len(t) + 1
      BY <1>1, <1>3, <1>5
    <3>2. i \in 1 .. k
      BY <3>1
    <3>3. i \in Nat /\ 1 <= i /\ i <= k
      BY <3>2
    <3> QED
      BY <1>6, <3>1, <3>3, Zenon
  <2> QED
    BY <1>3, <1>4, <1>7, <2>1, SeqEqual
<1> QED
  BY <1>8 DEF u, v

\* The first element of the second sequence becomes the last of the first one.
LEMMA ConcatShift ==
  ASSUME NEW S, NEW s \in Seq(S), NEW t \in Seq(S), t # <<>>
  PROVE  Append(s, t[1]) \o Tail(t) = s \o t
<1> DEFINE u == Append(s, t[1])
           v == Tail(t)
<1>1. /\ v \in Seq(S) /\ Len(v) = Len(t) - 1 /\ Len(t) >= 1 /\ t[1] \in S
      /\ \A i \in 1 .. Len(t) - 1 : v[i] = t[i + 1]
  BY PopFacts
<1>2. /\ u \in Seq(S) /\ Len(u) = Len(s) + 1 /\ u[Len(s) + 1] = t[1]
      /\ \A i \in 1 .. Len(s) : u[i] = s[i]
  BY <1>1, AppendFacts
<1> HIDE DEF u, v
<1>3. /\ u \o v \in Seq(S) /\ Len(u \o v) = Len(u) + Len(v)
      /\ \A i \in 1 .. Len(u) : (u \o v)[i] = u[i]
      /\ \A i \in Len(u) + 1 .. Len(u) + Len(v) : (u \o v)[i] = v[i - Len(u)]
  <2>1. u \in Seq(S) /\ v \in Seq(S)
    BY <1>1, <1>2
  <2> QED
    BY <2>1, ConcatFacts
<1>4. /\ s \o t \in Seq(S) /\ Len(s \o t) = Len(s) + Len(t)
      /\ \A i \in 1 .. Len(s) : (s \o t)[i] = s[i]
      /\ \A i \in Len(s) + 1 .. Len(s) + Len(t) : (s \o t)[i] = t[i - Len(s)]
  BY ConcatFacts
<1>5. Len(s) \in Nat /\ Len(t) \in Nat
  OBVIOUS
<1>6. ASSUME NEW i \in Nat, 1 <= i, i <= Len(s) + Len(t)
      PROVE  (u \o v)[i] = (s \o t)[i]
  <2>1. CASE i <= Len(s)
    BY <1>2, <1>3, <1>4, <1>5, <1>6, <2>1
  <2>2. CASE i = Len(s) + 1
    <3>1. i \in 1 .. Len(u) /\ i \in Len(s) + 1 .. Len(s) + Len(t) /\ i - Len(s) = 1
      BY <1>1, <1>2, <1>5, <1>6, <2>2
    <3> QED
      BY <1>2, <1>3, <1>4, <2>2, <3>1
  <2>3. CASE i > Len(s) + 1
    <3>1. /\ i \in Len(u) + 1 .. Len(u) + Len(v) /\ i \in Len(s) + 1 .. Len(s) + Len(t)
          /\ i - Len(u) \in 1 .. Len(t) - 1 /\ (i - Len(u)) + 1 = i - Len(s)
      BY <1>1, <1>2, <1>3, <1>5, <1>6, <2>3
    <3> QED
      BY <1>1, <1>3, <1>4, <3>1
  <2>4. i <= Len(s) \/ i = Len(s) + 1 \/ i > Len(s) + 1
    <3>1. PICK a \in Nat : a = Len(s)
      BY <1>5
    <3>2. i <= a \/ i = a + 1 \/ i > a + 1
      OBVIOUS
    <3> QED
      BY <3>1, <3>2, Zenon
  <2> QED
    BY <2>1, <2>2, <2>3, <2>4, Zenon
<1>7. Len(u \o v) = Len(s \o t)
  BY <1>1, <1>2, <1>3, <1>4, <1>5
<1>8. u \o v = s \o t
  <2>1. ASSUME NEW i \in 1 .. Len(u \o v) PROVE (u \o v)[i] = (s \o t)[i]
    <3>1. PICK k \in Nat : k = Len(u \o v) /\ k = Len(s) + Len(t)
      BY <1>4, <1>5, <1>7
    <3>2. i \in 1 .. k
      BY <3>1
    <3>3. i \in Nat /\ 1 <= i /\ i <= k
      BY <3>2
    <3> QED
      BY <1>6, <3>1, <3>3, Zenon
  <2> QED
    BY <1>3, <1>4, <1>7, <2>1, SeqEqual
<1> QED
  BY <1>8 DEF u, v

\* A sequence that is cut in two: an element is appended, or changes sides.
LEMMA CutAppend ==
  ASSUME NEW S, NEW s \in Seq(S), NEW x \in S, NEW n \in 0 .. Len(s)
  PROVE  /\ SubSeq(Append(s, x), 1, n) = SubSeq(s, 1, n)
         /\ SubSeq(Append(s, x), n + 1, Len(Append(s, x))) =
              Append(SubSeq(s, n + 1, Len(s)), x)
<1> DEFINE t == Append(s, x)
<1>1. /\ t \in Seq(S) /\ Len(t) = Len(s) + 1 /\ Len(s) \in Nat /\ t[Len(s) + 1] = x
      /\ \A i \in 1 .. Len(s) : t[i] = s[i]
  BY AppendFacts
<1> HIDE DEF t
<1>2. \A i \in 1 .. Len(s) : s[i] \in S
  OBVIOUS
<1>3. \A i \in 1 .. Len(t) : t[i] \in S
  BY <1>1
<1>4. SubSeq(t, 1, n) = SubSeq(s, 1, n)
  <2>1. /\ SubSeq(s, 1, n) \in Seq(S) /\ Len(SubSeq(s, 1, n)) = n
        /\ \A i \in 1 .. n : SubSeq(s, 1, n)[i] = s[i]
    BY <1>1, <1>2
  <2>2. /\ SubSeq(t, 1, n) \in Seq(S) /\ Len(SubSeq(t, 1, n)) = n
        /\ \A i \in 1 .. n : SubSeq(t, 1, n)[i] = t[i]
    BY <1>1, <1>3
  <2>3. \A i \in 1 .. n : t[i] = s[i]
    BY <1>1
  <2> QED
    BY <2>1, <2>2, <2>3, SeqEqual
<1>5. SubSeq(t, n + 1, Len(t)) = Append(SubSeq(s, n + 1, Len(s)), x)
  <2> DEFINE a == SubSeq(s, n + 1, Len(s))
             b == SubSeq(t, n + 1, Len(t))
  <2>1. /\ a \in Seq(S) /\ Len(a) = Len(s) - n
        /\ \A i \in 1 .. Len(s) - n : a[i] = s[n + i]
    BY <1>1, <1>2
  <2>2. /\ b \in Seq(S) /\ Len(b) = Len(s) + 1 - n
        /\ \A i \in 1 .. Len(s) + 1 - n : b[i] = t[n + i]
    BY <1>1, <1>3
  <2> HIDE DEF a, b
  <2>3. /\ Append(a, x) \in Seq(S) /\ Len(Append(a, x)) = Len(s) - n + 1
        /\ Append(a, x)[Len(s) - n + 1] = x
        /\ \A i \in 1 .. Len(s) - n : Append(a, x)[i] = a[i]
    BY <2>1, AppendFacts
  <2>4. ASSUME NEW i \in Nat, 1 <= i, i <= Len(s) + 1 - n PROVE b[i] = Append(a, x)[i]
    <3>1. CASE i <= Len(s) - n
      <4>1. i \in 1 .. Len(s) - n /\ n + i \in 1 .. Len(s)
        BY <1>1, <2>4, <3>1
      <4>2. b[i] = t[n + i] /\ a[i] = s[n + i] /\ Append(a, x)[i] = a[i]
        BY <2>1, <2>2, <2>3, <2>4, <4>1
      <4> QED
        BY <1>1, <4>1, <4>2
    <3>2. CASE i > Len(s) - n
      <4>1. i = Len(s) - n + 1 /\ n + i = Len(s) + 1
        BY <1>1, <2>4, <3>2
      <4> QED
        BY <1>1, <2>2, <2>3, <4>1
    <3>3. i <= Len(s) - n \/ i > Len(s) - n
      <4>1. PICK k \in Int : k = Len(s) - n
        BY <1>1
      <4>2. i <= k \/ i > k
        OBVIOUS
      <4> QED
        BY <4>1, <4>2, Zenon
    <3> QED
      BY <3>1, <3>2, <3>3, Zenon
  <2>5. b = Append(a, x)
    <3>1. Len(b) = Len(Append(a, x)) /\ Len(b) = Len(s) + 1 - n
      BY <1>1, <2>2, <2>3
    <3> QED
      BY <2>2, <2>3, <2>4, <3>1, SeqEqual
  <2> QED
    BY <2>5 DEF a, b
<1> QED
  BY <1>4, <1>5 DEF t

LEMMA CutMoves ==
  ASSUME NEW S, NEW s \in Seq(S), NEW n \in 0 .. Len(s) - 1
  PROVE  /\ SubSeq(s, n + 1, Len(s)) # <<>>
         /\ SubSeq(s, (n + 1) + 1, Len(s)) = Tail(SubSeq(s, n + 1, Len(s)))
         /\ SubSeq(s, 1, n + 1) = Append(SubSeq(s, 1, n), Head(SubSeq(s, n + 1, Len(s))))
<1>1. Len(s) \in Nat /\ n + 1 \in 1 .. Len(s) /\ Len(s) \in (n + 1) .. Len(s)
      /\ \A i \in 1 .. Len(s) : s[i] \in S
  OBVIOUS
<1>2. /\ Head(SubSeq(s, n + 1, Len(s))) = s[n + 1]
      /\ Tail(SubSeq(s, n + 1, Len(s))) = SubSeq(s, (n + 1) + 1, Len(s))
  BY <1>1, HeadTailOfSubSeq
<1>3. SubSeq(s, n + 1, Len(s)) # <<>>
  <2>1. Len(SubSeq(s, n + 1, Len(s))) = Len(s) - n /\ Len(s) - n # 0
    BY <1>1
  <2>2. Len(<<>>) = 0
    OBVIOUS
  <2> QED
    BY <2>1, <2>2, Zenon
<1>4. SubSeq(s, 1, n + 1) = Append(SubSeq(s, 1, n), s[n + 1])
  <2> DEFINE a == SubSeq(s, 1, n)
             b == SubSeq(s, 1, n + 1)
  <2>1. /\ a \in Seq(S) /\ Len(a) = n /\ \A i \in 1 .. n : a[i] = s[i]
    BY <1>1
  <2>2. /\ b \in Seq(S) /\ Len(b) = n + 1 /\ \A i \in 1 .. n + 1 : b[i] = s[i]
    BY <1>1
  <2> HIDE DEF a, b
  <2>3. /\ Append(a, s[n + 1]) \in Seq(S) /\ Len(Append(a, s[n + 1])) = n + 1
        /\ Append(a, s[n + 1])[n + 1] = s[n + 1]
        /\ \A i \in 1 .. n : Append(a, s[n + 1])[i] = a[i]
    BY <1>1, <2>1, AppendFacts
  <2>4. \A i \in 1 .. n + 1 : b[i] = Append(a, s[n + 1])[i]
    BY <1>1, <2>1, <2>2, <2>3
  <2>5. b = Append(a, s[n + 1])
    BY <2>2, <2>3, <2>4, SeqEqual
  <2> QED
    BY <2>5 DEF a, b
<1> QED
  BY <1>2, <1>3, <1>4
-----------------------------------------------------------------------------
(* The packets of a pipe and of a queue *)

Ids == 1 .. MaxPackets

LEMMA WholeFacts ==
  ASSUME NEW sent \in Seq(Unit)
  PROVE  /\ WholeIn(sent) \in Seq(Ids) /\ Len(WholeIn(sent)) = Len(sent) \div Units
         /\ Len(sent) \div Units \in Nat
         /\ \A k \in 1 .. Len(sent) \div Units :
              k * Units \in 1 .. Len(sent) /\ WholeIn(sent)[k] = sent[k * Units][1]
<1>1. PICK L \in Nat : L = Len(sent)
  OBVIOUS
<1>2. PICK w : w = L \div Units
  OBVIOUS
<1>3. w \in Nat /\ \A k \in 1 .. w : k * Units \in 1 .. L
  <2>1. w \in Nat
    BY <1>1, <1>2, ModFacts, ModuleLinkAssumption
  <2>2. \A k \in 1 .. L \div Units : k * Units \in 1 .. L
    BY <1>1, DivMultiple, ModuleLinkAssumption, Zenon
  <2> QED
    BY <1>2, <2>1, <2>2
<1>4. \A i \in 1 .. L : sent[i] \in Unit /\ sent[i][1] \in Ids
  BY <1>1 DEF Unit, Ids
<1>5. /\ WholeIn(sent) \in [1 .. w -> Ids]
      /\ \A k \in 1 .. w : WholeIn(sent)[k] = sent[k * Units][1]
  BY <1>1, <1>2, <1>3, <1>4 DEF WholeIn
<1>6. WholeIn(sent) \in Seq(Ids) /\ Len(WholeIn(sent)) = w
  BY <1>3, <1>5, RowFacts
<1> QED
  BY <1>1, <1>2, <1>3, <1>5, <1>6

LEMMA IdsFacts ==
  ASSUME NEW q \in Seq(Queued)
  PROVE  /\ IdsOf(q) \in Seq(Ids) /\ Len(IdsOf(q)) = Len(q) /\ Len(q) \in Nat
         /\ \A i \in 1 .. Len(q) : IdsOf(q)[i] = q[i].id
<1>1. Len(q) \in Nat /\ DOMAIN q = 1 .. Len(q)
  OBVIOUS
<1>2. \A i \in DOMAIN q : q[i] \in Queued /\ q[i].id \in Ids
  <2>1. \A i \in DOMAIN q : q[i] \in Queued
    OBVIOUS
  <2>2. \A e \in Queued : e.id \in Ids
    BY DEF Queued, Ids
  <2> QED
    BY <2>1, <2>2
<1>3. IdsOf(q) \in [1 .. Len(q) -> Ids] /\ \A i \in 1 .. Len(q) : IdsOf(q)[i] = q[i].id
  BY <1>1, <1>2 DEF IdsOf
<1> QED
  BY <1>1, <1>3, RowFacts

LEMMA SentFacts ==
  ASSUME NEW sent \in Seq(Unit), NEW q \in Seq(Queued)
  PROVE  SentOf(sent, q) \in Seq(Ids) /\ Len(sent) \div Units <= Len(SentOf(sent, q))
<1>1. /\ SentOf(sent, q) \in Seq(Ids)
      /\ Len(SentOf(sent, q)) = Len(WholeIn(sent)) + Len(IdsOf(q))
  BY WholeFacts, IdsFacts, ConcatFacts DEF SentOf
<1> QED
  BY <1>1, WholeFacts, IdsFacts

\* PositiveWrite: the packet comes after all that were sent before.
LEMMA SentAppends ==
  ASSUME NEW sent \in Seq(Unit), NEW q \in Seq(Queued), NEW e \in Queued
  PROVE  SentOf(sent, Append(q, e)) = Append(SentOf(sent, q), e.id)
<1>1. e.id \in Ids
  BY DEF Queued, Ids
<1>2. /\ Append(q, e) \in Seq(Queued) /\ Len(Append(q, e)) = Len(q) + 1
      /\ Append(q, e)[Len(q) + 1] = e /\ Len(q) \in Nat
      /\ \A i \in 1 .. Len(q) : Append(q, e)[i] = q[i]
  BY AppendFacts
<1> DEFINE a == IdsOf(Append(q, e))
           b == IdsOf(q)
<1>3. /\ a \in Seq(Ids) /\ Len(a) = Len(q) + 1
      /\ \A i \in 1 .. Len(q) + 1 : a[i] = Append(q, e)[i].id
  BY <1>2, IdsFacts
<1>4. b \in Seq(Ids) /\ Len(b) = Len(q) /\ \A i \in 1 .. Len(q) : b[i] = q[i].id
  BY IdsFacts
<1> HIDE DEF a, b
<1>5. /\ Append(b, e.id) \in Seq(Ids) /\ Len(Append(b, e.id)) = Len(q) + 1
      /\ Append(b, e.id)[Len(q) + 1] = e.id
      /\ \A i \in 1 .. Len(q) : Append(b, e.id)[i] = b[i]
  BY <1>1, <1>4, AppendFacts
<1>6. \A i \in 1 .. Len(a) : a[i] = Append(b, e.id)[i]
  BY <1>2, <1>3, <1>4, <1>5
<1>7. a = Append(b, e.id)
  BY <1>3, <1>5, <1>6, SeqEqual
<1>8. WholeIn(sent) \o Append(b, e.id) = Append(WholeIn(sent) \o b, e.id)
  BY <1>1, <1>4, WholeFacts, ConcatAppend
<1> QED
  BY <1>7, <1>8 DEF SentOf, a, b

\* FlushMessageQueue writes what was sent, and in the order in which it was.
LEMMA SentWritten ==
  ASSUME NEW sent \in Seq(Unit), NEW q \in Seq(Queued), StreamOf(sent, q), q # <<>>,
         NEW n \in 1 .. Units - q[1].done,
         NEW more, more = sent \o Row(q[1].id, q[1].done, n)
  PROVE  SentOf(more, Written(q, n)) = SentOf(sent, q)
<1>1. /\ more \in Seq(Unit) /\ Written(q, n) \in Seq(Queued)
  BY StreamWrite
<1>2. /\ Len(q) >= 1 /\ Len(q) \in Nat /\ q[1] \in Queued /\ Units \in Nat \ {0}
      /\ DOMAIN q = 1 .. Len(q)
  BY ModuleLinkAssumption
<1>3. PICK id \in Ids, d \in 0 .. Units - 1 : id = q[1].id /\ d = q[1].done
  BY <1>2 DEF Queued, Ids
<1>4. PICK L \in Nat : L = Len(sent) /\ L % Units = d
  BY <1>3 DEF StreamOf
<1>5. n \in Nat /\ n >= 1 /\ d + n <= Units
  BY <1>2, <1>3
<1>6. /\ Len(more) = L + n /\ more[L + n][1] = id
      /\ \A i \in 1 .. L : more[i] = sent[i]
  <2> DEFINE new == Row(id, d, n)
  <2>1. more = sent \o new
    BY <1>3
  <2>2. new \in Seq(Unit) /\ Len(new) = n /\ \A i \in 1 .. n : new[i] = <<id, d + i>>
    <3>1. \A i \in 1 .. n : <<id, d + i>> \in Unit
      <4>1. \A i \in 1 .. n : d + i \in 1 .. Units
        BY <1>2, <1>3, <1>5
      <4>2. id \in 1 .. MaxPackets
        BY <1>3 DEF Ids
      <4> QED
        BY <4>1, <4>2 DEF Unit
    <3>2. new \in [1 .. n -> Unit] /\ \A i \in 1 .. n : new[i] = <<id, d + i>>
      BY <3>1 DEF Row
    <3> QED
      BY <1>5, <3>2, RowFacts
  <2> HIDE DEF new
  <2>3. /\ Len(sent \o new) = Len(sent) + Len(new)
        /\ \A i \in 1 .. Len(sent) : (sent \o new)[i] = sent[i]
        /\ \A i \in Len(sent) + 1 .. Len(sent) + Len(new) :
             (sent \o new)[i] = new[i - Len(sent)]
    BY <2>2, ConcatFacts
  <2>4. L + n \in L + 1 .. L + n /\ (L + n) - L = n /\ n \in 1 .. n
    BY <1>4, <1>5
  <2>5. more[L + n] = <<id, d + n>>
    BY <1>4, <2>1, <2>2, <2>3, <2>4
  <2>6. more[L + n][1] = id
    BY <2>5
  <2> QED
    BY <1>4, <2>1, <2>2, <2>3, <2>6
<1>7. PICK w \in Nat : w = L \div Units
  BY <1>2, <1>4, ModFacts
<1>7a. /\ (L % Units) + n < Units => (L + n) \div Units = L \div Units
       /\ (L % Units) + n = Units =>
            (L + n) \div Units = (L \div Units) + 1 /\ L + n = ((L \div Units) + 1) * Units
  <2>1. Units \in Nat \ {0} /\ L \in Nat /\ n \in Nat
    BY <1>2, <1>5
  <2> QED
    BY <2>1, DivAdd, Zenon
<1> DEFINE a == WholeIn(sent)
           b == WholeIn(more)
<1>8. /\ a \in Seq(Ids) /\ Len(a) = w
      /\ \A k \in 1 .. w : k * Units \in 1 .. L /\ a[k] = sent[k * Units][1]
  BY <1>4, <1>7, WholeFacts
<1>9. /\ b \in Seq(Ids) /\ Len(b) = (L + n) \div Units
      /\ \A k \in 1 .. (L + n) \div Units : b[k] = more[k * Units][1]
  BY <1>1, <1>6, WholeFacts
<1> HIDE DEF a, b
<1>10. CASE d + n = Units
  <2>1. Written(q, n) = Tail(q)
    BY <1>3, <1>10 DEF Written
  <2>2. (L + n) \div Units = w + 1 /\ L + n = (w + 1) * Units
    <3>1. (L % Units) + n = Units
      BY <1>4, <1>10
    <3> QED
      BY <1>7, <1>7a, <3>1, Zenon
  <2>3. /\ Append(a, id) \in Seq(Ids) /\ Len(Append(a, id)) = w + 1
        /\ Append(a, id)[w + 1] = id /\ \A k \in 1 .. w : Append(a, id)[k] = a[k]
    <3>1. a \in Seq(Ids) /\ Len(a) = w /\ id \in Ids
      BY <1>3, <1>8
    <3> QED
      BY <3>1, AppendFacts
  <2>4. \A k \in 1 .. w : b[k] = a[k]
    <3> SUFFICES ASSUME NEW k \in 1 .. w PROVE b[k] = a[k]
      OBVIOUS
    <3>1. k * Units \in 1 .. L /\ a[k] = sent[k * Units][1]
      BY <1>8
    <3>2. k \in 1 .. (L + n) \div Units
      BY <2>2
    <3>3. b[k] = more[k * Units][1]
      BY <1>9, <3>2
    <3> QED
      BY <1>6, <3>1, <3>3
  <2>5. b[w + 1] = id
    <3>1. w + 1 \in 1 .. (L + n) \div Units
      BY <2>2
    <3>2. b[w + 1] = more[(w + 1) * Units][1]
      BY <1>9, <3>1
    <3> QED
      BY <1>6, <2>2, <3>2
  <2>6. \A k \in 1 .. Len(b) : b[k] = Append(a, id)[k]
    BY <1>9, <2>2, <2>3, <2>4, <2>5
  <2>7. b = Append(a, id)
    <3>1. Len(b) = Len(Append(a, id))
      BY <1>9, <2>2, <2>3
    <3> QED
      BY <1>9, <2>3, <2>6, <3>1, SeqEqual
  <2>8. IdsOf(q)[1] = id /\ IdsOf(q) # <<>> /\ IdsOf(q) \in Seq(Ids)
    BY <1>2, <1>3, IdsFacts
  <2>9. IdsOf(Tail(q)) = Tail(IdsOf(q))
    <3>1. /\ Tail(q) \in Seq(Queued) /\ Len(Tail(q)) = Len(q) - 1
          /\ \A i \in 1 .. Len(q) - 1 : Tail(q)[i] = q[i + 1]
      BY PopFacts
    <3>2. /\ IdsOf(Tail(q)) \in Seq(Ids) /\ Len(IdsOf(Tail(q))) = Len(q) - 1
          /\ \A i \in 1 .. Len(q) - 1 : IdsOf(Tail(q))[i] = Tail(q)[i].id
      BY <3>1, IdsFacts
    <3>3. Len(IdsOf(q)) = Len(q) /\ \A i \in 1 .. Len(q) : IdsOf(q)[i] = q[i].id
      BY IdsFacts
    <3>4. /\ Tail(IdsOf(q)) \in Seq(Ids) /\ Len(Tail(IdsOf(q))) = Len(q) - 1
          /\ \A i \in 1 .. Len(q) - 1 : Tail(IdsOf(q))[i] = IdsOf(q)[i + 1]
      BY <2>8, <3>3, PopFacts
    <3>5. \A i \in 1 .. Len(q) - 1 : IdsOf(Tail(q))[i] = Tail(IdsOf(q))[i]
      <4> SUFFICES ASSUME NEW i \in 1 .. Len(q) - 1
                   PROVE  IdsOf(Tail(q))[i] = Tail(IdsOf(q))[i]
        OBVIOUS
      <4>1. i + 1 \in 1 .. Len(q)
        BY <1>2
      <4> QED
        BY <3>1, <3>2, <3>3, <3>4, <4>1
    <3> QED
      BY <3>2, <3>4, <3>5, SeqEqual
  <2>10. Append(a, id) \o Tail(IdsOf(q)) = a \o IdsOf(q)
    BY <1>8, <2>8, ConcatShift
  <2> QED
    BY <2>1, <2>7, <2>9, <2>10 DEF SentOf, a, b
<1>11. CASE d + n # Units
  <2>1. (L + n) \div Units = w
    <3>1. (L % Units) + n < Units
      <4>1. d \in Int /\ n \in Int /\ Units \in Int /\ d + n <= Units
        BY <1>2, <1>3, <1>5
      <4>2. d + n < Units
        BY <1>11, <4>1
      <4> QED
        BY <1>4, <4>2
    <3> QED
      BY <1>7, <1>7a, <3>1, Zenon
  <2>2. \A k \in 1 .. w : b[k] = a[k]
    BY <1>6, <1>8, <1>9, <2>1
  <2>3. b = a
    BY <1>8, <1>9, <2>1, <2>2, SeqEqual
  <2>4. IdsOf(Written(q, n)) = IdsOf(q)
    <3>1. PICK f : f = Written(q, n)
      OBVIOUS
    <3>2. f = [q EXCEPT ![1].done = d + n]
      BY <1>3, <1>11, <3>1 DEF Written
    <3>3. DOMAIN f = DOMAIN q /\ \A i \in DOMAIN q : f[i].id = q[i].id
      <4>1. PICK e : e = [q[1] EXCEPT !.done = d + n]
        OBVIOUS
      <4>2. e.id = q[1].id
        BY <1>2, <4>1 DEF Queued
      <4>3. f = [q EXCEPT ![1] = e]
        BY <3>2, <4>1
      <4> QED
        BY <1>2, <4>2, <4>3
    <3> QED
      BY <3>1, <3>3 DEF IdsOf
  <2> QED
    BY <2>3, <2>4 DEF SentOf, a, b
<1> QED
  BY <1>10, <1>11
-----------------------------------------------------------------------------
(* The order of the module list *)

LEMMA KillKeepsOrder ==
  ASSUME ListTypes, NEW S, Kill(S), NEW a, NEW b, Beyond(module_list', a, b)
  PROVE  Beyond(module_list, a, b)
<1> DEFINE K == DOMAIN module_list \ {i \in DOMAIN module_list : module_list[i] \in S}
           left == Subsequence(module_list, K)
<1>1. /\ DOMAIN module_list = 1 .. Len(module_list) /\ Len(module_list) \in Nat
      /\ K \in SUBSET (1 .. Len(module_list))
  BY DEF ListTypes
<1>2. module_list' = left
  BY DEF Kill
<1>3. DOMAIN left = 1 .. Cardinality(K)
  BY DEF Subsequence
<1>4. K \in SUBSET Nat /\ IsFiniteSet(K) /\ K \subseteq DOMAIN module_list
  BY <1>1, PositionsFinite
<1>5. PICK k, l \in 1 .. Cardinality(K) : k <= l /\ left[k] = a /\ left[l] = b
  BY <1>2, <1>3 DEF Beyond
<1> HIDE DEF K
<1>6. PICK i \in K : Rank(K, i) = k /\ left[k] = module_list[i]
  BY <1>4, SubsequenceAt
<1>7. PICK j \in K : Rank(K, j) = l /\ left[l] = module_list[j]
  BY <1>4, SubsequenceAt
<1>8. i <= j
  <2>1. i \in Nat /\ j \in Nat
    BY <1>4
  <2>2. ASSUME j < i PROVE FALSE
    <3>1. Rank(K, j) < Rank(K, i)
      BY <1>4, <2>2, RankMonotone
    <3>2. Rank(K, i) \in Nat /\ Rank(K, j) \in Nat
      BY <1>4, RankType
    <3> QED
      BY <1>5, <1>6, <1>7, <3>1, <3>2
  <2> QED
    BY <2>1, <2>2
<1> HIDE DEF left
<1> QED
  BY <1>4, <1>5, <1>6, <1>7, <1>8 DEF Beyond

\* Modules are started at the front of the list.
LEMMA FrontKeepsOrder ==
  ASSUME ListTypes, NEW m \in Modules, module_list' = <<m>> \o module_list,
         NEW a, NEW b, a # m, Beyond(module_list', a, b)
  PROVE  Beyond(module_list, a, b)
<1>1. /\ DOMAIN module_list' = 1 .. Len(module_list) + 1 /\ Len(module_list) \in Nat
      /\ module_list'[1] = m
      /\ \A i \in 2 .. Len(module_list) + 1 :
           i - 1 \in DOMAIN module_list /\ module_list'[i] = module_list[i - 1]
  BY PushFacts DEF ListTypes
<1>2. PICK i, j \in DOMAIN module_list' : i <= j /\ module_list'[i] = a /\ module_list'[j] = b
  BY DEF Beyond
<1>3. i \in 2 .. Len(module_list) + 1 /\ j \in 2 .. Len(module_list) + 1 /\ i - 1 <= j - 1
  BY <1>1, <1>2
<1> QED
  BY <1>1, <1>2, <1>3 DEF Beyond

LEMMA ListChange ==
  ASSUME Next
  PROVE  \/ module_list' = module_list
         \/ \E S : Kill(S)
         \/ \E m \in Modules : ~Started(m) /\ module_list' = <<m>> \o module_list
<1>1. CASE Loops
  BY <1>1 DEF Loops, LoopEnds, LoopEvent, LoopReturn, LoopIdle, LoopSelect, LoopTerminated,
              LoopTimeout, InputNext, InputEnd, ExecNext, ExecEnd, WaitDone, Cleanup, Receive,
              listVars
<1>2. CASE Commands
  BY <1>2 DEF Commands, CmdModule, CmdKillModule, CmdBroadcast, CmdSendToModule, CmdReply,
              CmdSetMask, CmdFlushAll, MyXGrabServer, MyXUngrabServer, CmdWait, CmdReturn,
              Started, listVars
<1>3. CASE Calls
  BY <1>3 DEF Calls, EachNext, EachEnd, FlushWrite, FlushFails, FlushEnd, AnswerOrInput,
              PwTimeout, SyncFlush, SyncGivesUp, AnswerTerminated, Receive, listVars
<1>4. CASE Dangling \/ Processes \/ Terminate
  BY <1>4 DEF Dangling, Processes, Terminate, ModuleReads, ModuleSends, ModuleExits, listVars
<1> QED
  BY <1>1, <1>2, <1>3, <1>4 DEF Next

\* What is beyond a module that was started was so before.
LEMMA OrderKept ==
  ASSUME IInv, Next, NEW a, Started(a), NEW b, Beyond(module_list', a, b)
  PROVE  Beyond(module_list, a, b)
<1>1. ListTypes
  BY DEF IInv
<1>2. CASE module_list' = module_list
  BY <1>2
<1>3. ASSUME NEW S, Kill(S) PROVE Beyond(module_list, a, b)
  BY <1>1, <1>3, KillKeepsOrder
<1>4. ASSUME NEW m \in Modules, ~Started(m), module_list' = <<m>> \o module_list
      PROVE  Beyond(module_list, a, b)
  BY <1>1, <1>4, FrontKeepsOrder
<1> QED
  BY <1>2, <1>3, <1>4, ListChange

\* The next store of an iterator is beyond its store.
LEMMA NextBeyond ==
  ASSUME ListTypes, Distinct(module_list), NEW m \in ToSet(module_list)
  PROVE  /\ ItrNext(m) # Nil => ItrNext(m) \in ToSet(module_list)
         /\ \A b : Beyond(module_list, ItrNext(m), b) => b # m /\ Beyond(module_list, m, b)
         /\ Beyond(module_list, m, m)
<1>1. /\ DOMAIN module_list = 1 .. Len(module_list) /\ Len(module_list) \in Nat
      /\ \A i \in DOMAIN module_list : module_list[i] \in Modules
  BY DEF ListTypes
<1> DEFINE i == CHOOSE i \in DOMAIN module_list : module_list[i] = m
<1>2. i \in DOMAIN module_list /\ module_list[i] = m
  BY DEF ToSet
<1>3. ItrNext(m) = IF i = Len(module_list) THEN Nil ELSE module_list[i + 1]
  BY DEF ItrNext
<1> HIDE DEF i
<1>4. Beyond(module_list, m, m)
  BY <1>1, <1>2 DEF Beyond
<1>5. CASE i = Len(module_list)
  <2>1. ItrNext(m) = Nil /\ Nil \notin Modules
    BY <1>3, <1>5, ModuleLinkAssumption
  <2> QED
    BY <1>1, <1>4, <2>1 DEF Beyond
<1>6. CASE i # Len(module_list)
  <2>1. i + 1 \in DOMAIN module_list /\ ItrNext(m) = module_list[i + 1]
    BY <1>1, <1>2, <1>3, <1>6
  <2>2. ASSUME NEW b, Beyond(module_list, ItrNext(m), b)
        PROVE  b # m /\ Beyond(module_list, m, b)
    <3>1. PICK k, l \in DOMAIN module_list :
            k <= l /\ module_list[k] = ItrNext(m) /\ module_list[l] = b
      BY <2>2 DEF Beyond
    <3>2. k = i + 1
      BY <2>1, <3>1 DEF Distinct
    <3>3. i <= l /\ i # l
      BY <1>1, <1>2, <3>1, <3>2
    <3>4. b # m
      BY <1>2, <3>1, <3>3 DEF Distinct
    <3> QED
      BY <1>2, <3>1, <3>3, <3>4 DEF Beyond
  <2> QED
    BY <1>4, <2>1, <2>2 DEF ToSet
<1> QED
  BY <1>5, <1>6
-----------------------------------------------------------------------------
(* What a step sends *)

NothingSent == \A m \in Modules : SentTo(m)' = SentTo(m)

SentNow(m, p) ==
  /\ SentTo(m)' = Append(SentTo(m), p)
  /\ \A n \in Modules : n # m => SentTo(n)' = SentTo(n)

LEMMA SentTypes ==
  ASSUME IInv, CInv, NEW m \in Modules
  PROVE  /\ wire[m].sent \in Seq(Unit) /\ fmod[m].queue \in Seq(Queued)
         /\ SentTo(m) \in Seq(Ids) /\ ReadBy(m) \in 0 .. Len(SentTo(m))
<1>1. fmod[m] \in FmodType /\ wire[m] \in WireType
  BY DEF IInv, LinkTypes
<1>2. wire[m].sent \in Seq(Unit) /\ fmod[m].queue \in Seq(Queued)
  BY <1>1 DEF FmodType, WireType, Unit
<1>3. PICK r, L \in Nat : r = wire[m].read /\ L = Len(wire[m].sent) /\ r <= L
  BY <1>1, <1>2 DEF WireType, CInv, ReadWithin
<1>4. /\ SentTo(m) \in Seq(Ids) /\ Len(SentTo(m)) \in Nat
      /\ Len(wire[m].sent) \div Units <= Len(SentTo(m))
  BY <1>2, SentFacts DEF SentTo
<1>5. r \div Units <= L \div Units /\ r \div Units \in Nat /\ L \div Units \in Nat
  BY <1>3, DivMonotone, ModFacts, ModuleLinkAssumption
<1>6. r \div Units \in 0 .. Len(SentTo(m))
  BY <1>3, <1>4, <1>5
<1> QED
  BY <1>2, <1>3, <1>4, <1>6 DEF ReadBy

LEMMA PositiveWriteSends ==
  ASSUME IInv, CInv, NEW m \in Modules, NEW msg \in Message, NEW rest,
         PositiveWrite(m, msg, rest)
  PROVE  wire' = wire /\ (NothingSent \/ SentNow(m, msg.id))
<1>1. CASE UNCHANGED linkVars
  BY <1>1 DEF linkVars, NothingSent, SentTo
<1>2. CASE ~UNCHANGED linkVars
  <2>1. /\ fmod' = [fmod EXCEPT ![m].queue = Append(@, Packet(msg))] /\ wire' = wire
    BY <1>2 DEF PositiveWrite, Packet
  <2>2. Packet(msg) \in Queued /\ Packet(msg).id = msg.id
    BY ModuleLinkAssumption DEF Packet, Queued, Message
  <2>3. /\ fmod'[m].queue = Append(fmod[m].queue, Packet(msg))
        /\ \A n \in Modules : n # m => fmod'[n] = fmod[n]
    BY <2>1 DEF IInv, LinkTypes, FmodType
  <2>4. SentTo(m)' = Append(SentTo(m), msg.id)
    <3>1. PICK u, q : u = wire[m].sent /\ q = fmod[m].queue
      OBVIOUS
    <3>2. u \in Seq(Unit) /\ q \in Seq(Queued)
      BY <3>1, SentTypes
    <3>3. SentOf(u, Append(q, Packet(msg))) = Append(SentOf(u, q), Packet(msg).id)
      BY <2>2, <3>2, SentAppends
    <3> QED
      BY <2>1, <2>2, <2>3, <3>1, <3>3 DEF SentTo
  <2>5. \A n \in Modules : n # m => SentTo(n)' = SentTo(n)
    BY <2>1, <2>3 DEF SentTo
  <2> QED
    BY <2>1, <2>4, <2>5 DEF SentNow
<1> QED
  BY <1>1, <1>2 DEF linkVars

LEMMA FlushWriteSends ==
  ASSUME IInv, CInv, FlushWrite
  PROVE  /\ NothingSent
         /\ \A m \in Modules :
              /\ wire'[m].read = wire[m].read
              /\ Len(wire'[m].sent) \in Nat /\ Len(wire'[m].sent) >= Len(wire[m].sent)
<1>0. PICK m : m = Top.mod
  OBVIOUS
<1> DEFINE q == fmod[m].queue
           u == wire[m].sent
<1>1. Running /\ Top.at = "flush" /\ q # <<>>
  BY <1>0 DEF FlushWrite, Runs
<1>2. PICK n \in 1 .. Units - fmod[Top.mod].queue[1].done :
        /\ fmod' = [fmod EXCEPT ![Top.mod].queue = Written(fmod[Top.mod].queue, n)]
        /\ wire' = [wire EXCEPT ![Top.mod].sent = @ \o
                      [i \in 1 .. n |-> <<fmod[Top.mod].queue[1].id,
                                           fmod[Top.mod].queue[1].done + i>>]]
  BY Zenon DEF FlushWrite
<1>3. m \in Modules
  BY <1>0, <1>1, TopFacts
<1>4. fmod \in [Modules -> FmodType] /\ wire \in [Modules -> WireType]
  BY DEF IInv, LinkTypes
<1>5. PICK more : more = u \o Row(q[1].id, q[1].done, n)
  OBVIOUS
<1>5a. /\ n \in 1 .. Units - q[1].done
      /\ fmod' = [fmod EXCEPT ![m].queue = Written(q, n)]
      /\ wire' = [wire EXCEPT ![m].sent = @ \o [i \in 1 .. n |-> <<q[1].id, q[1].done + i>>]]
  <2>1. n \in 1 .. Units - q[1].done
    BY <1>0
  <2>2. fmod' = [fmod EXCEPT ![m].queue = Written(q, n)]
    BY <1>0, <1>2
  <2>3. wire' = [wire EXCEPT ![m].sent = @ \o [i \in 1 .. n |-> <<q[1].id, q[1].done + i>>]]
    BY <1>0, <1>2
  <2> QED
    BY <2>1, <2>2, <2>3
<1>6. u \in Seq(Unit) /\ q \in Seq(Queued) /\ StreamOf(u, q)
  BY <1>3, SentTypes DEF IInv, Stream
<1>7. /\ fmod'[m].queue = Written(q, n) /\ wire'[m].sent = more /\ wire'[m].read = wire[m].read
      /\ \A k \in Modules : k # m => fmod'[k] = fmod[k] /\ wire'[k] = wire[k]
  BY <1>5a, <1>3, <1>4, <1>5 DEF FmodType, WireType, Row
<1> HIDE DEF q, u
<1>8. SentOf(more, Written(q, n)) = SentOf(u, q) /\ more \in Seq(Unit)
  BY <1>1, <1>5a, <1>5, <1>6, SentWritten, StreamWrite
<1>9. Len(more) >= Len(u) /\ Len(more) \in Nat
  <2>1. q[1] \in Queued /\ n \in Nat
    <3>1. 1 \in DOMAIN q
      BY <1>1, <1>6
    <3>2. q[1] \in Queued /\ Units \in Nat
      BY <1>6, <3>1, ModuleLinkAssumption
    <3> QED
      BY <1>5a, <3>2 DEF Queued
  <2>2. PICK row : row = Row(q[1].id, q[1].done, n)
    OBVIOUS
  <2>3. row \in Seq(Nat \X Int)
    <3>1. \A i \in 1 .. n : <<q[1].id, q[1].done + i>> \in Nat \X Int
      BY <1>5a, <2>1, ModuleLinkAssumption, SMTT(40) DEF Queued
    <3> QED
      BY <2>1, <2>2, <3>1, RowFacts DEF Row
  <2>4. u \in Seq(Nat \X Int)
    <3>1. \A i \in DOMAIN u : u[i] \in Nat \X Int
      BY <1>6, ModuleLinkAssumption DEF Unit
    <3> QED
      BY <1>6, <3>1, Retyped
  <2>5. Len(more) = Len(u) + Len(row)
    BY <1>5, <2>2, <2>3, <2>4, ConcatFacts
  <2> QED
    BY <1>6, <2>3, <2>5
<1>10. SentTo(m)' = SentTo(m) /\ \A k \in Modules : k # m => SentTo(k)' = SentTo(k)
  BY <1>7, <1>8 DEF SentTo, u, q
<1>11. \A k \in Modules : Len(wire[k].sent) \in Nat
  BY SentTypes
<1> QED
  BY <1>7, <1>9, <1>10, <1>11 DEF NothingSent, u

SameLinks ==
  \A m \in Modules :
    /\ wire'[m].sent = wire[m].sent /\ wire'[m].read = wire[m].read
    /\ fmod'[m].queue = fmod[m].queue

LEMMA ReceiveSends ==
  ASSUME IInv, NEW m \in Modules, Receive(m)
  PROVE  SameLinks
BY ZenonT(40) DEF Receive, SameLinks, IInv, LinkTypes, WireType

LEMMA CmdModuleSends ==
  ASSUME IInv, CInv, NEW m \in Modules, NEW listens \in BOOLEAN, NEW waits \in BOOLEAN,
         CmdModule(m, listens, waits)
  PROVE  SameLinks
<1>1. fmod \in [Modules -> FmodType] /\ wire \in [Modules -> WireType]
  BY DEF IInv, LinkTypes
<1>2. /\ ~Started(m) /\ wire' = [wire EXCEPT ![m] = On]
      /\ fmod' = [fmod EXCEPT ![m].writefd = ~listens]
  BY DEF CmdModule, Started
<1>3. wire[m].sent = <<>> /\ wire[m].read \in Nat /\ wire[m].read <= Len(wire[m].sent)
  BY <1>1, <1>2 DEF IInv, LinksStarted, CInv, ReadWithin, WireType
<1>4. wire[m].read = 0
  BY <1>3
<1>5. On.sent = <<>> /\ On.read = 0
  BY DEF On
<1>6. fmod'[m].queue = fmod[m].queue /\ \A n \in Modules : n # m => fmod'[n] = fmod[n]
  BY <1>1, <1>2 DEF FmodType
<1> QED
  BY <1>1, <1>2, <1>3, <1>4, <1>5, <1>6 DEF SameLinks

LEMMA CmdSetMaskSends ==
  ASSUME IInv, NEW which, NEW half, NEW types, CmdSetMask(which, half, types)
  PROVE  SameLinks
<1>1. fmod \in [Modules -> FmodType]
  BY DEF IInv, LinkTypes
<1>2. fmod' = [fmod EXCEPT ![Top.mod] = WithMask(@, which, half, types)] /\ wire' = wire
  BY DEF CmdSetMask
<1>3. ASSUME NEW m \in Modules PROVE WithMask(fmod[m], which, half, types).queue = fmod[m].queue
  BY <1>1 DEF WithMask, FmodType
<1> QED
  BY <1>1, <1>2, <1>3 DEF SameLinks

LEMMA ProcessSends ==
  ASSUME IInv, NEW m \in Modules,
         ModuleExits(m) \/ \E text \in Texts, last \in BOOLEAN : ModuleSends(m, text, last)
  PROVE  SameLinks
<1>1. wire \in [Modules -> WireType]
  BY DEF IInv, LinkTypes
<1>2. fmod' = fmod
  BY DEF ModuleExits, ModuleSends
<1>3. CASE ModuleExits(m)
  <2>1. wire' = [wire EXCEPT ![m].up = FALSE]
    BY <1>3 DEF ModuleExits
  <2> QED
    BY <1>1, <1>2, <2>1 DEF SameLinks, WireType
<1>4. CASE \E text \in Texts, last \in BOOLEAN : ModuleSends(m, text, last)
  <2>1. PICK q : wire' = [wire EXCEPT ![m].input = q]
    BY <1>4 DEF ModuleSends
  <2> QED
    BY <1>1, <1>2, <2>1 DEF SameLinks, WireType
<1> QED
  BY <1>3, <1>4

Sends ==
  \/ EachNext \/ FlushWrite
  \/ \E type \in Types, flushes \in BOOLEAN : CmdReply(type, flushes)
  \/ \E m \in Modules : ModuleReads(m)

LEMMA OthersSendNothing ==
  ASSUME IInv, CInv, Next, ~Sends
  PROVE  SameLinks
<1>1. UNCHANGED linkVars => SameLinks
  BY DEF linkVars, SameLinks
<1>2. CASE Loops
  <2>1. CASE InputNext
    <3>1. Top.itr \in ToSet(module_list) /\ (Receive(Top.itr) \/ UNCHANGED linkVars)
      BY <2>1 DEF InputNext
    <3> QED
      BY <1>1, <3>1, ListedStarted, ReceiveSends
  <2>2. CASE ~InputNext
    BY <1>1, <1>2, <2>2 DEF Loops, LoopEnds, LoopEvent, LoopReturn, LoopIdle, LoopSelect,
            LoopTerminated, LoopTimeout, InputEnd, ExecNext, ExecEnd, WaitDone
  <2> QED
    BY <2>1, <2>2
<1>3. CASE Commands
  <2>1. CASE \E m \in Modules, listens, waits \in BOOLEAN : CmdModule(m, listens, waits)
    BY <2>1, CmdModuleSends
  <2>2. CASE \E which \in Masks, half \in {Extended, Types \ Extended} :
               \E types \in SUBSET half : CmdSetMask(which, half, types)
    BY <2>2, CmdSetMaskSends
  <2>3. CASE \/ \E S \in SUBSET Modules : CmdKillModule(S)
             \/ \E type \in Types : CmdBroadcast(type)
             \/ \E type \in Types \ Extended, S \in SUBSET Modules : CmdSendToModule(type, S)
             \/ CmdFlushAll \/ MyXGrabServer \/ MyXUngrabServer \/ CmdWait \/ CmdReturn
    BY <1>1, <2>3 DEF CmdKillModule, CmdBroadcast, CmdSendToModule, CmdFlushAll,
                  MyXGrabServer, MyXUngrabServer, CmdWait, CmdReturn
  <2> QED
    BY <1>3, <2>1, <2>2, <2>3 DEF Commands, Sends
<1>4. CASE Calls
  <2>1. CASE AnswerOrInput
    <3>1. Running /\ Top.at \in {"pw", "sync"} /\ Receive(Top.mod)
      BY <2>1 DEF AnswerOrInput, Runs
    <3> QED
      BY <3>1, TopFacts, ReceiveSends
  <2>2. CASE EachEnd \/ FlushFails \/ FlushEnd \/ PwTimeout \/ SyncFlush \/ SyncGivesUp
             \/ AnswerTerminated
    BY <1>1, <2>2 DEF EachEnd, FlushFails, FlushEnd, PwTimeout, SyncFlush, SyncGivesUp,
                  AnswerTerminated
  <2> QED
    BY <1>4, <2>1, <2>2 DEF Calls, Sends
<1>5. CASE Dangling \/ Terminate
  BY <1>1, <1>5 DEF Dangling, Terminate
<1>6. CASE Processes
  BY <1>6, ProcessSends DEF Processes, Sends
<1> QED
  BY <1>2, <1>3, <1>4, <1>5, <1>6 DEF Next
-----------------------------------------------------------------------------
(* No packet is sent twice. *)

LEMMA SentAfter ==
  ASSUME IInv, CInv, NEW m \in Modules, NEW p \in Ids, SentNow(m, p),
         NEW n \in Modules, NEW r, SentIn(n, r)'
  PROVE  SentIn(n, r) \/ (n = m /\ r = p)
<1>1. CASE n = m
  <2>1. SentTo(m) \in Seq(Ids) /\ SentTo(m)' = Append(SentTo(m), p)
    BY SentTypes DEF SentNow
  <2>2. PICK s, t : s \in Seq(Ids) /\ s = SentTo(m) /\ t = SentTo(m)' /\ t = Append(s, p)
    BY <2>1
  <2>3. PICK i \in DOMAIN t : t[i] = r
    BY <1>1, <2>2 DEF SentIn
  <2>4. (i \in DOMAIN s /\ s[i] = r) \/ r = p
    BY <2>2, <2>3, AppendFacts
  <2> QED
    BY <1>1, <2>2, <2>4 DEF SentIn
<1>2. CASE n # m
  BY <1>2 DEF SentNow, SentIn
<1> QED
  BY <1>1, <1>2

LEMMA SendingFacts ==
  ASSUME IInv, NEW i \in DOMAIN stack, Sending(stack[i])
  PROVE  /\ stack[i] \in Frames /\ stack[i].msg \in Message /\ stack[i].msg.id \in Ids
         /\ stack[i].msg.id <= packets
BY DEF IInv, LoopTypes, SentLater, Sending, Frames, Frame, Message, Ids

\* A loop that has not reached some modules has not after a step that does not
\* send its packet to one of them.
LEMMA StillNotReached ==
  ASSUME IInv, Next, NEW f \in Frames, NotReached(f),
         \A m \in Modules :
           Beyond(module_list, f.itr, m) /\ SentIn(m, f.msg.id)' => SentIn(m, f.msg.id)
  PROVE  NotReached(f)'
<1>1. PICK a \in Pointers : a = f.itr
  BY DEF Frames, Frame
<1>2. a # Nil => a \in Modules /\ Started(a) /\ Started(a)'
  BY <1>1, LinkStep DEF NotReached, LinkEffect, Pointers
<1>3. ASSUME NEW m \in Modules, Beyond(module_list', a, m) PROVE Beyond(module_list, a, m)
  <2>1. a # Nil
    <3>1. module_list' \in Seq(Modules)
      BY ListStep DEF ListEffect, ListTypes
    <3>2. \A i \in DOMAIN module_list' : module_list'[i] \in Modules
      BY <3>1
    <3> QED
      BY <1>3, <3>2, ModuleLinkAssumption DEF Beyond
  <2> QED
    BY <1>2, <1>3, <2>1, OrderKept
<1>4. \A m \in Modules : Beyond(module_list', a, m) => ~SentIn(m, f.msg.id)'
  BY <1>1, <1>3 DEF NotReached
<1> QED
  BY <1>1, <1>2, <1>4 DEF NotReached

LEMMA GoesOnNotReached ==
  ASSUME IInv, CInv, Running, Top.at = "each", Top.itr \in ToSet(module_list), NEW f,
         f = [Top EXCEPT !.itr = ItrNext(Top.itr)], Sending(f)
  PROVE  /\ f.msg = Top.msg /\ f.itr = ItrNext(Top.itr) /\ Sending(Top) /\ NotReached(Top)
         /\ NotReached(f)
<1>1. Top \in Frame /\ 1 \in DOMAIN stack /\ Top = stack[1]
  BY TopFacts
<1>2. f.msg = Top.msg /\ f.itr = ItrNext(Top.itr) /\ f.at = Top.at
  BY <1>1 DEF Frame
<1>3. Sending(Top) /\ NotReached(Top)
  BY <1>1, <1>2 DEF Sending, CInv, LoopsSendOnce
<1>4. PICK m : m = Top.itr
  OBVIOUS
<1>5. /\ ItrNext(m) # Nil => ItrNext(m) \in ToSet(module_list)
      /\ \A b : Beyond(module_list, ItrNext(m), b) => Beyond(module_list, m, b)
  BY <1>4, NextBeyond DEF IInv, Owned
<1>6. NotReached(f)
  BY <1>2, <1>3, <1>4, <1>5, ListedStarted DEF NotReached
<1> QED
  BY <1>2, <1>3, <1>6

LEMMA BegunNotReached ==
  ASSUME IInv, CInv, NEW f \in Frames, Sending(f), f.msg.id = packets + 1, f.itr = ItrInit
  PROVE  NotReached(f)
<1>1. ItrInit # Nil => Started(ItrInit)
  <2>1. module_list # <<>> => 1 \in DOMAIN module_list
    BY DEF IInv, ListTypes
  <2> QED
    BY <2>1 DEF ItrInit, IInv, HoldersStarted
<1>2. f.msg.id \in Ids
  BY DEF Sending, Frames, Frame, Message, Ids
<1>3. packets \in Nat
  BY DEF IInv, LoopTypes
<1>4. \A m \in Modules : ~SentIn(m, f.msg.id)
  BY <1>2, <1>3 DEF CInv, SentBefore, Ids
<1> QED
  BY <1>1, <1>4 DEF NotReached

\* where the loops of the next stack come from
LEMMA SendingFrom ==
  ASSUME IInv, Next, NEW i \in DOMAIN stack', Sending(stack'[i])
  PROVE  /\ stack'[i] \in Frames
         /\ (\E j \in DOMAIN stack : stack'[i] = stack[j]) \/ BegunOrGoesOn(stack'[i])
<1> DEFINE F == {f \in Frames :
                   Sending(f) => (\E j \in DOMAIN stack : f = stack[j]) \/ BegunOrGoesOn(f)}
<1>1. stack \in Seq(Frames)
  BY DEF IInv, LoopTypes
<1>2. \A j \in DOMAIN stack : stack[j] \in F
  BY <1>1
<1>3. NewFrame \subseteq F
  BY DEF NewFrame
<1> HIDE DEF F
<1>4. stack \in Seq(F)
  BY <1>1, <1>2, Retyped
<1>5. stack' \in Seq(F)
  BY <1>3, <1>4, StackStep, EffectIn
<1>6. stack'[i] \in F
  BY <1>5
<1> QED
  BY <1>6 DEF F

LEMMA NothingSentOnce ==
  ASSUME IInv, CInv, Next, NothingSent
  PROVE  LoopsSendOnce'
<1>1. ASSUME NEW i \in DOMAIN stack', Sending(stack'[i]) PROVE NotReached(stack[i])'
  <2>1. PICK f \in Frames :
          /\ f = stack'[i] /\ Sending(f)
          /\ (\E j \in DOMAIN stack : f = stack[j]) \/ BegunOrGoesOn(f)
    BY <1>1, SendingFrom
  <2>2. NotReached(f)
    <3>1. CASE \E j \in DOMAIN stack : f = stack[j]
      BY <2>1, <3>1 DEF CInv, LoopsSendOnce
    <3>2. CASE f.msg.id = packets + 1 /\ f.itr = ItrInit
      BY <2>1, <3>2, BegunNotReached
    <3>3. CASE /\ Top.at = "each" /\ Top.itr \in ToSet(module_list)
               /\ f = [Top EXCEPT !.itr = ItrNext(Top.itr)]
      <4>1. Running
        BY DEF Next, Loops, LoopEnds, LoopEvent, LoopReturn, LoopIdle, LoopSelect,
               LoopTerminated, LoopTimeout, InputNext, InputEnd, ExecNext, ExecEnd, WaitDone,
               Commands, CmdModule, CmdKillModule, CmdBroadcast, CmdSendToModule, CmdReply,
               CmdSetMask, CmdFlushAll, MyXGrabServer, MyXUngrabServer, CmdWait, CmdReturn,
               Calls, EachNext, EachEnd, FlushWrite, FlushFails, FlushEnd, AnswerOrInput,
               PwTimeout, SyncFlush, SyncGivesUp, AnswerTerminated, Dangling, Processes,
               ModuleReads, ModuleSends, ModuleExits, Terminate, Runs
      <4> QED
        BY <2>1, <3>3, <4>1, GoesOnNotReached
    <3> QED
      BY <2>1, <3>1, <3>2, <3>3 DEF BegunOrGoesOn
  <2>3. \A m \in Modules : SentIn(m, f.msg.id)' => SentIn(m, f.msg.id)
    BY DEF NothingSent, SentIn
  <2>4. NotReached(f)'
    BY <2>1, <2>2, <2>3, StillNotReached
  <2> QED
    BY <2>1, <2>4 DEF NotReached
<1> QED
  BY <1>1 DEF LoopsSendOnce, Sending

LEMMA AskedIn ==
  ASSUME NEW F, NEW t \in Seq(F), NEW m \in Modules, NEW msg, PositiveWrite(m, msg, t),
         Of("flush", m) \in F, Pw(m, msg) \in F
  PROVE  stack' \in Seq(F)
<1>1. PICK f \in F, g \in F : f = Of("flush", m) /\ g = Pw(m, msg)
  OBVIOUS
<1>2. stack' = t \/ stack' = <<f, g>> \o t
  BY <1>1 DEF PositiveWrite
<1>3. <<f, g>> \o t \in Seq(F)
  BY PushTwo, PushFacts
<1> QED
  BY <1>2, <1>3

\* A packet that is sent in reply is in no loop.
LEMMA ReplySendsOnce ==
  ASSUME IInv, CInv, Next, NEW type \in Types, NEW flushes \in BOOLEAN,
         CmdReply(type, flushes), ~NothingSent
  PROVE  /\ LoopsSendOnce' /\ wire' = wire
         /\ \E m \in Modules, p \in Ids : p = packets' /\ SentNow(m, p) /\ ~SentIn(m, p)
<1>0. PICK m, p : m = Top.mod /\ p = packets'
  OBVIOUS
<1> DEFINE msg == [id |-> p, type |-> type]
           rest == IF flushes THEN Push(Of("flush", m)) ELSE stack
           F == {f \in Frames : Sending(f) => \E j \in DOMAIN stack : f = stack[j]}
<1>1. /\ Running /\ m # Nil /\ packets < MaxPackets /\ p = packets + 1
      /\ packets \in Nat /\ PositiveWrite(m, msg, rest)
  BY <1>0 DEF IInv, LoopTypes, CmdReply, Runs
<1>2. m \in Modules /\ stack \in Seq(Frames)
  BY <1>0, <1>1, TopFacts
<1>3. msg \in Message /\ msg.id = p /\ p \in Ids
  BY <1>1, ModuleLinkAssumption DEF Message, Ids
<1>4. Of("flush", m) \in F /\ Pw(m, msg) \in F
  BY <1>2, <1>3, OfFacts, PwFacts DEF Sending
<1>5. \A j \in DOMAIN stack : stack[j] \in F
  BY <1>2
<1> HIDE DEF F, msg
<1>6. stack \in Seq(F)
  BY <1>2, <1>5, Retyped
<1>7. rest \in Seq(F)
  BY <1>4, <1>6, PushFacts DEF Push
<1> HIDE DEF rest
<1>8. stack' \in Seq(F)
  BY <1>1, <1>2, <1>4, <1>7, AskedIn
<1>9. wire' = wire /\ SentNow(m, p)
  <2>1. wire' = wire /\ SentNow(m, msg.id)
    BY <1>1, <1>2, <1>3, PositiveWriteSends
  <2> QED
    BY <1>3, <2>1
<1>10. ~SentIn(m, p)
  BY <1>1, <1>2, <1>3 DEF CInv, SentBefore, Ids
<1>11. ASSUME NEW i \in DOMAIN stack', Sending(stack'[i]) PROVE NotReached(stack[i])'
  <2>1. stack'[i] \in F
    BY <1>8
  <2>2. PICK j \in DOMAIN stack : stack'[i] = stack[j] /\ Sending(stack[j])
    BY <1>11, <2>1 DEF F
  <2>3. PICK f \in Frames : f = stack[j] /\ f.msg.id \in Ids /\ f.msg.id <= packets
    BY <2>2, SendingFacts
  <2>4. NotReached(f)
    BY <2>2, <2>3 DEF CInv, LoopsSendOnce
  <2>5. f.msg.id # p
    BY <1>1, <2>3 DEF Ids
  <2>6. \A n \in Modules : SentIn(n, f.msg.id)' => SentIn(n, f.msg.id)
    BY <1>2, <1>3, <1>9, <2>5, SentAfter
  <2>7. NotReached(f)'
    BY <2>4, <2>6, StillNotReached
  <2> QED
    BY <2>2, <2>3, <2>7 DEF NotReached
<1> QED
  BY <1>0, <1>2, <1>3, <1>9, <1>10, <1>11 DEF LoopsSendOnce, Sending

\* A loop sends its packet to a module that it had not reached, and the loops
\* below it send older packets.
LEMMA EachSendsOnce ==
  ASSUME IInv, CInv, Next, EachNext, ~NothingSent
  PROVE  /\ LoopsSendOnce' /\ wire' = wire
         /\ \E m \in Modules, p \in Ids : SentNow(m, p) /\ p <= packets /\ ~SentIn(m, p)
<1>0. PICK m, g : m = Top.itr /\ g = [Top EXCEPT !.itr = ItrNext(m)]
  OBVIOUS
<1> DEFINE t == IF m \in Top.out THEN <<Of("flush", m)>> \o Goto(g) ELSE Goto(g)
           F == {f \in Frames : Sending(f) => f = g \/ \E j \in 2 .. Len(stack) : f = stack[j]}
<1>1. /\ Running /\ Top.at = "each" /\ m \in ToSet(module_list)
      /\ IF m \in Top.in THEN PositiveWrite(m, Top.msg, t) ELSE UNCHANGED linkVars
  BY <1>0 DEF EachNext, Runs
<1>2. m \in Modules
  BY <1>1, ListedStarted
<1>3. m \in Top.in /\ PositiveWrite(m, Top.msg, t)
  <2>1. ~UNCHANGED linkVars
    BY DEF NothingSent, SentTo, linkVars
  <2> QED
    BY <1>1, <2>1
<1>4. /\ stack \in Seq(Frames) /\ stack # <<>> /\ Top \in Frames /\ Top = stack[1]
      /\ 1 \in DOMAIN stack /\ Len(stack) \in Nat /\ DOMAIN stack = 1 .. Len(stack)
  BY <1>1, TopFacts
<1>5. Top.msg \in Message /\ Sending(Top)
  BY <1>1, <1>3, <1>4, ModuleLinkAssumption DEF Frames, Sending, Message, NoMsg
<1>6. PICK p \in Ids : p = Top.msg.id /\ p <= packets
  BY <1>4, <1>5, SendingFacts
<1>7. wire' = wire /\ SentNow(m, p)
  BY <1>2, <1>3, <1>5, <1>6, PositiveWriteSends
<1>8. NotReached(Top) /\ Beyond(module_list, m, m) /\ ~SentIn(m, p)
  <2>1. NotReached(Top)
    BY <1>4, <1>5 DEF CInv, LoopsSendOnce
  <2>2. Beyond(module_list, m, m)
    BY <1>1, NextBeyond DEF IInv, Owned
  <2> QED
    BY <1>0, <1>2, <1>6, <2>1, <2>2 DEF NotReached
<1>9. g \in Frames /\ g.at = "each" /\ g.msg = Top.msg /\ Sending(g)
  <2>1. ItrNext(m) \in Pointers
    BY <1>1, ItrFacts DEF IInv
  <2> QED
    BY <1>0, <1>1, <1>4, <1>5, <2>1 DEF Frames, Frame, LoopPoints, Sending
<1>10. NotReached(g) /\ \A b : Beyond(module_list, g.itr, b) => b # m
  <2>1. NotReached(g) /\ g.itr = ItrNext(m)
    BY <1>0, <1>1, <1>9, GoesOnNotReached
  <2> QED
    BY <1>1, <2>1, NextBeyond DEF IInv, Owned
<1>11. Of("flush", m) \in F /\ Pw(m, Top.msg) \in F /\ g \in F
  BY <1>2, <1>5, <1>9, OfFacts, PwFacts DEF Sending
<1>12. stack' \in Seq(F)
  <2>1. Tail(stack) \in Seq(Frames)
    BY <1>4, PopFacts
  <2>2. \A i \in DOMAIN Tail(stack) : Tail(stack)[i] \in F
    <3> SUFFICES ASSUME NEW i \in DOMAIN Tail(stack) PROVE Tail(stack)[i] \in F
      OBVIOUS
    <3>1. i + 1 \in 2 .. Len(stack) /\ Tail(stack)[i] = stack[i + 1] /\ stack[i + 1] \in Frames
      BY <1>4, PopFacts
    <3> QED
      BY <3>1
  <2> HIDE DEF F
  <2>3. Tail(stack) \in Seq(F)
    BY <2>1, <2>2, Retyped
  <2>4. Goto(g) \in Seq(F)
    BY <1>11, <2>3, PushFacts DEF Goto
  <2>5. t \in Seq(F)
    BY <1>11, <2>4, PushFacts
  <2> HIDE DEF t
  <2> QED
    BY <1>2, <1>3, <1>11, <2>5, AskedIn
<1> HIDE DEF t
<1>13. ASSUME NEW i \in DOMAIN stack', Sending(stack'[i]) PROVE NotReached(stack[i])'
  <2>1. stack'[i] \in F
    BY <1>12
  <2>2. CASE stack'[i] = g
    <3>1. PICK f \in Frames : f = g
      BY <1>9
    <3>2. \A n \in Modules : Beyond(module_list, f.itr, n) /\ SentIn(n, f.msg.id)' => SentIn(n, f.msg.id)
      BY <1>2, <1>7, <1>10, <3>1, SentAfter
    <3>3. NotReached(f)'
      BY <1>10, <3>1, <3>2, StillNotReached
    <3> QED
      BY <2>2, <3>1, <3>3 DEF NotReached
  <2>3. CASE stack'[i] # g
    <3>1. PICK j \in 2 .. Len(stack) : stack'[i] = stack[j] /\ Sending(stack[j])
      BY <1>13, <2>1, <2>3 DEF F
    <3>2. j \in DOMAIN stack /\ 1 < j
      BY <1>4
    <3>3. PICK f \in Frames : f = stack[j] /\ f.msg.id \in Ids
      BY <3>1, <3>2, SendingFacts
    <3>4. NotReached(f)
      BY <3>1, <3>2, <3>3 DEF CInv, LoopsSendOnce
    <3>5. f.msg.id # p
      <4>1. stack[1].msg.id > stack[j].msg.id
        BY <1>4, <1>5, <3>1, <3>2 DEF IInv, SentLater, Sending
      <4> QED
        BY <1>4, <1>6, <3>3, <4>1 DEF Ids
    <3>6. \A n \in Modules : SentIn(n, f.msg.id)' => SentIn(n, f.msg.id)
      BY <1>2, <1>7, <3>5, SentAfter
    <3>7. NotReached(f)'
      BY <3>4, <3>6, StillNotReached
    <3> QED
      BY <3>1, <3>3, <3>7 DEF NotReached
  <2> QED
    BY <2>2, <2>3
<1> QED
  BY <1>2, <1>6, <1>7, <1>8, <1>13 DEF LoopsSendOnce, Sending
-----------------------------------------------------------------------------
(* What a step does to the channels: nothing, a packet is sent, or one is   *)
(* received. *)

ChannelSends ==
  /\ wire' = wire
  /\ \E m \in Modules, p \in Ids : SentNow(m, p) /\ p <= packets' /\ ~SentIn(m, p)

ChannelReads ==
  /\ NothingSent
  /\ \/ \A m \in Modules : ReadBy(m)' = ReadBy(m)
     \/ \E m \in Modules :
          /\ ReadBy(m)' = ReadBy(m) + 1 /\ ReadBy(m) + 1 <= Len(SentTo(m))
          /\ \A n \in Modules : n # m => ReadBy(n)' = ReadBy(n)

LEMMA SameLinksRead ==
  ASSUME IInv, CInv, SameLinks
  PROVE  ChannelReads /\ ReadWithin'
BY DEF SameLinks, ChannelReads, NothingSent, SentTo, ReadBy, CInv, ReadWithin

LEMMA FlushWriteReads ==
  ASSUME IInv, CInv, FlushWrite
  PROVE  ChannelReads /\ ReadWithin'
<1>1. ChannelReads
  BY FlushWriteSends DEF ChannelReads, ReadBy
<1>2. ASSUME NEW m \in Modules PROVE wire'[m].read <= Len(wire'[m].sent)
  <2>1. PICK r, k \in Nat : r = wire[m].read /\ k = Len(wire[m].sent) /\ r <= k
    <3>1. wire[m].read \in Nat /\ Len(wire[m].sent) \in Nat
      BY SentTypes DEF IInv, LinkTypes, WireType
    <3> QED
      BY <3>1 DEF CInv, ReadWithin
  <2>2. PICK l \in Nat : l = Len(wire'[m].sent) /\ l >= k /\ wire'[m].read = r
    BY <2>1, FlushWriteSends
  <2> QED
    BY <2>1, <2>2
<1> QED
  BY <1>1, <1>2 DEF ReadWithin

LEMMA ModuleReadsOne ==
  ASSUME IInv, CInv, NEW m \in Modules, ModuleReads(m)
  PROVE  ChannelReads /\ ReadWithin'
<1>1. wire \in [Modules -> WireType]
  BY DEF IInv, LinkTypes
<1>2. /\ wire' = [wire EXCEPT ![m].read = @ + 1] /\ fmod' = fmod
      /\ Len(wire[m].sent) - wire[m].read > 0
  BY DEF ModuleReads, InPipe
<1>3. /\ wire'[m].read = wire[m].read + 1 /\ wire'[m].sent = wire[m].sent
      /\ \A n \in Modules : n # m => wire'[n] = wire[n]
  BY <1>1, <1>2 DEF WireType
<1>4. PICK r, L \in Nat : r = wire[m].read /\ L = Len(wire[m].sent)
  BY <1>1, SentTypes DEF WireType
<1>5. (r + 1) \div Units \in {r \div Units, (r \div Units) + 1}
  BY <1>4, DivGrows, ModuleLinkAssumption
<1>6. \A n \in Modules : wire'[n].sent = wire[n].sent
  BY <1>3
<1>7. NothingSent
  BY <1>2, <1>6 DEF NothingSent, SentTo
<1>8. ReadBy(m)' \in {ReadBy(m), ReadBy(m) + 1} /\ \A n \in Modules : n # m => ReadBy(n)' = ReadBy(n)
  BY <1>3, <1>4, <1>5 DEF ReadBy
<1>9. r + 1 <= L
  BY <1>2, <1>4
<1>10. (r + 1) \div Units <= Len(SentTo(m))
  <2>1. /\ L \div Units <= Len(SentTo(m)) /\ Len(SentTo(m)) \in Nat
    <3>1. SentTo(m) \in Seq(Ids) /\ Len(wire[m].sent) \div Units <= Len(SentTo(m))
      BY SentTypes, SentFacts DEF SentTo
    <3> QED
      BY <1>4, <3>1
  <2>2. PICK k \in Nat : k = r + 1
    BY <1>4
  <2>3. k \div Units <= L \div Units /\ k \div Units \in Nat /\ L \div Units \in Nat
    BY <1>4, <1>9, <2>2, DivMonotone, ModFacts, ModuleLinkAssumption
  <2> QED
    BY <2>1, <2>2, <2>3
<1>11. ReadWithin'
  BY <1>3, <1>4, <1>9 DEF CInv, ReadWithin
<1>12. CASE ReadBy(m)' = ReadBy(m)
  BY <1>7, <1>8, <1>11, <1>12 DEF ChannelReads
<1>13. CASE ReadBy(m)' = ReadBy(m) + 1
  <2>1. ReadBy(m) + 1 <= Len(SentTo(m))
    BY <1>3, <1>4, <1>10, <1>13 DEF ReadBy
  <2> QED
    BY <1>7, <1>8, <1>11, <1>13, <2>1 DEF ChannelReads
<1> QED
  BY <1>8, <1>12, <1>13

LEMMA ChannelStep ==
  ASSUME IInv, CInv, Next
  PROVE  (ChannelSends \/ ChannelReads) /\ LoopsSendOnce' /\ ReadWithin'
<1>1. ASSUME ChannelReads, ReadWithin'
      PROVE  (ChannelSends \/ ChannelReads) /\ LoopsSendOnce' /\ ReadWithin'
  BY <1>1, NothingSentOnce DEF ChannelReads
<1>2. CASE ~Sends
  BY <1>1, <1>2, OthersSendNothing, SameLinksRead
<1>3. CASE FlushWrite
  BY <1>1, <1>3, FlushWriteReads
<1>4. CASE \E m \in Modules : ModuleReads(m)
  BY <1>1, <1>4, ModuleReadsOne
<1>5. packets \in Nat /\ packets' \in Nat /\ packets <= packets'
  BY PacketsStep
<1>6. wire' = wire => ReadWithin'
  BY DEF CInv, ReadWithin
<1>7. wire' = wire /\ NothingSent => ChannelReads
  BY DEF ChannelReads, ReadBy
<1>8. CASE EachNext
  <2>1. CASE NothingSent
    <3>1. wire' = wire
      <4>1. Top.itr \in ToSet(module_list) /\ Running /\ Top.at = "each"
        BY <1>8 DEF EachNext, Runs
      <4>2. UNCHANGED linkVars \/ \E rest : Top.itr \in Top.in /\ PositiveWrite(Top.itr, Top.msg, rest)
        BY <1>8 DEF EachNext
      <4> QED
        BY <4>2 DEF linkVars, PositiveWrite
    <3> QED
      BY <1>1, <1>6, <1>7, <2>1, <3>1
  <2>2. CASE ~NothingSent
    <3>1. /\ LoopsSendOnce' /\ wire' = wire
          /\ \E m \in Modules, p \in Ids : SentNow(m, p) /\ p <= packets /\ ~SentIn(m, p)
      BY <1>8, <2>2, EachSendsOnce
    <3>2. \A p \in Ids : p <= packets => p <= packets'
      BY <1>5 DEF Ids
    <3> QED
      BY <1>6, <3>1, <3>2 DEF ChannelSends
  <2> QED
    BY <2>1, <2>2
<1>9. ASSUME NEW type \in Types, NEW flushes \in BOOLEAN, CmdReply(type, flushes)
      PROVE  (ChannelSends \/ ChannelReads) /\ LoopsSendOnce' /\ ReadWithin'
  <2>1. CASE NothingSent
    <3>1. wire' = wire
      BY <1>9 DEF CmdReply, PositiveWrite, linkVars
    <3> QED
      BY <1>1, <1>6, <1>7, <2>1, <3>1
  <2>2. CASE ~NothingSent
    <3>1. /\ LoopsSendOnce' /\ wire' = wire
          /\ \E m \in Modules, p \in Ids : p = packets' /\ SentNow(m, p) /\ ~SentIn(m, p)
      BY <1>9, <2>2, ReplySendsOnce
    <3>2. \A p \in Ids : p = packets' => p <= packets'
      BY DEF Ids
    <3> QED
      BY <1>6, <3>1, <3>2 DEF ChannelSends
  <2> QED
    BY <2>1, <2>2
<1> QED
  BY <1>2, <1>3, <1>4, <1>8, <1>9 DEF Sends

LEMMA CInvStep ==
  ASSUME IInv, CInv, Next
  PROVE  CInv'
<1>1. PICK a, b \in Nat : a = packets /\ b = packets' /\ a <= b
  BY PacketsStep
<1>2. ASSUME NEW n \in Modules, NEW r \in Ids, SentIn(n, r)' PROVE r <= packets'
  <2>1. CASE ChannelReads
    <3>1. SentIn(n, r)
      BY <1>2, <2>1 DEF ChannelReads, NothingSent, SentIn
    <3>2. r <= a
      BY <1>1, <3>1 DEF CInv, SentBefore, Ids
    <3> QED
      BY <1>1, <3>2 DEF Ids
  <2>2. CASE ChannelSends
    <3>1. PICK m \in Modules, p \in Ids : SentNow(m, p) /\ p <= packets'
      BY <2>2 DEF ChannelSends
    <3>2. SentIn(n, r) \/ r = p
      BY <1>2, <3>1, SentAfter
    <3>3. SentIn(n, r) => r <= a
      BY <1>1 DEF CInv, SentBefore, Ids
    <3> QED
      BY <1>1, <3>1, <3>2, <3>3 DEF Ids
  <2> QED
    BY <2>1, <2>2, ChannelStep
<1>3. SentBefore'
  BY <1>2 DEF SentBefore, Ids
<1> QED
  BY <1>3, ChannelStep DEF CInv

LEMMA InitSends ==
  ASSUME Init
  PROVE  CInv /\ \A m \in Modules : SentTo(m) = <<>> /\ ReadBy(m) = 0
<1>1. ASSUME NEW m \in Modules
      PROVE  wire[m].sent = <<>> /\ wire[m].read = 0 /\ fmod[m].queue = <<>>
  BY <1>1 DEF Init, On, Off, NewModule
<1>2. Len(<<>>) = 0 /\ 0 \div Units = 0
  BY ModuleLinkAssumption
<1>3. WholeIn(<<>>) = <<>> /\ IdsOf(<<>>) = <<>>
  <2>1. <<>> \in Seq(Unit) /\ <<>> \in Seq(Queued)
    OBVIOUS
  <2>2. Len(WholeIn(<<>>)) = 0 /\ WholeIn(<<>>) \in Seq(Ids)
    BY <1>2, <2>1, WholeFacts
  <2>3. Len(IdsOf(<<>>)) = 0 /\ IdsOf(<<>>) \in Seq(Ids)
    BY <1>2, <2>1, IdsFacts
  <2> QED
    BY <2>2, <2>3
<1>4. \A m \in Modules : SentTo(m) = <<>> /\ ReadBy(m) = 0
  BY <1>1, <1>2, <1>3 DEF SentTo, SentOf, ReadBy
<1>5. SentBefore
  BY <1>4 DEF SentBefore, SentIn
<1>6. ReadWithin
  BY <1>1, <1>2 DEF ReadWithin
<1>7. LoopsSendOnce
  <2>1. stack = <<At("begin")>> /\ At("begin").at = "begin"
    BY AtFacts DEF Init, LoopPoints
  <2> QED
    BY <2>1 DEF LoopsSendOnce, Sending
<1> QED
  BY <1>4, <1>5, <1>6, <1>7 DEF CInv

LEMMA CInvStutters ==
  ASSUME CInv, UNCHANGED vars
  PROVE  CInv'
<1>1. LoopsSendOnce'
  BY DEF CInv, LoopsSendOnce, Sending, NotReached, Started, SentIn, SentTo, vars
<1>2. SentBefore' /\ ReadWithin'
  BY DEF CInv, SentBefore, ReadWithin, SentIn, SentTo, vars
<1> QED
  BY <1>1, <1>2 DEF CInv

LEMMA SentOnce == Spec => [](IInv /\ CInv)
<1>1. Init => IInv /\ CInv
  BY InitHolds, InitSends
<1>2. (IInv /\ CInv) /\ [Next]_vars => (IInv /\ CInv)'
  BY StutterKeeps, NextKeeps, CInvStutters, CInvStep
<1> QED
  BY <1>1, <1>2, PTL DEF Spec

LEMMA SendRefines ==
  ASSUME IInv, CInv, ChannelSends
  PROVE  Channel!Next
<1> DEFINE pending == [m \in Modules |-> OnItsWay(m)]
           received == [m \in Modules |-> ReceivedBy(m)]
<1>1. wire' = wire
  BY DEF ChannelSends
<1>2. PICK m \in Modules, p \in Ids : SentNow(m, p) /\ ~SentIn(m, p)
  BY DEF ChannelSends
<1>3. \A n \in Modules : ReadBy(n)' = ReadBy(n)
  BY <1>1 DEF ReadBy
<1>4. PICK s \in Seq(Ids), n \in Nat :
        s = SentTo(m) /\ n = ReadBy(m) /\ n \in 0 .. Len(s) /\ SentTo(m)' = Append(s, p)
  BY <1>2, SentTypes DEF SentNow
<1>5. /\ ReceivedBy(m)' = ReceivedBy(m)
      /\ OnItsWay(m)' = Append(OnItsWay(m), p)
  <2>1. /\ SubSeq(Append(s, p), 1, n) = SubSeq(s, 1, n)
        /\ SubSeq(Append(s, p), n + 1, Len(Append(s, p))) = Append(SubSeq(s, n + 1, Len(s)), p)
    BY <1>4, CutAppend
  <2> QED
    BY <1>3, <1>4, <2>1 DEF ReceivedBy, OnItsWay
<1>6. \A k \in Modules : k # m => ReceivedBy(k)' = ReceivedBy(k) /\ OnItsWay(k)' = OnItsWay(k)
  BY <1>2, <1>3 DEF ReceivedBy, OnItsWay, SentNow
<1>7. /\ pending' = [pending EXCEPT ![m] = Append(@, p)]
      /\ received' = received
  BY <1>5, <1>6
<1>8. p \notin Channel!Held(pending[m]) \cup Channel!Held(received[m])
  <2>1. \A i \in DOMAIN s : s[i] # p
    BY <1>2, <1>4 DEF SentIn
  <2>2. /\ Len(SubSeq(s, 1, n)) = n /\ \A i \in 1 .. n : SubSeq(s, 1, n)[i] = s[i]
        /\ SubSeq(s, 1, n) \in Seq(Ids)
    BY <1>4
  <2>3. /\ Len(SubSeq(s, n + 1, Len(s))) = Len(s) - n
        /\ \A i \in 1 .. Len(s) - n : SubSeq(s, n + 1, Len(s))[i] = s[n + i]
        /\ SubSeq(s, n + 1, Len(s)) \in Seq(Ids)
    BY <1>4
  <2>4. \A i \in DOMAIN SubSeq(s, 1, n) : SubSeq(s, 1, n)[i] # p
    BY <1>4, <2>1, <2>2
  <2>5. \A i \in DOMAIN SubSeq(s, n + 1, Len(s)) : SubSeq(s, n + 1, Len(s))[i] # p
    BY <1>4, <2>1, <2>3, SMTT(40)
  <2>6. pending[m] = SubSeq(s, n + 1, Len(s)) /\ received[m] = SubSeq(s, 1, n)
    BY <1>4 DEF OnItsWay, ReceivedBy
  <2> HIDE DEF pending, received
  <2> QED
    BY <2>4, <2>5, <2>6 DEF Channel!Held
<1>9. Channel!Send(m, p)
  BY <1>7, <1>8 DEF Channel!Send
<1> QED
  BY <1>9 DEF Channel!Next, Ids

LEMMA ReadRefines ==
  ASSUME IInv, CInv, ChannelReads
  PROVE  [Channel!Next]_Channel!channelVars
<1> DEFINE pending == [m \in Modules |-> OnItsWay(m)]
           received == [m \in Modules |-> ReceivedBy(m)]
<1>1. \A m \in Modules : SentTo(m)' = SentTo(m)
  BY DEF ChannelReads, NothingSent
<1>2. \A m \in Modules :
        ReadBy(m)' = ReadBy(m) => ReceivedBy(m)' = ReceivedBy(m) /\ OnItsWay(m)' = OnItsWay(m)
  BY <1>1 DEF ReceivedBy, OnItsWay
<1>3. CASE \A m \in Modules : ReadBy(m)' = ReadBy(m)
  <2>1. pending' = pending /\ received' = received
    BY <1>2, <1>3
  <2> QED
    BY <2>1 DEF Channel!channelVars
<1>4. ASSUME NEW m \in Modules, ReadBy(m)' = ReadBy(m) + 1,
             ReadBy(m) + 1 <= Len(SentTo(m)),
             \A n \in Modules : n # m => ReadBy(n)' = ReadBy(n)
      PROVE  Channel!Receive(m)
  <2>1. PICK s \in Seq(Ids), n \in Nat : s = SentTo(m) /\ n = ReadBy(m) /\ n \in 0 .. Len(s)
    BY SentTypes
  <2>2. n \in 0 .. Len(s) - 1
    BY <1>4, <2>1
  <2>3. /\ SubSeq(s, n + 1, Len(s)) # <<>>
        /\ SubSeq(s, (n + 1) + 1, Len(s)) = Tail(SubSeq(s, n + 1, Len(s)))
        /\ SubSeq(s, 1, n + 1) = Append(SubSeq(s, 1, n), Head(SubSeq(s, n + 1, Len(s))))
    BY <2>2, CutMoves
  <2>4. /\ OnItsWay(m) # <<>> /\ OnItsWay(m)' = Tail(OnItsWay(m))
        /\ ReceivedBy(m)' = Append(ReceivedBy(m), Head(OnItsWay(m)))
    BY <1>1, <1>4, <2>1, <2>3 DEF OnItsWay, ReceivedBy
  <2>5. /\ pending[m] # <<>> /\ pending' = [pending EXCEPT ![m] = Tail(@)]
        /\ received' = [received EXCEPT ![m] = Append(@, Head(pending[m]))]
    BY <1>2, <1>4, <2>4
  <2> QED
    BY <2>5 DEF Channel!Receive
<1> QED
  BY <1>3, <1>4 DEF ChannelReads, Channel!Next

(* The link delivers what it sends: a module gets the packets that were     *)
(* sent to it whole, each once and in the order in which they were sent     *)
(* (PacketChannel), although its queue is written in pieces, from inside    *)
(* nested loops and waits, while modules are started and killed.            *)
THEOREM PacketsDelivered == Spec => DeliversPackets
<1>1. Init => Channel!Init
  <2> SUFFICES ASSUME Init PROVE Channel!Init
    OBVIOUS
  <2>1. \A m \in Modules : OnItsWay(m) = <<>> /\ ReceivedBy(m) = <<>>
    <3>1. SubSeq(<<>>, 1, 0) = <<>> /\ SubSeq(<<>>, 0 + 1, Len(<<>>)) = <<>>
      BY SubSeqEmpty
    <3> QED
      BY <3>1, InitSends DEF OnItsWay, ReceivedBy
  <2> QED
    BY <2>1 DEF Channel!Init
<1>2. (IInv /\ CInv) /\ [Next]_vars => [Channel!Next]_Channel!channelVars
  <2> SUFFICES ASSUME IInv, CInv, [Next]_vars
               PROVE  [Channel!Next]_Channel!channelVars
    OBVIOUS
  <2>1. CASE UNCHANGED vars
    BY <2>1 DEF vars, Channel!channelVars, OnItsWay, ReceivedBy, SentTo, ReadBy
  <2>2. CASE Next
    BY <2>2, ChannelStep, SendRefines, ReadRefines
  <2> QED
    BY <2>1, <2>2
<1> QED
  BY <1>1, <1>2, SentOnce, PTL DEF Spec, DeliversPackets, Channel!Spec
-----------------------------------------------------------------------------
(* When no module is synchronous: loops over the list of modules, and the   *)
(* commands of modules. PositiveWrite never waits, so nothing is executed   *)
(* inside a loop, and the only calls that wait are CMD_ModuleSynchronous.   *)

NoneSync == \A m \in Modules : fmod[m].sync = {}

\* no loop over the list is in progress
Loopless(s) == \A i \in DOMAIN s : s[i].at \notin {"each", "input"}

Unqueued(q, m) == \A i \in DOMAIN q : q[i].mod # m

\* PositiveWrite waits nowhere. A loop over the modules of L is on top, or a
\* flush of another module is. While a command of a module is queued that
\* CMD_ModuleSynchronous waits for, the loop that executes it is above.
Calm(s, L, q) ==
  \A i \in DOMAIN s :
    /\ s[i].at # "pw"
    /\ s[i].at \in {"each", "input"} =>
         /\ s[i].itr \in L \cup {Nil}
         /\ i = 1 \/ (i = 2 /\ s[1].at = "flush" /\ s[1].mod # s[2].itr)
    /\ s[i].at = "sync" =>
         Unqueued(q, s[i].mod) \/ \E j \in 1 .. i - 1 : s[j].at \in {"input", "exec"}

CalmStack == Calm(stack, ToSet(module_list), cqueue)

\* The commands of m: q is the queue, w the pipe, r the last that was executed,
\* n how many commands there were.
InOrder(m, q, w, r, n) ==
  /\ r <= n
  /\ \A i \in DOMAIN q : q[i].mod = m => r < q[i].num /\ q[i].num <= n
  /\ \A i \in DOMAIN w : r < w[i].num /\ w[i].num <= n
  /\ \A i, j \in DOMAIN q : i < j /\ q[i].mod = m /\ q[j].mod = m => q[i].num < q[j].num
  /\ \A i, j \in DOMAIN w : i < j => w[i].num < w[j].num
  /\ \A i \in DOMAIN q, j \in DOMAIN w : q[i].mod = m => q[i].num < w[j].num

AllInOrder == \A m \in Modules : InOrder(m, cqueue, wire[m].input, ran[m], inputs)

\* Without modules on the command line nothing is read from a module at startup,
\* where the event loop cleans up with commands in the queue.
Started0 ==
  CmdLine = {} =>
    /\ fMvwmInStartup =>
         cqueue = <<>> /\ \A i \in DOMAIN stack : stack[i].at \notin {"select", "input", "exec"}
    /\ CommandQueueLive

CalmInv == NoneSync /\ CalmStack /\ AllInOrder /\ Started0
-----------------------------------------------------------------------------
(* Stacks *)

LEMMA TopLoopless ==
  ASSUME NEW s \in Seq(Frames), NEW L, NEW q, Calm(s, L, q), s # <<>>,
         s[1].at \notin {"each", "input", "flush"}
  PROVE  Loopless(s)
BY DEF Calm, Loopless

LEMMA TailLoopless ==
  ASSUME NEW s \in Seq(Frames), NEW L, NEW q, Calm(s, L, q), s # <<>>, s[1].at # "flush"
  PROVE  Loopless(Tail(s))
<1>1. /\ DOMAIN Tail(s) = 1 .. Len(s) - 1 /\ Len(s) \in Nat
      /\ \A i \in DOMAIN Tail(s) : Tail(s)[i] = s[i + 1] /\ i + 1 \in DOMAIN s
  BY PopFacts
<1>2. ASSUME NEW i \in DOMAIN Tail(s) PROVE Tail(s)[i].at \notin {"each", "input"}
  <2>1. i + 1 \in DOMAIN s /\ Tail(s)[i] = s[i + 1] /\ i + 1 # 1
    BY <1>1
  <2> QED
    BY <2>1 DEF Calm
<1> QED
  BY <1>2 DEF Loopless

LEMMA CalmTail ==
  ASSUME NEW s \in Seq(Frames), NEW L, NEW q, Calm(s, L, q), s # <<>>,
         s[1].at \notin {"input", "exec"} \/ q = <<>>
  PROVE  Calm(Tail(s), L, q)
<1>1. /\ DOMAIN Tail(s) = 1 .. Len(s) - 1 /\ Len(s) \in Nat
      /\ \A i \in DOMAIN Tail(s) : Tail(s)[i] = s[i + 1] /\ i + 1 \in DOMAIN s
  BY PopFacts
<1>2. ASSUME NEW i \in DOMAIN Tail(s)
      PROVE  /\ Tail(s)[i].at # "pw"
             /\ Tail(s)[i].at \in {"each", "input"} => Tail(s)[i].itr \in L \cup {Nil} /\ i = 1
             /\ Tail(s)[i].at = "sync" =>
                  \/ Unqueued(q, Tail(s)[i].mod)
                  \/ \E j \in 1 .. i - 1 : Tail(s)[j].at \in {"input", "exec"}
  <2>1. i + 1 \in DOMAIN s /\ Tail(s)[i] = s[i + 1] /\ i + 1 # 1 /\ i \in 1 .. Len(s) - 1
    BY <1>1
  <2>2. /\ Tail(s)[i].at # "pw"
        /\ Tail(s)[i].at \in {"each", "input"} => Tail(s)[i].itr \in L \cup {Nil} /\ i = 1
    BY <2>1 DEF Calm
  <2>3. ASSUME Tail(s)[i].at = "sync", ~Unqueued(q, Tail(s)[i].mod)
        PROVE  \E j \in 1 .. i - 1 : Tail(s)[j].at \in {"input", "exec"}
    <3>1. PICK j \in 1 .. i : s[j].at \in {"input", "exec"}
      BY <2>1, <2>3 DEF Calm
    <3>2. q # <<>>
      BY <2>3 DEF Unqueued
    <3>3. j # 1
      BY <3>1, <3>2
    <3>4. j - 1 \in 1 .. i - 1 /\ j - 1 \in 1 .. Len(s) - 1 /\ (j - 1) + 1 = j
      BY <2>1, <3>3
    <3>5. Tail(s)[j - 1] = s[j]
      BY <1>1, <3>4
    <3> QED
      BY <3>1, <3>4, <3>5
  <2> QED
    BY <2>2, <2>3
<1> QED
  BY <1>2 DEF Calm

\* A frame on top of calls that are not loops, however the list has changed
LEMMA CalmPush ==
  ASSUME NEW s \in Seq(Frames), NEW L, NEW q, Calm(s, L, q), Loopless(s), NEW L2, NEW f \in Frames,
         f.at # "pw", f.at \in {"each", "input"} => f.itr \in L2 \cup {Nil},
         f.at = "sync" => Unqueued(q, f.mod)
  PROVE  Calm(<<f>> \o s, L2, q)
<1> DEFINE t == <<f>> \o s
<1>1. /\ DOMAIN t = 1 .. Len(s) + 1 /\ t[1] = f /\ Len(s) \in Nat /\ DOMAIN s = 1 .. Len(s)
      /\ \A i \in DOMAIN s : t[i + 1] = s[i]
      /\ \A i \in 2 .. Len(s) + 1 : i - 1 \in DOMAIN s /\ t[i] = s[i - 1]
  BY PushFacts
<1> HIDE DEF t
<1>2. ASSUME NEW i \in 2 .. Len(s) + 1
      PROVE  /\ t[i].at \notin {"pw", "each", "input"}
             /\ t[i].at = "sync" =>
                  Unqueued(q, t[i].mod) \/ \E j \in 1 .. i - 1 : t[j].at \in {"input", "exec"}
  <2>1. i - 1 \in DOMAIN s /\ t[i] = s[i - 1] /\ i \in Nat
    BY <1>1
  <2>2. t[i].at \notin {"pw", "each", "input"}
    BY <2>1 DEF Calm, Loopless
  <2>3. ASSUME t[i].at = "sync", ~Unqueued(q, t[i].mod)
        PROVE  \E j \in 1 .. i - 1 : t[j].at \in {"input", "exec"}
    <3>1. PICK j \in 1 .. (i - 1) - 1 : s[j].at \in {"input", "exec"}
      BY <2>1, <2>3 DEF Calm
    <3>2. j \in DOMAIN s /\ j + 1 \in 1 .. i - 1
      BY <1>1, <2>1
    <3>3. t[j + 1] = s[j]
      BY <1>1, <3>2
    <3> QED
      BY <3>1, <3>2, <3>3
  <2> QED
    BY <2>2, <2>3
<1>3. ASSUME NEW i \in DOMAIN t
      PROVE  /\ t[i].at # "pw"
             /\ t[i].at \in {"each", "input"} => t[i].itr \in L2 \cup {Nil} /\ i = 1
             /\ t[i].at = "sync" =>
                  Unqueued(q, t[i].mod) \/ \E j \in 1 .. i - 1 : t[j].at \in {"input", "exec"}
  <2>1. CASE i = 1
    BY <1>1, <2>1
  <2>2. CASE i # 1
    <3>1. i \in 2 .. Len(s) + 1
      BY <1>1, <2>2
    <3> QED
      BY <1>2, <3>1
  <2> QED
    BY <2>1, <2>2
<1>4. Calm(t, L2, q)
  BY <1>3 DEF Calm
<1> QED
  BY <1>4 DEF t

\* A flush is called from a loop that goes on at another module.
LEMMA CalmFlush ==
  ASSUME NEW s \in Seq(Frames), NEW L, NEW q, Calm(s, L, q), s # <<>>, NEW f \in Frames,
         s[1].at \in {"each", "input"}, f.at = "flush", f.mod # s[1].itr
  PROVE  Calm(<<f>> \o s, L, q)
<1> DEFINE t == <<f>> \o s
<1>1. /\ DOMAIN t = 1 .. Len(s) + 1 /\ t[1] = f /\ Len(s) \in Nat /\ DOMAIN s = 1 .. Len(s)
      /\ \A i \in DOMAIN s : t[i + 1] = s[i]
      /\ \A i \in 2 .. Len(s) + 1 : i - 1 \in DOMAIN s /\ t[i] = s[i - 1]
  BY PushFacts
<1>5. Len(s) >= 1 /\ t[2] = s[1]
  <2>1. Len(s) >= 1
    BY PopFacts
  <2>2. 1 \in DOMAIN s
    BY <1>1, <2>1
  <2> QED
    BY <1>1, <2>1, <2>2
<1> HIDE DEF t
<1>2. ASSUME NEW i \in 2 .. Len(s) + 1
      PROVE  /\ t[i].at # "pw"
             /\ t[i].at \in {"each", "input"} => t[i].itr \in L \cup {Nil} /\ i = 2
             /\ t[i].at = "sync" =>
                  Unqueued(q, t[i].mod) \/ \E j \in 1 .. i - 1 : t[j].at \in {"input", "exec"}
  <2>1. i - 1 \in DOMAIN s /\ t[i] = s[i - 1] /\ i \in Nat
    BY <1>1
  <2>2. /\ t[i].at # "pw"
        /\ t[i].at \in {"each", "input"} => t[i].itr \in L \cup {Nil} /\ i - 1 = 1
    BY <2>1 DEF Calm
  <2>3. ASSUME t[i].at = "sync", ~Unqueued(q, t[i].mod)
        PROVE  \E j \in 1 .. i - 1 : t[j].at \in {"input", "exec"}
    <3>1. PICK j \in 1 .. (i - 1) - 1 : s[j].at \in {"input", "exec"}
      BY <2>1, <2>3 DEF Calm
    <3>2. j \in DOMAIN s /\ j + 1 \in 1 .. i - 1
      BY <1>1, <2>1
    <3>3. t[j + 1] = s[j]
      BY <1>1, <3>2
    <3> QED
      BY <3>1, <3>2, <3>3
  <2> QED
    BY <2>1, <2>2, <2>3
<1>3. ASSUME NEW i \in DOMAIN t
      PROVE  /\ t[i].at # "pw"
             /\ t[i].at \in {"each", "input"} => t[i].itr \in L \cup {Nil} /\ i = 2
             /\ t[i].at = "sync" =>
                  Unqueued(q, t[i].mod) \/ \E j \in 1 .. i - 1 : t[j].at \in {"input", "exec"}
  <2>1. CASE i = 1
    BY <1>1, <2>1
  <2>2. CASE i # 1
    <3>1. i \in 2 .. Len(s) + 1
      BY <1>1, <2>2
    <3> QED
      BY <1>2, <3>1
  <2> QED
    BY <2>1, <2>2
<1>4. Calm(t, L, q)
  BY <1>1, <1>3, <1>5 DEF Calm
<1> QED
  BY <1>4 DEF t

\* The loop that reads and executes commands goes on.
LEMMA CalmGoto ==
  ASSUME NEW s \in Seq(Frames), NEW L, NEW q, Calm(s, L, q), s # <<>>, s[1].at # "flush",
         NEW f \in Frames, f.at \in {"input", "exec"}, NEW L2, NEW q2,
         f.at = "input" => f.itr \in L2 \cup {Nil}
  PROVE  Calm(<<f>> \o Tail(s), L2, q2)
<1> DEFINE u == Tail(s)
           t == <<f>> \o u
<1>1. /\ u \in Seq(Frames) /\ DOMAIN u = 1 .. Len(s) - 1
      /\ \A i \in DOMAIN u : u[i] = s[i + 1] /\ i + 1 \in DOMAIN s
  BY PopFacts
<1>2. Loopless(u)
  BY TailLoopless
<1> HIDE DEF u
<1>3. /\ DOMAIN t = 1 .. Len(u) + 1 /\ t[1] = f /\ Len(u) \in Nat
      /\ \A i \in 2 .. Len(u) + 1 : i - 1 \in DOMAIN u /\ t[i] = u[i - 1]
  BY <1>1, PushFacts
<1> HIDE DEF t
<1>4. ASSUME NEW i \in DOMAIN t
      PROVE  /\ t[i].at # "pw"
             /\ t[i].at \in {"each", "input"} => t[i].itr \in L2 \cup {Nil} /\ i = 1
             /\ t[i].at = "sync" =>
                  Unqueued(q2, t[i].mod) \/ \E j \in 1 .. i - 1 : t[j].at \in {"input", "exec"}
  <2>1. CASE i = 1
    BY <1>3, <2>1
  <2>2. CASE i # 1
    <3>1. i \in 2 .. Len(u) + 1 /\ 1 \in 1 .. i - 1
      BY <1>3, <2>2
    <3>2. t[i] = s[(i - 1) + 1] /\ (i - 1) + 1 \in DOMAIN s /\ t[i].at \notin {"each", "input"}
      BY <1>1, <1>2, <1>3, <3>1 DEF Loopless
    <3> QED
      BY <1>3, <3>1, <3>2 DEF Calm
  <2> QED
    BY <2>1, <2>2
<1>5. Calm(t, L2, q2)
  BY <1>4 DEF Calm
<1> QED
  BY <1>5 DEF t, u

\* The list loses a module that no loop is at; commands leave the queue.
LEMMA CalmLess ==
  ASSUME NEW s \in Seq(Frames), NEW L, NEW q, Calm(s, L, q), NEW L2, NEW q2,
         \A i \in DOMAIN s : s[i].at \in {"each", "input"} => s[i].itr \in L2 \cup {Nil},
         \A m : Unqueued(q, m) => Unqueued(q2, m)
  PROVE  Calm(s, L2, q2)
BY DEF Calm

LEMMA CalmLoopless ==
  ASSUME NEW s \in Seq(Frames), NEW L, NEW q, Calm(s, L, q), Loopless(s), NEW L2
  PROVE  Calm(s, L2, q)
BY CalmLess DEF Loopless

\* FlushMessageQueue returns, and may have killed the module.
LEMMA CalmFlushed ==
  ASSUME NEW s \in Seq(Frames), NEW L, NEW q, Calm(s, L, q), s # <<>>, s[1].at = "flush",
         NEW L2, L \ {s[1].mod} \subseteq L2
  PROVE  Calm(Tail(s), L2, q)
<1>1. \A i \in DOMAIN s : s[i].at \in {"each", "input"} => s[i].itr \in L2 \cup {Nil}
  BY DEF Calm
<1>2. Calm(s, L2, q)
  BY <1>1, CalmLess
<1> QED
  BY <1>2, CalmTail
-----------------------------------------------------------------------------
(* The commands of one module *)

LEMMA InputFacts ==
  ASSUME NEW e \in Input
  PROVE  e.mod \in Modules /\ e.num \in 1 .. MaxInputs /\ e.num \in Nat /\ MaxInputs \in Nat
BY ModuleLinkAssumption DEF Input

LEMMA OrderGrows ==
  ASSUME NEW m, NEW q \in Seq(Input), NEW w \in Seq(Input), NEW r \in Nat, NEW n \in Nat,
         InOrder(m, q, w, r, n)
  PROVE  InOrder(m, q, w, r, n + 1)
<1>1. \A i \in DOMAIN q : q[i].num \in Nat
  BY InputFacts
<1>2. \A i \in DOMAIN w : w[i].num \in Nat
  BY InputFacts
<1> QED
  BY <1>1, <1>2 DEF InOrder

\* a command moves from the pipe to the queue
LEMMA OrderReceived ==
  ASSUME NEW m, NEW q \in Seq(Input), NEW w \in Seq(Input), NEW r \in Nat, NEW n \in Nat,
         InOrder(m, q, w, r, n), w # <<>>, NEW e \in Input, e = w[1]
  PROVE  InOrder(m, Append(q, e), Tail(w), r, n)
<1> DEFINE q2 == Append(q, e)
           w2 == Tail(w)
<1>1. /\ DOMAIN q2 = 1 .. Len(q) + 1 /\ q2[Len(q) + 1] = e /\ Len(q) \in Nat
      /\ \A i \in 1 .. Len(q) : q2[i] = q[i]
  BY AppendFacts
<1>2. /\ DOMAIN w2 = 1 .. Len(w) - 1 /\ Len(w) >= 1 /\ Len(w) \in Nat
      /\ \A i \in DOMAIN w2 : w2[i] = w[i + 1] /\ i + 1 \in DOMAIN w
  BY PopFacts
<1>3. DOMAIN q = 1 .. Len(q) /\ 1 \in DOMAIN w
  BY <1>2
<1> HIDE DEF q2, w2
<1>4. ASSUME NEW i \in DOMAIN q2, q2[i].mod = m PROVE r < q2[i].num /\ q2[i].num <= n
  <2>1. i \in DOMAIN q \/ i = Len(q) + 1
    BY <1>1, <1>3
  <2> QED
    BY <1>1, <1>3, <1>4, <2>1 DEF InOrder
<1>5. ASSUME NEW i \in DOMAIN q2, NEW j \in DOMAIN q2, i < j, q2[i].mod = m, q2[j].mod = m
      PROVE  q2[i].num < q2[j].num
  <2>1. i \in DOMAIN q /\ (j \in DOMAIN q \/ j = Len(q) + 1)
    BY <1>1, <1>3, <1>5
  <2> QED
    BY <1>1, <1>3, <1>5, <2>1 DEF InOrder
<1>6. ASSUME NEW i \in DOMAIN q2, NEW j \in DOMAIN w2, q2[i].mod = m
      PROVE  q2[i].num < w2[j].num
  <2>1. i \in DOMAIN q \/ i = Len(q) + 1
    BY <1>1, <1>3
  <2>2. w2[j] = w[j + 1] /\ j + 1 \in DOMAIN w /\ 1 < j + 1
    BY <1>2
  <2> QED
    BY <1>1, <1>3, <1>6, <2>1, <2>2 DEF InOrder
<1>7. ASSUME NEW i \in DOMAIN w2, NEW j \in DOMAIN w2, i < j
      PROVE  w2[i].num < w2[j].num
  <2>1. i + 1 < j + 1
    BY <1>2, <1>7
  <2> QED
    BY <1>2, <2>1 DEF InOrder
<1>8. \A i \in DOMAIN w2 : r < w2[i].num /\ w2[i].num <= n
  BY <1>2 DEF InOrder
<1>9. InOrder(m, q2, w2, r, n)
  BY <1>4, <1>5, <1>6, <1>7, <1>8 DEF InOrder
<1> QED
  BY <1>9 DEF q2, w2

LEMMA OrderReceivedOther ==
  ASSUME NEW m, NEW q \in Seq(Input), NEW w \in Seq(Input), NEW r, NEW n,
         InOrder(m, q, w, r, n), NEW e \in Input, e.mod # m
  PROVE  InOrder(m, Append(q, e), w, r, n)
<1> DEFINE q2 == Append(q, e)
<1>1. /\ DOMAIN q2 = 1 .. Len(q) + 1 /\ q2[Len(q) + 1] = e /\ Len(q) \in Nat
      /\ \A i \in 1 .. Len(q) : q2[i] = q[i]
  BY AppendFacts
<1>2. DOMAIN q = 1 .. Len(q)
  OBVIOUS
<1> HIDE DEF q2
<1>3. \A i \in DOMAIN q2 : q2[i].mod = m => i \in DOMAIN q /\ q2[i] = q[i]
  BY <1>1, <1>2
<1>4. InOrder(m, q2, w, r, n)
  BY <1>3 DEF InOrder
<1> QED
  BY <1>4 DEF q2

\* the first command of the queue is executed
LEMMA OrderExecuted ==
  ASSUME NEW m, NEW q \in Seq(Input), NEW w \in Seq(Input), NEW r \in Nat, NEW n \in Nat,
         InOrder(m, q, w, r, n), q # <<>>
  PROVE  /\ q[1].mod = m => InOrder(m, Tail(q), w, q[1].num, n)
         /\ q[1].mod # m => InOrder(m, Tail(q), w, r, n)
<1> DEFINE q2 == Tail(q)
<1>1. /\ DOMAIN q2 = 1 .. Len(q) - 1 /\ Len(q) >= 1 /\ Len(q) \in Nat
      /\ \A i \in DOMAIN q2 : q2[i] = q[i + 1] /\ i + 1 \in DOMAIN q
  BY PopFacts
<1>2. 1 \in DOMAIN q
  BY <1>1
<1> HIDE DEF q2
<1>3. \A i \in DOMAIN q2 : 1 < i + 1
  BY <1>1
<1>4. ASSUME NEW i \in DOMAIN q2, NEW j \in DOMAIN q2, i < j, q2[i].mod = m, q2[j].mod = m
      PROVE  q2[i].num < q2[j].num
  <2>1. i + 1 < j + 1
    BY <1>1, <1>4
  <2> QED
    BY <1>1, <1>4, <2>1 DEF InOrder
<1>5. CASE q[1].mod = m
  <2>1. InOrder(m, q2, w, q[1].num, n)
    BY <1>1, <1>2, <1>3, <1>4, <1>5 DEF InOrder
  <2> QED
    BY <1>5, <2>1 DEF q2
<1>6. CASE q[1].mod # m
  <2>1. InOrder(m, q2, w, r, n)
    BY <1>1, <1>2, <1>3, <1>4 DEF InOrder
  <2> QED
    BY <1>6, <2>1 DEF q2
<1> QED
  BY <1>5, <1>6

\* nothing is queued: a command from the pipe is executed, or dropped
LEMMA OrderAnswered ==
  ASSUME NEW m, NEW q \in Seq(Input), NEW w \in Seq(Input), NEW r \in Nat, NEW n \in Nat,
         InOrder(m, q, w, r, n), w # <<>>, Unqueued(q, m)
  PROVE  InOrder(m, q, Tail(w), w[1].num, n) /\ InOrder(m, q, Tail(w), r, n)
<1> DEFINE w2 == Tail(w)
<1>1. /\ DOMAIN w2 = 1 .. Len(w) - 1 /\ Len(w) >= 1 /\ Len(w) \in Nat
      /\ \A i \in DOMAIN w2 : w2[i] = w[i + 1] /\ i + 1 \in DOMAIN w
  BY PopFacts
<1>2. 1 \in DOMAIN w
  BY <1>1
<1> HIDE DEF w2
<1>3. ASSUME NEW i \in DOMAIN w2, NEW j \in DOMAIN w2, i < j
      PROVE  w2[i].num < w2[j].num
  <2>1. i + 1 < j + 1
    BY <1>1, <1>3
  <2> QED
    BY <1>1, <2>1 DEF InOrder
<1>4. \A i \in DOMAIN w2 : 1 < i + 1
  BY <1>1
<1>5. /\ w[1].num <= n
      /\ \A i \in DOMAIN w2 : w[1].num < w2[i].num /\ r < w2[i].num /\ w2[i].num <= n
  BY <1>1, <1>2, <1>4 DEF InOrder
<1>6. InOrder(m, q, w2, w[1].num, n) /\ InOrder(m, q, w2, r, n)
  BY <1>3, <1>5 DEF InOrder, Unqueued
<1> QED
  BY <1>6 DEF w2

\* the module sends one more
LEMMA OrderSent ==
  ASSUME NEW m, NEW q \in Seq(Input), NEW w \in Seq(Input), NEW r \in Nat, NEW n \in Nat,
         InOrder(m, q, w, r, n), NEW e \in Input, e.num = n + 1
  PROVE  InOrder(m, q, Append(w, e), r, n + 1)
<1> DEFINE w2 == Append(w, e)
<1>1. /\ DOMAIN w2 = 1 .. Len(w) + 1 /\ w2[Len(w) + 1] = e /\ Len(w) \in Nat
      /\ \A i \in 1 .. Len(w) : w2[i] = w[i]
  BY AppendFacts
<1>2. DOMAIN w = 1 .. Len(w)
  OBVIOUS
<1>3. \A i \in DOMAIN q : q[i].num \in Nat
  BY InputFacts
<1>4. \A i \in DOMAIN w : w[i].num \in Nat
  BY InputFacts
<1> HIDE DEF w2
<1>5. \A i \in DOMAIN w2 : (i \in DOMAIN w /\ w2[i] = w[i]) \/ (i = Len(w) + 1 /\ w2[i] = e)
  BY <1>1, <1>2
<1>6. \A i \in DOMAIN w2 : r < w2[i].num /\ w2[i].num <= n + 1
  BY <1>4, <1>5 DEF InOrder
<1>7. ASSUME NEW i \in DOMAIN w2, NEW j \in DOMAIN w2, i < j PROVE w2[i].num < w2[j].num
  <2>1. i \in DOMAIN w /\ w2[i] = w[i]
    BY <1>1, <1>2, <1>7
  <2> QED
    BY <1>4, <1>5, <1>7, <2>1 DEF InOrder
<1>8. ASSUME NEW i \in DOMAIN q, NEW j \in DOMAIN w2, q[i].mod = m PROVE q[i].num < w2[j].num
  BY <1>3, <1>4, <1>5, <1>8 DEF InOrder
<1>9. \A i \in DOMAIN q : q[i].mod = m => r < q[i].num /\ q[i].num <= n + 1
  BY <1>3 DEF InOrder
<1>10. InOrder(m, q, w2, r, n + 1)
  BY <1>6, <1>7, <1>8, <1>9 DEF InOrder
<1> QED
  BY <1>10 DEF w2
-----------------------------------------------------------------------------
(* The commands of all modules *)

LEMMA OrderTypes ==
  ASSUME IInv
  PROVE  /\ cqueue \in Seq(Input) /\ wire \in [Modules -> WireType]
         /\ ran \in [Modules -> 0 .. MaxInputs]
         /\ inputs \in Nat /\ MaxInputs \in Nat /\ inputs <= MaxInputs
         /\ \A m \in Modules : wire[m].input \in Seq(Input) /\ ran[m] \in Nat
BY ModuleLinkAssumption DEF IInv, LoopTypes, LinkTypes, WireType

SameInputs ==
  /\ cqueue' = cqueue /\ ran' = ran /\ inputs' = inputs
  /\ \A m \in Modules : wire'[m].input = wire[m].input

Hears ==
  \/ InputNext \/ ExecNext \/ AnswerOrInput
  \/ \E m \in Modules, text \in Texts, last \in BOOLEAN : ModuleSends(m, text, last)

LEMMA PositiveWriteHears ==
  ASSUME NEW m, NEW msg, NEW rest, PositiveWrite(m, msg, rest)
  PROVE  wire' = wire /\ inputs' = inputs
BY DEF PositiveWrite, linkVars

LEMMA CmdModuleHears ==
  ASSUME IInv, NEW m \in Modules, NEW listens \in BOOLEAN, NEW waits \in BOOLEAN,
         CmdModule(m, listens, waits)
  PROVE  SameInputs
<1>1. wire \in [Modules -> WireType]
  BY OrderTypes
<1>2. /\ ~Started(m) /\ wire' = [wire EXCEPT ![m] = On]
      /\ cqueue' = cqueue /\ ran' = ran /\ inputs' = inputs
  BY DEF CmdModule, Started
<1>3. wire[m].input = <<>> /\ On.input = <<>>
  BY <1>2 DEF IInv, LinksStarted, On
<1> QED
  BY <1>1, <1>2, <1>3 DEF SameInputs

LEMMA FlushWriteHears ==
  ASSUME IInv, FlushWrite
  PROVE  SameInputs
<1>1. wire \in [Modules -> WireType] /\ Running /\ Top.mod \in Modules
  BY OrderTypes, TopFacts DEF FlushWrite, Runs
<1>2. PICK n \in Modules : n = Top.mod
  BY <1>1
<1>3. /\ \E s : wire' = [wire EXCEPT ![n].sent = s]
      /\ cqueue' = cqueue /\ ran' = ran /\ inputs' = inputs
  BY <1>2, Zenon DEF FlushWrite
<1>4. PICK s : wire' = [wire EXCEPT ![n].sent = s]
  BY <1>3
<1> QED
  BY <1>1, <1>3, <1>4 DEF SameInputs, WireType

LEMMA OthersHearNothing ==
  ASSUME IInv, Next, ~Hears
  PROVE  SameInputs
<1>1. UNCHANGED linkVars /\ cqueue' = cqueue /\ ran' = ran => SameInputs
  BY DEF linkVars, SameInputs
<1>2. wire' = wire /\ inputs' = inputs /\ cqueue' = cqueue /\ ran' = ran => SameInputs
  BY DEF SameInputs
<1>3. CASE Loops
  BY <1>1, <1>3 DEF Hears, Loops, LoopEnds, LoopEvent, LoopReturn, LoopIdle, LoopSelect,
            LoopTerminated, LoopTimeout, InputEnd, ExecEnd, WaitDone
<1>4. CASE Commands
  <2>1. CASE \E m \in Modules, listens, waits \in BOOLEAN : CmdModule(m, listens, waits)
    BY <2>1, CmdModuleHears
  <2>2. CASE \/ \E type \in Types, flushes \in BOOLEAN : CmdReply(type, flushes)
             \/ \E which \in Masks, half \in {Extended, Types \ Extended} :
                  \E types \in SUBSET half : CmdSetMask(which, half, types)
    BY <1>2, <2>2, PositiveWriteHears DEF CmdReply, CmdSetMask
  <2>3. CASE \/ \E S \in SUBSET Modules : CmdKillModule(S)
             \/ \E type \in Types : CmdBroadcast(type)
             \/ \E type \in Types \ Extended, S \in SUBSET Modules : CmdSendToModule(type, S)
             \/ CmdFlushAll \/ MyXGrabServer \/ MyXUngrabServer \/ CmdWait \/ CmdReturn
    BY <1>1, <2>3 DEF CmdKillModule, CmdBroadcast, CmdSendToModule, CmdFlushAll,
                  MyXGrabServer, MyXUngrabServer, CmdWait, CmdReturn
  <2> QED
    BY <1>4, <2>1, <2>2, <2>3 DEF Commands
<1>5. CASE Calls
  <2>1. CASE EachNext
    <3>1. /\ cqueue' = cqueue /\ ran' = ran
          /\ UNCHANGED linkVars \/ \E m, msg, rest : PositiveWrite(m, msg, rest)
      BY <2>1 DEF EachNext
    <3> QED
      BY <1>1, <1>2, <3>1, PositiveWriteHears
  <2>2. CASE FlushWrite
    BY <2>2, FlushWriteHears
  <2>3. CASE EachEnd \/ FlushFails \/ FlushEnd \/ PwTimeout \/ SyncFlush \/ SyncGivesUp
             \/ AnswerTerminated
    BY <1>1, <2>3 DEF EachEnd, FlushFails, FlushEnd, PwTimeout, SyncFlush, SyncGivesUp,
                  AnswerTerminated
  <2> QED
    BY <1>5, <2>1, <2>2, <2>3 DEF Calls, Hears
<1>6. CASE Dangling \/ Terminate
  BY <1>1, <1>6 DEF Dangling, Terminate
<1>7. CASE Processes
  <2>1. PICK m \in Modules : ModuleReads(m) \/ ModuleExits(m)
    BY <1>7 DEF Processes, Hears
  <2>2. /\ cqueue' = cqueue /\ ran' = ran /\ inputs' = inputs
        /\ \/ wire' = [wire EXCEPT ![m].read = @ + 1]
           \/ wire' = [wire EXCEPT ![m].up = FALSE]
    BY <2>1 DEF ModuleReads, ModuleExits
  <2> QED
    BY <2>2, OrderTypes DEF SameInputs, WireType
<1> QED
  BY <1>3, <1>4, <1>5, <1>6, <1>7 DEF Next

\* What module_receive does to the pipe
LEMMA ReceivedFacts ==
  ASSUME IInv, NEW m \in Modules, Receive(m)
  PROVE  /\ inputs' = inputs
         /\ \A n \in Modules : n # m => wire'[n].input = wire[n].input
         /\ Received(m) = Nil => wire'[m].input = wire[m].input
         /\ Received(m) # Nil =>
              /\ wire[m].input # <<>> /\ wire'[m].input = Tail(wire[m].input)
              /\ Received(m) = wire[m].input[1]
              /\ Received(m) \in Input /\ Received(m).mod = m
<1>1. wire \in [Modules -> WireType]
  BY OrderTypes
<1>2. /\ inputs' = inputs
      /\ IF Received(m) = Nil THEN wire' = wire
         ELSE wire' = [wire EXCEPT ![m].input = Tail(wire[m].input)]
  BY Zenon DEF Receive
<1>3. Received(m) # Nil => wire[m].input # <<>> /\ Received(m) = wire[m].input[1]
  BY DEF Received
<1>4. Received(m) # Nil => Received(m) \in Input /\ Received(m).mod = m
  BY ReceiveLinks DEF IInv, LinkInv
<1>5. CASE Received(m) = Nil
  BY <1>2, <1>5
<1>6. CASE Received(m) # Nil
  BY <1>1, <1>2, <1>3, <1>4, <1>6 DEF WireType
<1> QED
  BY <1>5, <1>6

LEMMA InputNextOrder ==
  ASSUME IInv, CalmInv, InputNext
  PROVE  AllInOrder'
<1>1. PICK m \in Modules : m = Top.itr
  BY ListedStarted DEF InputNext
<1>2. /\ ran' = ran
      /\ \/ UNCHANGED linkVars /\ cqueue' = cqueue
         \/ Receive(m) /\ Received(m) = Nil /\ cqueue' = cqueue
         \/ Receive(m) /\ Received(m) # Nil /\ cqueue' = Append(cqueue, Received(m))
  BY <1>1 DEF InputNext
<1>3. CASE cqueue' = cqueue /\ inputs' = inputs /\ \A n \in Modules : wire'[n].input = wire[n].input
  BY <1>2, <1>3 DEF AllInOrder, CalmInv
<1>4. CASE Receive(m) /\ Received(m) # Nil /\ cqueue' = Append(cqueue, Received(m))
  <2>1. /\ inputs' = inputs /\ \A n \in Modules : n # m => wire'[n].input = wire[n].input
        /\ wire[m].input # <<>> /\ wire'[m].input = Tail(wire[m].input)
        /\ Received(m) = wire[m].input[1] /\ Received(m) \in Input /\ Received(m).mod = m
    BY <1>4, ReceivedFacts
  <2>2. PICK e \in Input : e = Received(m)
    BY <2>1
  <2>3. cqueue' = Append(cqueue, e)
    BY <1>4, <2>2
  <2>4. ASSUME NEW n \in Modules
        PROVE  InOrder(n, cqueue', wire'[n].input, ran'[n], inputs')
    <3>1. /\ cqueue \in Seq(Input) /\ wire[n].input \in Seq(Input) /\ ran[n] \in Nat
          /\ inputs \in Nat /\ InOrder(n, cqueue, wire[n].input, ran[n], inputs)
      BY OrderTypes DEF AllInOrder, CalmInv
    <3>2. CASE n = m
      BY <1>2, <2>1, <2>2, <2>3, <3>1, <3>2, OrderReceived
    <3>3. CASE n # m
      BY <1>2, <2>1, <2>2, <2>3, <3>1, <3>3, OrderReceivedOther
    <3> QED
      BY <3>2, <3>3
  <2> QED
    BY <2>4 DEF AllInOrder
<1>5. CASE UNCHANGED linkVars /\ cqueue' = cqueue
  BY <1>3, <1>5 DEF linkVars
<1>6. CASE Receive(m) /\ Received(m) = Nil /\ cqueue' = cqueue
  <2>1. inputs' = inputs /\ \A n \in Modules : wire'[n].input = wire[n].input
    BY <1>6, ReceivedFacts
  <2> QED
    BY <1>3, <1>6, <2>1
<1> QED
  BY <1>2, <1>4, <1>5, <1>6

LEMMA ExecNextOrder ==
  ASSUME IInv, CalmInv, ExecNext
  PROVE  AllInOrder'
<1>1. /\ cqueue # <<>> /\ cqueue' = Tail(cqueue) /\ UNCHANGED linkVars
      /\ ran' = [ran EXCEPT ![cqueue[1].mod] = cqueue[1].num]
  <2>1. /\ cqueue # <<>> /\ cqueue' = Tail(cqueue) /\ UNCHANGED linkVars
        /\ ran' = [ran EXCEPT ![Head(cqueue).mod] = Head(cqueue).num]
    BY DEF ExecNext, Execute
  <2>2. Head(cqueue) = cqueue[1]
    BY <2>1, OrderTypes
  <2> QED
    BY <2>1, <2>2
<1>2. cqueue \in Seq(Input) /\ cqueue[1] \in Input /\ cqueue[1].mod \in Modules
  BY <1>1, OrderTypes, PopFacts, InputFacts
<1>3. ASSUME NEW n \in Modules
      PROVE  InOrder(n, cqueue', wire'[n].input, ran'[n], inputs')
  <2>1. /\ wire[n].input \in Seq(Input) /\ ran[n] \in Nat /\ wire' = wire /\ inputs' = inputs
        /\ inputs \in Nat /\ InOrder(n, cqueue, wire[n].input, ran[n], inputs)
    BY <1>1, OrderTypes DEF AllInOrder, CalmInv, linkVars
  <2>2. ran'[n] = IF cqueue[1].mod = n THEN cqueue[1].num ELSE ran[n]
    BY <1>1, OrderTypes
  <2>3. /\ cqueue[1].mod = n => InOrder(n, Tail(cqueue), wire[n].input, cqueue[1].num, inputs)
        /\ cqueue[1].mod # n => InOrder(n, Tail(cqueue), wire[n].input, ran[n], inputs)
    BY <1>1, <1>2, <2>1, OrderExecuted
  <2> QED
    BY <1>1, <2>1, <2>2, <2>3
<1> QED
  BY <1>3 DEF AllInOrder

\* While CMD_ModuleSynchronous waits, no command of the module is queued.
LEMMA CalmAwaits ==
  ASSUME IInv, CalmInv, Running, Top.at \in {"pw", "sync"}
  PROVE  Top.at = "sync" /\ Top.mod \in Modules /\ Unqueued(cqueue, Top.mod)
<1>1. 1 \in DOMAIN stack /\ Top = stack[1] /\ Top.mod \in Modules
  BY TopFacts
<1>2. \A j \in 1 .. 1 - 1 : FALSE
  OBVIOUS
<1> QED
  BY <1>1, <1>2 DEF CalmInv, CalmStack, Calm

LEMMA AnswerOrder ==
  ASSUME IInv, CalmInv, AnswerOrInput
  PROVE  AllInOrder'
<1>1. Running /\ Top.at \in {"pw", "sync"} /\ Receive(Top.mod) /\ cqueue' = cqueue
  BY DEF AnswerOrInput, Runs
<1>2. PICK m \in Modules : m = Top.mod /\ Unqueued(cqueue, m)
  BY <1>1, CalmAwaits
<1>3. Receive(m)
  BY <1>1, <1>2
<1>4. \/ ran' = ran
      \/ Received(m) # Nil /\ ran' = [ran EXCEPT ![Received(m).mod] = Received(m).num]
  BY <1>2 DEF AnswerOrInput, Execute
<1>5. CASE Received(m) = Nil
  BY <1>1, <1>3, <1>4, <1>5, ReceivedFacts DEF AllInOrder, CalmInv
<1>6. CASE Received(m) # Nil
  <2>1. /\ inputs' = inputs /\ \A n \in Modules : n # m => wire'[n].input = wire[n].input
        /\ wire[m].input # <<>> /\ wire'[m].input = Tail(wire[m].input)
        /\ Received(m) = wire[m].input[1] /\ Received(m) \in Input /\ Received(m).mod = m
    BY <1>3, <1>6, ReceivedFacts
  <2>2. /\ ran'[m] \in {ran[m], wire[m].input[1].num}
        /\ \A n \in Modules : n # m => ran'[n] = ran[n]
    BY <1>4, <2>1, OrderTypes
  <2>3. ASSUME NEW n \in Modules
        PROVE  InOrder(n, cqueue', wire'[n].input, ran'[n], inputs')
    <3>1. /\ cqueue \in Seq(Input) /\ wire[n].input \in Seq(Input) /\ ran[n] \in Nat
          /\ inputs \in Nat /\ InOrder(n, cqueue, wire[n].input, ran[n], inputs)
      BY OrderTypes DEF AllInOrder, CalmInv
    <3>2. CASE n = m
      <4>1. /\ InOrder(m, cqueue, Tail(wire[m].input), wire[m].input[1].num, inputs)
            /\ InOrder(m, cqueue, Tail(wire[m].input), ran[m], inputs)
        BY <1>2, <2>1, <3>1, <3>2, OrderAnswered
      <4> QED
        BY <1>1, <2>1, <2>2, <3>2, <4>1
    <3>3. CASE n # m
      BY <1>1, <2>1, <2>2, <3>1, <3>3
    <3> QED
      BY <3>2, <3>3
  <2> QED
    BY <2>3 DEF AllInOrder
<1> QED
  BY <1>5, <1>6

LEMMA SendsOrder ==
  ASSUME IInv, CalmInv, NEW m \in Modules, NEW text \in Texts, NEW last \in BOOLEAN,
         ModuleSends(m, text, last)
  PROVE  AllInOrder'
<1> DEFINE e == [mod |-> m, num |-> inputs + 1, text |-> text, last |-> last]
<1>1. /\ inputs < MaxInputs /\ inputs' = inputs + 1 /\ cqueue' = cqueue /\ ran' = ran
      /\ wire' = [wire EXCEPT ![m].input = Append(@, e)]
  BY DEF ModuleSends
<1>2. inputs \in Nat /\ MaxInputs \in Nat
  BY OrderTypes
<1>3. e \in Input /\ e.num = inputs + 1
  BY <1>1, <1>2 DEF Input
<1>4. /\ wire'[m].input = Append(wire[m].input, e)
      /\ \A n \in Modules : n # m => wire'[n].input = wire[n].input
  BY <1>1, OrderTypes DEF WireType
<1> HIDE DEF e
<1>5. ASSUME NEW n \in Modules
      PROVE  InOrder(n, cqueue', wire'[n].input, ran'[n], inputs')
  <2>1. /\ cqueue \in Seq(Input) /\ wire[n].input \in Seq(Input) /\ ran[n] \in Nat
        /\ inputs \in Nat /\ InOrder(n, cqueue, wire[n].input, ran[n], inputs)
    BY OrderTypes DEF AllInOrder, CalmInv
  <2>2. CASE n = m
    BY <1>1, <1>3, <1>4, <2>1, <2>2, OrderSent
  <2>3. CASE n # m
    BY <1>1, <1>4, <2>1, <2>3, OrderGrows
  <2> QED
    BY <2>2, <2>3
<1> QED
  BY <1>5 DEF AllInOrder

LEMMA OrderStep ==
  ASSUME IInv, CalmInv, Next
  PROVE  AllInOrder'
<1>1. CASE Hears
  BY <1>1, InputNextOrder, ExecNextOrder, AnswerOrder, SendsOrder DEF Hears
<1>2. CASE ~Hears
  BY <1>2, OthersHearNothing DEF SameInputs, AllInOrder, CalmInv
<1> QED
  BY <1>1, <1>2
-----------------------------------------------------------------------------
(* Nothing is synchronous, and loops stay calm *)

LEMMA UnmaskedWrite ==
  ASSUME IInv, NoneSync, NEW m \in Modules, NEW msg, NEW rest, PositiveWrite(m, msg, rest)
  PROVE  NoneSync' /\ stack' = rest
<1>1. fmod \in [Modules -> FmodType]
  BY DEF IInv, LinkTypes
<1>2. ~Locks(m, msg)
  BY DEF Locks, NoneSync
<1>3. stack' = rest /\ (fmod' = fmod \/ \E q : fmod' = [fmod EXCEPT ![m].queue = q])
  BY <1>2 DEF PositiveWrite, linkVars
<1> QED
  BY <1>1, <1>3 DEF NoneSync, FmodType

LEMMA EachUnmasked ==
  ASSUME IInv, NoneSync, EachNext
  PROVE  /\ NoneSync' /\ Top.itr \in ToSet(module_list)
         /\ \E f : /\ f = [Top EXCEPT !.itr = ItrNext(Top.itr)]
                   /\ stack' \in {Goto(f), <<Of("flush", Top.itr)>> \o Goto(f)}
<1>1. PICK m \in Modules : m = Top.itr /\ m \in ToSet(module_list)
  BY ListedStarted DEF EachNext
<1>2. PICK f : f = [Top EXCEPT !.itr = ItrNext(m)]
  OBVIOUS
<1>3. PICK t : /\ t \in {Goto(f), <<Of("flush", m)>> \o Goto(f)}
               /\ PositiveWrite(m, Top.msg, t) \/ (stack' = t /\ UNCHANGED linkVars)
  BY <1>1, <1>2 DEF EachNext
<1>4. NoneSync' /\ stack' = t
  BY <1>3, UnmaskedWrite DEF linkVars, NoneSync
<1> QED
  BY <1>1, <1>2, <1>3, <1>4

LEMMA NoneSyncStep ==
  ASSUME "sync" \notin Masks, IInv, NoneSync, Next
  PROVE  NoneSync'
<1>0. fmod \in [Modules -> FmodType]
  BY DEF IInv, LinkTypes
<1>1. fmod' = fmod => NoneSync'
  BY DEF NoneSync
<1>2. CASE Loops
  BY <1>1, <1>2 DEF Loops, LoopEnds, LoopEvent, LoopReturn, LoopIdle, LoopSelect, InputNext,
            LoopTerminated, LoopTimeout, InputEnd, ExecNext, ExecEnd, WaitDone, linkVars, Receive
<1>3. CASE Commands
  <2>1. CASE \E m \in Modules, listens, waits \in BOOLEAN : CmdModule(m, listens, waits)
    <3>1. \E m, w : fmod' = [fmod EXCEPT ![m].writefd = w]
      BY <2>1 DEF CmdModule
    <3> QED
      BY <1>0, <3>1 DEF NoneSync, FmodType
  <2>2. CASE \E type \in Types, flushes \in BOOLEAN : CmdReply(type, flushes)
    <3>1. /\ Running /\ Top.mod # Nil
          /\ \E msg, rest : PositiveWrite(Top.mod, msg, rest)
      BY <2>2 DEF CmdReply, Runs
    <3> QED
      BY <3>1, TopFacts, UnmaskedWrite
  <2>3. CASE \E which \in Masks, half \in {Extended, Types \ Extended} :
               \E types \in SUBSET half : CmdSetMask(which, half, types)
    <3>1. PICK which \in Masks : \E half, types : CmdSetMask(which, half, types)
      BY <2>3
    <3>2. PICK half, types : CmdSetMask(which, half, types)
      BY <3>1
    <3>3. /\ fmod' = [fmod EXCEPT ![Top.mod] = WithMask(@, which, half, types)]
          /\ which # "sync"
      BY <3>2 DEF CmdSetMask
    <3>4. \A m \in Modules : WithMask(fmod[m], which, half, types).sync = fmod[m].sync
      BY <1>0, <3>3 DEF WithMask, FmodType
    <3> QED
      BY <1>0, <3>3, <3>4 DEF NoneSync
  <2>4. CASE \/ \E S \in SUBSET Modules : CmdKillModule(S)
             \/ \E type \in Types : CmdBroadcast(type)
             \/ \E type \in Types \ Extended, S \in SUBSET Modules : CmdSendToModule(type, S)
             \/ CmdFlushAll \/ MyXGrabServer \/ MyXUngrabServer \/ CmdWait \/ CmdReturn
    BY <1>1, <2>4 DEF CmdKillModule, CmdBroadcast, CmdSendToModule, CmdFlushAll,
                  MyXGrabServer, MyXUngrabServer, CmdWait, CmdReturn, linkVars
  <2> QED
    BY <1>3, <2>1, <2>2, <2>3, <2>4 DEF Commands
<1>4. CASE Calls
  <2>1. CASE FlushWrite
    <3>1. \E q : fmod' = [fmod EXCEPT ![Top.mod].queue = q]
      BY <2>1 DEF FlushWrite
    <3> QED
      BY <1>0, <3>1 DEF NoneSync, FmodType
  <2>2. CASE EachEnd \/ FlushFails \/ FlushEnd \/ AnswerOrInput \/ PwTimeout \/ SyncFlush
             \/ SyncGivesUp \/ AnswerTerminated
    BY <1>1, <2>2 DEF EachEnd, FlushFails, FlushEnd, AnswerOrInput, PwTimeout, SyncFlush,
                  SyncGivesUp, AnswerTerminated, Receive, linkVars
  <2> QED
    BY <1>4, <2>1, <2>2, EachUnmasked DEF Calls
<1>5. CASE Dangling \/ Terminate \/ Processes
  BY <1>1, <1>5 DEF Dangling, Terminate, Processes, ModuleReads, ModuleExits, ModuleSends, linkVars
<1> QED
  BY <1>2, <1>3, <1>4, <1>5 DEF Next

LEMMA ItrElse ==
  ASSUME IInv
  PROVE  /\ ItrInit \in ToSet(module_list) \cup {Nil}
         /\ \A m \in ToSet(module_list) :
              /\ m # Nil /\ ItrNext(m) # m
              /\ ItrNext(m) \in ToSet(module_list) \cup {Nil}
<1>1. ListTypes /\ Distinct(module_list) /\ module_list \in Seq(Modules)
  BY DEF IInv, Owned, ListTypes
<1>2. ASSUME module_list # <<>> PROVE module_list[1] \in ToSet(module_list)
  <2>1. 1 \in DOMAIN module_list
    BY <1>1, <1>2, PopFacts
  <2> QED
    BY <2>1 DEF ToSet
<1>3. ASSUME NEW m \in ToSet(module_list)
      PROVE  /\ m # Nil /\ ItrNext(m) # m
             /\ ItrNext(m) \in ToSet(module_list) \cup {Nil}
  <2>1. m \in Modules /\ m # Nil
    BY ListedStarted, ModuleLinkAssumption
  <2>2. CASE ItrNext(m) = Nil
    BY <2>1, <2>2
  <2>3. CASE ItrNext(m) # Nil
    <3>1. ItrNext(m) \in ToSet(module_list)
      BY <1>1, <2>3, NextBeyond
    <3>2. Beyond(module_list, ItrNext(m), ItrNext(m))
      BY <1>1, <3>1, NextBeyond
    <3> QED
      BY <1>1, <2>1, <3>1, <3>2, NextBeyond
  <2> QED
    BY <2>2, <2>3
<1> QED
  BY <1>2, <1>3 DEF ItrInit

LEMMA LoopGoesCalm ==
  ASSUME IInv, CalmInv, Running, Top.at \in LoopPoints, NEW p \in LoopPoints \ {"input"},
         stack' \in {Goto(At(p)), <<At("cmd")>> \o Goto(At(p))},
         Top.at \notin {"input", "exec"} \/ cqueue = <<>>
  PROVE  Calm(stack', ToSet(module_list), cqueue)
<1> DEFINE L == ToSet(module_list)
           s == Tail(stack)
           t == <<At(p)>> \o s
<1>1. stack \in Seq(Frames) /\ stack # <<>> /\ stack[1] = Top /\ Calm(stack, L, cqueue)
  BY TopFacts DEF CalmInv, CalmStack
<1>2. Calm(s, L, cqueue) /\ Loopless(s) /\ s \in Seq(Frames)
  BY <1>1, CalmTail, TailLoopless, PopFacts DEF LoopPoints
<1>3. At(p) \in Frames /\ At("cmd") \in Frames /\ At(p).at = p /\ At("cmd").at = "cmd"
  BY AtFacts
<1> HIDE DEF L, s
<1>4. t \in Seq(Frames) /\ t # <<>> /\ t[1] = At(p)
  <2>1. t \in Seq(Frames) /\ Len(t) = Len(s) + 1 /\ Len(s) \in Nat /\ t[1] = At(p)
    BY <1>2, <1>3, PushFacts
  <2> QED
    BY <2>1
<1>5. Calm(t, L, cqueue)
  BY <1>2, <1>3, CalmPush DEF LoopPoints
<1> HIDE DEF t
<1>6. Calm(<<At("cmd")>> \o t, L, cqueue)
  <2>1. Loopless(t)
    BY <1>3, <1>4, <1>5, TopLoopless DEF LoopPoints
  <2> QED
    BY <1>3, <1>4, <1>5, <2>1, CalmPush
<1>7. stack' \in {t, <<At("cmd")>> \o t}
  BY DEF t, s, Goto
<1> QED
  BY <1>5, <1>6, <1>7 DEF L

\* A loop over the modules goes on at the next one, and flushes this one.
LEMMA IterateCalm ==
  ASSUME IInv, CalmInv, Running, Top.at \in {"each", "input"}, NEW m \in ToSet(module_list),
         NEW f, f = [Top EXCEPT !.itr = ItrNext(m)],
         NEW L2, ToSet(module_list) \ {m} \subseteq L2, NEW q2, q2 = cqueue \/ Top.at = "input",
         stack' \in {Goto(f), <<Of("flush", m)>> \o Goto(f)}
  PROVE  Calm(stack', L2, q2)
<1> DEFINE s == Tail(stack)
           t == <<f>> \o s
<1>1. /\ stack \in Seq(Frames) /\ stack # <<>> /\ stack[1] = Top /\ Top \in Frames
      /\ Calm(stack, ToSet(module_list), cqueue) /\ Top.at # "flush"
  BY TopFacts DEF CalmInv, CalmStack
<1>2. ItrNext(m) \in L2 \cup {Nil} /\ ItrNext(m) # m /\ ItrNext(m) \in Pointers /\ m \in Modules
  BY ItrElse, ItrFacts, ListedStarted DEF IInv
<1>3. f \in Frames /\ f.at = Top.at /\ f.itr = ItrNext(m)
  BY <1>1, <1>2 DEF Frames, Frame
<1>4. s \in Seq(Frames) /\ Loopless(s) 
  BY <1>1, TailLoopless, PopFacts
<1>5. Calm(t, L2, q2)
  <2>1. CASE Top.at = "input"
    BY <1>1, <1>2, <1>3, <2>1, CalmGoto
  <2>2. CASE Top.at = "each"
    <3>1. Calm(s, ToSet(module_list), cqueue) /\ q2 = cqueue
      BY <1>1, <2>2, CalmTail
    <3> HIDE DEF s
    <3> QED
      BY <1>2, <1>3, <1>4, <2>2, <3>1, CalmPush
  <2> QED
    BY <2>1, <2>2
<1> HIDE DEF s
<1>6. t \in Seq(Frames) /\ t # <<>> /\ t[1] = f
  <2>1. t \in Seq(Frames) /\ Len(t) = Len(s) + 1 /\ Len(s) \in Nat /\ t[1] = f
    BY <1>3, <1>4, PushFacts
  <2> QED
    BY <2>1
<1> HIDE DEF t
<1>7. Calm(<<Of("flush", m)>> \o t, L2, q2)
  <2>1. PICK g : g = Of("flush", m)
    OBVIOUS
  <2>2. g \in Frames /\ g.at = "flush" /\ g.mod = m
    BY <1>2, <2>1, OfFacts
  <2>3. t[1].at \in {"each", "input"} /\ g.mod # t[1].itr
    BY <1>2, <1>3, <1>6, <2>2
  <2>4. Calm(<<g>> \o t, L2, q2)
    BY <1>5, <1>6, <2>2, <2>3, CalmFlush
  <2> QED
    BY <2>1, <2>4
<1>8. stack' \in {t, <<Of("flush", m)>> \o t}
  <2>1. Goto(f) = t
    BY DEF t, s, Goto
  <2> QED
    BY <2>1, Zenon
<1> QED
  BY <1>5, <1>7, <1>8

LEMMA LoopsCalm ==
  ASSUME IInv, CalmInv, Loops
  PROVE  CalmStack'
<1> DEFINE L == ToSet(module_list)
<1>1. Running /\ Top.at \in LoopPoints
  BY DEF Loops, LoopEnds, LoopEvent, LoopReturn, LoopIdle, LoopSelect, LoopTerminated,
         LoopTimeout, InputNext, InputEnd, ExecNext, ExecEnd, WaitDone, Runs, LoopPoints
<1>2. /\ stack \in Seq(Frames) /\ stack # <<>> /\ stack[1] = Top /\ Calm(stack, L, cqueue)
      /\ Top.at # "flush"
  BY <1>1, TopFacts DEF CalmInv, CalmStack, LoopPoints
<1>3. CASE LoopEnds \/ WaitDone
  <2>1. /\ stack' = Tail(stack) /\ module_list' = module_list /\ cqueue' = cqueue
        /\ Top.at \notin {"input", "exec"}
    BY <1>3 DEF LoopEnds, WaitDone, Runs, listVars
  <2>2. Calm(Tail(stack), L, cqueue)
    BY <1>2, <2>1, CalmTail
  <2> QED
    BY <2>1, <2>2 DEF CalmStack
<1>4. CASE LoopEvent \/ LoopReturn \/ ExecEnd \/ LoopIdle \/ LoopTimeout \/ LoopTerminated
  <2>1. /\ \E p \in LoopPoints \ {"input"} :
             stack' \in {Goto(At(p)), <<At("cmd")>> \o Goto(At(p))}
        /\ Top.at \notin {"input", "exec"} \/ cqueue = <<>>
    BY <1>4 DEF LoopEvent, LoopReturn, ExecEnd, LoopIdle, LoopTimeout, LoopTerminated,
                Returned, Dispatched, Startup, LoopPoints, Runs
  <2>2. module_list' = module_list /\ cqueue' = cqueue
    BY <1>4 DEF LoopEvent, LoopReturn, ExecEnd, LoopIdle, LoopTimeout, LoopTerminated,
                Cleanup, listVars
  <2>3. Calm(stack', L, cqueue)
    BY <1>1, <2>1, LoopGoesCalm
  <2> QED
    BY <2>2, <2>3 DEF CalmStack
<1>5. CASE InputEnd
  <2>1. stack' = <<At("exec")>> \o Tail(stack)
    BY <1>5 DEF InputEnd, Goto
  <2>2. At("exec") \in Frames /\ At("exec").at = "exec"
    BY AtFacts DEF LoopPoints
  <2>3. Calm(stack', ToSet(module_list'), cqueue')
    BY <1>2, <2>1, <2>2, CalmGoto
  <2> QED
    BY <2>3 DEF CalmStack
<1>6. CASE LoopSelect
  <2> DEFINE f == [At("input") EXCEPT !.itr = ItrInit, !.in = ReadyIn, !.out = ReadyOut]
  <2>1. stack' = <<f>> \o Tail(stack) /\ module_list' = module_list
    BY <1>6 DEF LoopSelect, Goto, listVars
  <2>2. ItrInit \in Pointers /\ ReadyIn \in SUBSET Modules /\ ReadyOut \in SUBSET Modules
    BY ItrFacts, ListedStarted DEF ReadyIn, ReadyOut, IInv
  <2>3. f \in Frames /\ f.at = "input" /\ f.itr = ItrInit
    BY <2>2 DEF At, Frames, Frame, Pointers, LoopPoints
  <2> HIDE DEF f
  <2>4. f.itr \in ToSet(module_list') \cup {Nil}
    BY <2>1, <2>3, ItrElse
  <2>5. Calm(stack', ToSet(module_list'), cqueue')
    BY <1>2, <2>1, <2>3, <2>4, CalmGoto
  <2> QED
    BY <2>5 DEF CalmStack
<1>7. CASE InputNext
  <2>1. PICK m, f : m = Top.itr /\ f = [Top EXCEPT !.itr = ItrNext(m)]
    OBVIOUS
  <2>2. /\ stack' \in {Goto(f), <<Of("flush", m)>> \o Goto(f)} /\ m \in ToSet(module_list)
        /\ Top.at = "input" /\ (Receive(m) \/ UNCHANGED listVars)
    BY <1>7, <2>1 DEF InputNext, Runs
  <2>3. ToSet(module_list) \ {m} \subseteq ToSet(module_list')
    BY <2>2, KilledLists DEF Receive, listVars, IInv
  <2>4. Calm(stack', ToSet(module_list'), cqueue')
    BY <1>1, <2>1, <2>2, <2>3, IterateCalm
  <2> QED
    BY <2>4 DEF CalmStack
<1>8. CASE ExecNext
  <2>1. /\ cqueue # <<>> /\ cqueue' = Tail(cqueue) /\ module_list' = module_list
        /\ stack' = <<Of("cmd", Head(cqueue).mod)>> \o stack /\ Top.at = "exec"
    BY <1>8 DEF ExecNext, Execute, listVars, Runs
  <2>2. cqueue \in Seq(Input) /\ Head(cqueue) \in Input
    BY <2>1 DEF IInv, LoopTypes
  <2>3. ASSUME NEW m, Unqueued(cqueue, m) PROVE Unqueued(cqueue', m)
    <3>1. \A i \in DOMAIN cqueue' : cqueue'[i] = cqueue[i + 1] /\ i + 1 \in DOMAIN cqueue
      BY <2>1, <2>2, PopFacts
    <3> QED
      BY <2>3, <3>1 DEF Unqueued
  <2>4. Loopless(stack)
    BY <1>2, <2>1, TopLoopless
  <2>5. Calm(stack, L, cqueue')
    BY <1>2, <2>3, <2>4, CalmLess DEF Loopless
  <2>6. PICK m \in Modules : m = Head(cqueue).mod
    BY <2>2, InputFacts
  <2>7. Of("cmd", m) \in Frames /\ Of("cmd", m).at = "cmd"
    BY OfFacts
  <2>8. Calm(<<Of("cmd", m)>> \o stack, L, cqueue')
    BY <1>2, <2>4, <2>5, <2>7, CalmPush
  <2> QED
    BY <2>1, <2>6, <2>8 DEF CalmStack
<1> QED
  BY <1>3, <1>4, <1>5, <1>6, <1>7, <1>8 DEF Loops

LEMMA CommandsCalm ==
  ASSUME IInv, CalmInv, Commands
  PROVE  CalmStack'
<1> DEFINE L2 == ToSet(module_list')
<1>1. Running /\ Top.at = "cmd" /\ cqueue' = cqueue
  BY DEF Commands, CmdModule, CmdKillModule, CmdBroadcast, CmdSendToModule, CmdReply,
         CmdSetMask, CmdFlushAll, MyXGrabServer, MyXUngrabServer, CmdWait, CmdReturn, Runs
<1>2. /\ stack \in Seq(Frames) /\ stack # <<>> /\ stack[1] = Top
      /\ Calm(stack, ToSet(module_list), cqueue) /\ Loopless(stack)
      /\ Top.mod # Nil => Top.mod \in Modules
  BY <1>1, TopFacts, TopLoopless DEF CalmInv, CalmStack
<1>3. CASE stack' = stack
  <2>1. Calm(stack, L2, cqueue)
    BY <1>2, CalmLoopless
  <2> QED
    BY <1>1, <1>3, <2>1 DEF CalmStack
<1>4. ASSUME NEW f \in Frames, stack' = <<f>> \o stack, f.at # "pw",
             f.at \in {"each", "input"} => f.itr \in L2 \cup {Nil},
             f.at = "sync" => Unqueued(cqueue, f.mod)
      PROVE  CalmStack'
  <2>1. Calm(<<f>> \o stack, L2, cqueue)
    BY <1>2, <1>4, CalmPush
  <2> QED
    BY <1>1, <1>4, <2>1 DEF CalmStack
<1>5. ASSUME NEW m \in Modules, NEW listens \in BOOLEAN, NEW waits \in BOOLEAN,
             CmdModule(m, listens, waits)
      PROVE  CalmStack'
  <2>1. ~Started(m) /\ stack' \in {stack, <<Of("sync", m)>> \o stack}
    BY <1>5 DEF CmdModule, Push, Started
  <2>2. Unqueued(cqueue, m)
    BY <2>1 DEF Unqueued, IInv, HoldersStarted
  <2>3. Of("sync", m) \in Frames /\ Of("sync", m).at = "sync" /\ Of("sync", m).mod = m
    BY OfFacts
  <2> QED
    BY <1>3, <1>4, <2>1, <2>2, <2>3
<1>6. ASSUME NEW msg \in Message \cup {NoMsg}, NEW S \in SUBSET Modules,
             NEW flushed \in SUBSET Modules, msg \in Message \/ S = {},
             stack' = Push(Each(ItrInit, msg, S, flushed)), module_list' = module_list
      PROVE  CalmStack'
  <2>1. PICK f : f = Each(ItrInit, msg, S, flushed)
    OBVIOUS
  <2>2. f \in Frames /\ f.at = "each" /\ f.itr = ItrInit
    BY <1>6, <2>1, ItrFacts, EachFacts DEF IInv
  <2>3. f.itr \in L2 \cup {Nil} /\ stack' = <<f>> \o stack
    BY <1>6, <2>1, <2>2, ItrElse DEF Push
  <2> QED
    BY <1>4, <2>2, <2>3
<1>7. ASSUME NEW type \in Types, packets < MaxPackets
      PROVE  [id |-> packets + 1, type |-> type] \in Message
  <2>1. packets \in Nat /\ MaxPackets \in Nat
    BY ModuleLinkAssumption DEF IInv, LoopTypes
  <2> QED
    BY <1>7, <2>1 DEF Message
<1>8. ASSUME NEW type \in Types, CmdBroadcast(type) PROVE CalmStack'
  <2>1. /\ packets < MaxPackets /\ module_list' = module_list
        /\ stack' = Push(Each(ItrInit, [id |-> packets + 1, type |-> type], Modules, {}))
    BY <1>8 DEF CmdBroadcast, listVars
  <2> QED
    BY <1>6, <1>7, <2>1
<1>9. ASSUME NEW type \in Types, NEW S \in SUBSET Modules, CmdSendToModule(type, S)
      PROVE  CalmStack'
  <2>1. /\ packets < MaxPackets /\ module_list' = module_list
        /\ stack' = Push(Each(ItrInit, [id |-> packets + 1, type |-> type], S, S))
    BY <1>9 DEF CmdSendToModule, listVars
  <2> QED
    BY <1>6, <1>7, <2>1
<1>10. CASE CmdFlushAll
  BY <1>6, <1>10 DEF CmdFlushAll, listVars
<1>11. ASSUME NEW type \in Types, NEW flushes \in BOOLEAN, CmdReply(type, flushes)
       PROVE  CalmStack'
  <2>1. PICK m : m = Top.mod
    OBVIOUS
  <2>2. /\ Top.mod # Nil
        /\ \E msg, rest : /\ rest \in {Push(Of("flush", m)), stack}
                          /\ PositiveWrite(m, msg, rest)
    BY <1>11, <2>1 DEF CmdReply
  <2>3. m \in Modules
    BY <1>2, <2>1, <2>2
  <2>4. stack' \in {<<Of("flush", m)>> \o stack, stack}
    BY <2>2, <2>3, UnmaskedWrite DEF CalmInv, Push
  <2>5. Of("flush", m) \in Frames /\ Of("flush", m).at = "flush"
    BY <2>3, OfFacts
  <2> QED
    BY <1>3, <1>4, <2>4, <2>5
<1>12. CASE CmdWait
  <2>1. stack' = <<At("begin")>> \o stack
    BY <1>12 DEF CmdWait, Push
  <2>2. At("begin") \in Frames /\ At("begin").at = "begin"
    BY AtFacts DEF LoopPoints
  <2> QED
    BY <1>4, <2>1, <2>2
<1>13. CASE CmdReturn
  <2>1. stack' = Tail(stack) /\ module_list' = module_list
    BY <1>13 DEF CmdReturn, listVars
  <2>2. Calm(Tail(stack), ToSet(module_list), cqueue)
    BY <1>1, <1>2, CalmTail
  <2> QED
    BY <1>1, <2>1, <2>2 DEF CalmStack
<1>14. CASE \/ \E S \in SUBSET Modules : CmdKillModule(S)
            \/ \E which \in Masks, half \in {Extended, Types \ Extended} :
                 \E types \in SUBSET half : CmdSetMask(which, half, types)
            \/ MyXGrabServer \/ MyXUngrabServer
  BY <1>3, <1>14 DEF CmdKillModule, CmdSetMask, MyXGrabServer, MyXUngrabServer
<1> QED
  BY <1>5, <1>8, <1>9, <1>10, <1>11, <1>12, <1>13, <1>14 DEF Commands

LEMMA CallsCalm ==
  ASSUME IInv, CalmInv, Calls
  PROVE  CalmStack'
<1> DEFINE L == ToSet(module_list)
<1>1. Running /\ Top.at \in {"each", "flush", "pw", "sync"} /\ cqueue' = cqueue
  BY DEF Calls, EachNext, EachEnd, FlushWrite, FlushFails, FlushEnd, AnswerOrInput, PwTimeout,
         SyncFlush, SyncGivesUp, AnswerTerminated, Runs
<1>2. /\ stack \in Seq(Frames) /\ stack # <<>> /\ stack[1] = Top /\ Calm(stack, L, cqueue)
      /\ Top.at \in {"flush", "sync"} => Top.mod \in Modules
  BY <1>1, TopFacts DEF CalmInv, CalmStack
<1>3. Top.at # "pw"
  BY <1>1, CalmAwaits
<1>4. CASE EachEnd \/ FlushEnd \/ SyncGivesUp \/ AnswerTerminated
  <2>1. stack' = Tail(stack) /\ module_list' = module_list
    BY <1>4 DEF EachEnd, FlushEnd, SyncGivesUp, AnswerTerminated, listVars
  <2>2. Calm(Tail(stack), L, cqueue)
    BY <1>1, <1>2, CalmTail
  <2> QED
    BY <1>1, <2>1, <2>2 DEF CalmStack
<1>5. CASE FlushWrite
  BY <1>5 DEF FlushWrite, listVars, CalmStack, CalmInv
<1>6. CASE EachNext
  <2>1. PICK m, f : m = Top.itr /\ f = [Top EXCEPT !.itr = ItrNext(m)]
    OBVIOUS
  <2>2. /\ stack' \in {Goto(f), <<Of("flush", m)>> \o Goto(f)} /\ m \in ToSet(module_list)
    BY <1>6, <2>1, EachUnmasked DEF CalmInv
  <2>3. Top.at = "each" /\ module_list' = module_list
    BY <1>6 DEF EachNext, Runs, listVars
  <2>4. Calm(stack', L, cqueue)
    BY <1>1, <2>1, <2>2, <2>3, IterateCalm
  <2> QED
    BY <1>1, <2>3, <2>4 DEF CalmStack
<1>7. CASE FlushFails
  <2>1. PICK m : m = Top.mod
    OBVIOUS
  <2>2. /\ Top.at = "flush" /\ stack' = Tail(stack)
        /\ Kill({m}) \/ UNCHANGED listVars
    BY <1>7, <2>1 DEF FlushFails, Runs
  <2>3. L \ {m} \subseteq ToSet(module_list')
    BY <2>2, KilledLists DEF listVars, IInv
  <2>4. Calm(Tail(stack), ToSet(module_list'), cqueue)
    BY <1>2, <2>1, <2>2, <2>3, CalmFlushed
  <2> QED
    BY <1>1, <2>2, <2>4 DEF CalmStack
<1>8. CASE AnswerOrInput
  <2>1. Top.at = "sync"
    BY <1>3, <1>8 DEF AnswerOrInput, Runs
  <2>2. PICK m \in Modules : m = Top.mod
    BY <1>2, <2>1
  <2>3. /\ Receive(m)
        /\ \/ stack' = Tail(stack)
           \/ Received(m) # Nil /\ stack' = <<Of("cmd", Received(m).mod)>> \o stack
    BY <1>8, <2>2 DEF AnswerOrInput, Execute
  <2>4. Received(m) # Nil => Received(m).mod = m
    BY <2>3, ReceivedFacts
  <2>5. Loopless(stack)
    BY <1>2, <2>1, TopLoopless
  <2>6. CASE stack' = Tail(stack)
    <3>1. /\ Calm(Tail(stack), L, cqueue) /\ Loopless(Tail(stack))
          /\ Tail(stack) \in Seq(Frames)
      BY <1>2, <2>1, CalmTail, TailLoopless, PopFacts
    <3>2. PICK s : s = Tail(stack)
      OBVIOUS
    <3>3. Calm(s, ToSet(module_list'), cqueue)
      BY <3>1, <3>2, CalmLoopless
    <3> QED
      BY <1>1, <2>6, <3>2, <3>3 DEF CalmStack
  <2>7. CASE stack' = <<Of("cmd", m)>> \o stack
    <3>1. Of("cmd", m) \in Frames /\ Of("cmd", m).at = "cmd"
      BY OfFacts
    <3>2. Calm(stack', ToSet(module_list'), cqueue)
      BY <1>2, <2>5, <2>7, <3>1, CalmPush
    <3> QED
      BY <1>1, <3>2 DEF CalmStack
  <2> QED
    BY <2>3, <2>4, <2>6, <2>7
<1>9. CASE PwTimeout
  BY <1>3, <1>9 DEF PwTimeout, Runs
<1>10. CASE SyncFlush
  <2>1. PICK m : m = Top.mod
    OBVIOUS
  <2>2. /\ Top.at = "sync" /\ stack' = <<Of("flush", m)>> \o stack
        /\ module_list' = module_list
    BY <1>10, <2>1, <1>3 DEF SyncFlush, Runs, Push, listVars
  <2>3. Of("flush", m) \in Frames /\ Of("flush", m).at = "flush" /\ Loopless(stack)
    BY <1>2, <2>1, <2>2, OfFacts, TopLoopless
  <2>4. Calm(stack', L, cqueue)
    BY <1>2, <2>2, <2>3, CalmPush
  <2> QED
    BY <1>1, <2>2, <2>4 DEF CalmStack
<1> QED
  BY <1>4, <1>5, <1>6, <1>7, <1>8, <1>9, <1>10 DEF Calls

LEMMA StackStaysCalm ==
  ASSUME IInv, CalmInv, Next
  PROVE  CalmStack'
<1>1. CASE Dangling \/ Terminate \/ Processes
  <2>1. stack' = stack /\ module_list' = module_list /\ cqueue' = cqueue
    BY <1>1 DEF Dangling, Terminate, Processes, ModuleReads, ModuleExits, ModuleSends, listVars
  <2> QED
    BY <2>1 DEF CalmStack, CalmInv
<1> QED
  BY <1>1, LoopsCalm, CommandsCalm, CallsCalm DEF Next
-----------------------------------------------------------------------------
(* Startup *)

Quiet(s) == \A i \in DOMAIN s : s[i].at \notin {"select", "input", "exec"}

LEMMA QuietPush ==
  ASSUME NEW s \in Seq(Frames), Quiet(s), NEW f, f.at \notin {"select", "input", "exec"}
  PROVE  Quiet(<<f>> \o s)
<1>1. s \in Seq(Frames \cup {f})
  BY Retyped
<1>2. /\ DOMAIN (<<f>> \o s) = 1 .. Len(s) + 1 /\ (<<f>> \o s)[1] = f /\ Len(s) \in Nat
      /\ \A i \in 2 .. Len(s) + 1 : i - 1 \in DOMAIN s /\ (<<f>> \o s)[i] = s[i - 1]
  BY <1>1, PushFacts
<1>3. ASSUME NEW i \in DOMAIN (<<f>> \o s)
      PROVE  (<<f>> \o s)[i].at \notin {"select", "input", "exec"}
  <2>1. i = 1 \/ i \in 2 .. Len(s) + 1
    BY <1>2
  <2> QED
    BY <1>2, <2>1 DEF Quiet
<1> QED
  BY <1>3 DEF Quiet

LEMMA QuietTail ==
  ASSUME NEW s \in Seq(Frames), s # <<>>, Quiet(s)
  PROVE  Quiet(Tail(s)) /\ Tail(s) \in Seq(Frames)
BY PopFacts DEF Quiet

LEMMA StartupQuiet ==
  ASSUME IInv, CalmInv, Next, CmdLine = {}, fMvwmInStartup, fMvwmInStartup', Quiet(stack)
  PROVE  Quiet(stack')
<1>1. CASE Dangling \/ Terminate \/ Processes
  BY <1>1 DEF Dangling, Terminate, Processes, ModuleReads, ModuleExits, ModuleSends
<1>2. CASE Loops \/ Commands \/ Calls
  <2>1. Running
    BY <1>2 DEF Loops, LoopEnds, LoopEvent, LoopReturn, LoopIdle, LoopSelect, LoopTerminated,
         LoopTimeout, InputNext, InputEnd, ExecNext, ExecEnd, WaitDone, Runs,
         Commands, CmdModule, CmdKillModule, CmdBroadcast, CmdSendToModule, CmdReply,
         CmdSetMask, CmdFlushAll, MyXGrabServer, MyXUngrabServer, CmdWait, CmdReturn,
         Calls, EachNext, EachEnd, FlushWrite, FlushFails, FlushEnd, AnswerOrInput, PwTimeout,
         SyncFlush, SyncGivesUp, AnswerTerminated
  <2>2. /\ stack \in Seq(Frames) /\ stack # <<>> /\ stack[1] = Top /\ 1 \in DOMAIN stack
        /\ Top.mod # Nil => Top.mod \in Modules
    BY <2>1, TopFacts
  <2>3. Quiet(Tail(stack)) /\ Tail(stack) \in Seq(Frames)
    BY <2>2, QuietTail
  <2>4. Top.at \notin {"select", "input", "exec"}
    BY <2>2 DEF Quiet
  <2>5. stack' \in {stack, Tail(stack)} => Quiet(stack')
    BY <2>3
  <2>6. ASSUME NEW f, f.at \notin {"select", "input", "exec"}, stack' = <<f>> \o stack
        PROVE  Quiet(stack')
    BY <2>2, <2>6, QuietPush
  <2>7. ASSUME NEW f \in Frames, f.at \notin {"select", "input", "exec"},
               NEW g, g.at \notin {"select", "input", "exec"},
               stack' \in {Goto(f), <<g>> \o Goto(f)}
        PROVE  Quiet(stack')
    <3>1. Quiet(Goto(f)) /\ Goto(f) \in Seq(Frames)
      BY <2>3, <2>7, QuietPush, PushFacts DEF Goto
    <3> QED
      BY <2>7, <3>1, QuietPush
  <2>8. CASE Loops
    <3>1. \/ stack' = Tail(stack)
          \/ \E p \in {"begin", "woken"} : stack' \in {Goto(At(p)), <<At("cmd")>> \o Goto(At(p))}
      BY <2>4, <2>8 DEF Loops, LoopEnds, LoopEvent, LoopReturn, LoopIdle, LoopSelect,
         LoopTerminated, LoopTimeout, InputNext, InputEnd, ExecNext, ExecEnd, WaitDone, Runs,
         Returned, Dispatched, Startup
    <3>2. \A p \in {"begin", "woken", "cmd"} : At(p) \in Frames /\ At(p).at = p
      BY AtFacts DEF LoopPoints
    <3> QED
      BY <2>5, <2>7, <3>1, <3>2
  <2>9. CASE Commands
    <3>1. ASSUME NEW type, NEW flushes, CmdReply(type, flushes)
          PROVE  stack' \in {Push(Of("flush", Top.mod)), stack}
      <4>1. PICK m : m = Top.mod
        OBVIOUS
      <4>2. /\ Top.mod # Nil
            /\ \E msg, rest : /\ rest \in {Push(Of("flush", m)), stack}
                              /\ PositiveWrite(m, msg, rest)
        BY <3>1, <4>1 DEF CmdReply
      <4> QED
        BY <2>2, <4>1, <4>2, UnmaskedWrite DEF CalmInv
    <3>2. \/ stack' \in {stack, Tail(stack)}
          \/ \E m : stack' \in {Push(Of("sync", m)), Push(Of("flush", m))}
          \/ \E msg, S, flushed : stack' = Push(Each(ItrInit, msg, S, flushed))
          \/ stack' = Push(At("begin"))
      BY <2>9, <3>1 DEF Commands, CmdModule, CmdKillModule, CmdBroadcast, CmdSendToModule,
         CmdSetMask, CmdFlushAll, MyXGrabServer, MyXUngrabServer, CmdWait, CmdReturn
    <3>3. /\ At("begin").at = "begin"
          /\ \A m : Of("sync", m).at = "sync" /\ Of("flush", m).at = "flush"
          /\ \A msg, S, flushed : Each(ItrInit, msg, S, flushed).at = "each"
      BY DEF Of, Each, At
    <3> QED
      BY <2>5, <2>6, <3>2, <3>3 DEF Push
  <2>10. CASE EachNext
    <3>1. PICK m, f : m = Top.itr /\ f = [Top EXCEPT !.itr = ItrNext(m)]
      OBVIOUS
    <3>2. /\ stack' \in {Goto(f), <<Of("flush", m)>> \o Goto(f)} /\ m \in ToSet(module_list)
          /\ Top.at = "each"
      BY <2>10, <3>1, EachUnmasked DEF CalmInv, EachNext, Runs
    <3>3. f \in Frames /\ f.at = "each"
      <4>1. ItrNext(m) \in Pointers /\ Top \in Frames
        BY <2>1, <3>2, ItrFacts, TopFacts DEF IInv
      <4> QED
        BY <3>1, <3>2, <4>1 DEF Frames, Frame
    <3>4. Of("flush", m).at = "flush"
      BY DEF Of, At
    <3> QED
      BY <2>7, <3>2, <3>3, <3>4
  <2>11. CASE EachEnd \/ FlushWrite \/ FlushFails \/ FlushEnd \/ PwTimeout \/ SyncGivesUp
              \/ AnswerTerminated
    BY <2>5, <2>11 DEF EachEnd, FlushWrite, FlushFails, FlushEnd, PwTimeout, SyncGivesUp,
                  AnswerTerminated
  <2>12. CASE AnswerOrInput \/ SyncFlush
    <3>1. \/ stack' = Tail(stack)
          \/ \E m : stack' \in {<<Of("cmd", m)>> \o stack, <<Of("flush", m)>> \o stack}
      BY <2>12 DEF AnswerOrInput, SyncFlush, Execute, Push
    <3>2. \A m : Of("cmd", m).at = "cmd" /\ Of("flush", m).at = "flush"
      BY DEF Of, At
    <3> QED
      BY <2>5, <2>6, <3>1, <3>2
  <2> QED
    BY <1>2, <2>8, <2>9, <2>10, <2>11, <2>12 DEF Calls
<1> QED
  BY <1>1, <1>2 DEF Next

\* Modules are freed at startup while there are none of the command line, and
\* where the event loop has executed all commands.
LEMMA FreedBy ==
  ASSUME Next
  PROVE  /\ \/ freed' = freed
            \/ LoopIdle /\ fMvwmInStartup
            \/ ExecEnd
         /\ fMvwmInStartup' => fMvwmInStartup
<1>1. CASE Loops
  BY <1>1 DEF Loops, LoopEnds, LoopEvent, LoopReturn, LoopIdle, LoopSelect, LoopTerminated,
         LoopTimeout, InputNext, InputEnd, ExecNext, ExecEnd, WaitDone, listVars, modeVars,
         Receive, Kill, Startup
<1>2. ASSUME \/ UNCHANGED listVars \/ UNCHANGED freed
             \/ \E S : Kill(S) \/ \E m : Receive(m),
             fMvwmInStartup' = fMvwmInStartup
      PROVE  freed' = freed /\ fMvwmInStartup' = fMvwmInStartup
  BY <1>2 DEF listVars, Receive, Kill
<1>3. CASE Commands
  <2>1. fMvwmInStartup' = fMvwmInStartup
    BY <1>3 DEF Commands, CmdModule, CmdKillModule, CmdBroadcast, CmdSendToModule, CmdReply,
         CmdSetMask, CmdFlushAll, MyXGrabServer, MyXUngrabServer, CmdWait, CmdReturn, modeVars
  <2>2. UNCHANGED listVars \/ UNCHANGED freed \/ \E S : Kill(S)
    BY <1>3 DEF Commands, CmdModule, CmdKillModule, CmdBroadcast, CmdSendToModule, CmdReply,
         CmdSetMask, CmdFlushAll, MyXGrabServer, MyXUngrabServer, CmdWait, CmdReturn
  <2> QED
    BY <1>2, <2>1, <2>2
<1>4. CASE Calls
  <2>1. fMvwmInStartup' = fMvwmInStartup
    BY <1>4 DEF Calls, EachNext, EachEnd, FlushWrite, FlushFails, FlushEnd, AnswerOrInput,
         PwTimeout, SyncFlush, SyncGivesUp, AnswerTerminated, modeVars
  <2>2. UNCHANGED listVars \/ (\E S : Kill(S)) \/ \E m : Receive(m)
    BY <1>4 DEF Calls, EachNext, EachEnd, FlushWrite, FlushFails, FlushEnd, AnswerOrInput,
         PwTimeout, SyncFlush, SyncGivesUp, AnswerTerminated
  <2> QED
    BY <1>2, <2>1, <2>2
<1>5. CASE Dangling \/ Terminate \/ Processes
  <2>1. UNCHANGED listVars /\ fMvwmInStartup' = fMvwmInStartup
    BY <1>5 DEF Dangling, Terminate, Processes, ModuleReads, ModuleExits, ModuleSends, modeVars
  <2> QED
    BY <1>2, <2>1
<1> QED
  BY <1>1, <1>3, <1>4, <1>5 DEF Next

LEMMA StartupStep ==
  ASSUME IInv, CalmInv, Next
  PROVE  Started0'
<1> SUFFICES ASSUME CmdLine = {} PROVE Started0'
  BY DEF Started0
<1>1. /\ fMvwmInStartup => cqueue = <<>> /\ Quiet(stack)
      /\ CommandQueueLive
  BY DEF CalmInv, Started0, Quiet
<1>2. QueueEffect
  BY QueueStep
<1>3. ASSUME fMvwmInStartup' PROVE cqueue' = <<>> /\ Quiet(stack')
  <2>1. fMvwmInStartup /\ cqueue = <<>> /\ Quiet(stack)
    BY <1>1, <1>3, FreedBy
  <2>2. Quiet(stack')
    BY <1>3, <2>1, StartupQuiet
  <2>3. stack # <<>> => Top.at \notin {"input", "exec"}
    <3>1. stack \in Seq(Frames)
      BY DEF IInv, LoopTypes
    <3>2. stack # <<>> => 1 \in DOMAIN stack
      BY <3>1, PopFacts
    <3> QED
      BY <2>1, <3>2 DEF Quiet, Top
  <2> QED
    BY <1>2, <2>1, <2>2, <2>3 DEF QueueEffect
<1>4. ASSUME NEW i \in DOMAIN cqueue' PROVE cqueue'[i].mod \notin freed'
  <2>1. cqueue'[i].mod \notin freed
    BY <1>1, <1>2 DEF QueueEffect, CommandQueueLive, IInv, Owned
  <2>2. CASE LoopIdle /\ fMvwmInStartup
    <3>1. cqueue' = <<>>
      BY <1>1, <2>2 DEF LoopIdle
    <3> QED
      BY <1>4, <3>1
  <2>3. CASE ExecEnd
    <3>1. cqueue' = <<>>
      BY <2>3 DEF ExecEnd
    <3> QED
      BY <1>4, <3>1
  <2> QED
    BY <2>1, <2>2, <2>3, FreedBy
<1> QED
  BY <1>3, <1>4 DEF Started0, CommandQueueLive, Quiet

LEMMA InitCalm == Init => CalmInv
<1> SUFFICES ASSUME Init PROVE CalmInv
  OBVIOUS
<1>1. NoneSync
  BY DEF Init, NoneSync, NewModule
<1>2. stack = <<At("begin")>> /\ At("begin").at = "begin"
  BY AtFacts DEF Init, LoopPoints
<1>3. CalmStack
  BY <1>2 DEF CalmStack, Calm
<1>4. AllInOrder
  <2>1. /\ cqueue = <<>> /\ inputs = 0 /\ DOMAIN <<>> = {}
        /\ \A m \in Modules : wire[m].input = <<>> /\ ran[m] = 0
    BY DEF Init, On, Off
  <2> QED
    BY <2>1 DEF AllInOrder, InOrder
<1>5. Started0
  <2>1. cqueue = <<>>
    BY DEF Init
  <2> QED
    BY <1>2, <2>1 DEF Started0, CommandQueueLive
<1> QED
  BY <1>1, <1>3, <1>4, <1>5 DEF CalmInv

LEMMA CalmStutters ==
  ASSUME CalmInv, UNCHANGED vars
  PROVE  CalmInv'
BY DEF CalmInv, NoneSync, CalmStack, AllInOrder, Started0, CommandQueueLive, vars

LEMMA Calmness ==
  ASSUME "sync" \notin Masks
  PROVE  Spec => [](IInv /\ CalmInv)
<1>1. Init => IInv /\ CalmInv
  BY InitHolds, InitCalm
<1>2. (IInv /\ CalmInv) /\ [Next]_vars => (IInv /\ CalmInv)'
  <2>1. ASSUME IInv, CalmInv, Next PROVE CalmInv'
    BY <2>1, NoneSyncStep, StackStaysCalm, OrderStep, StartupStep DEF CalmInv
  <2> QED
    BY <2>1, StutterKeeps, NextKeeps, CalmStutters
<1> QED
  BY <1>1, <1>2, PTL DEF Spec

(* Where no module is synchronous, PositiveWrite executes nothing inside a  *)
(* loop over the list of modules: each loop goes on at a store of the list, *)
(* though FlushMessageQueue and module_receive kill modules inside it.      *)
THEOREM LoopsSafe ==
  ASSUME "sync" \notin Masks
  PROVE  Spec => []SafeIteration
<1>1. CalmInv => SafeIteration
  BY DEF CalmInv, CalmStack, Calm, SafeIteration
<1> QED
  BY <1>1, Calmness, PTL

LEMMA InOrderHolds ==
  ASSUME IInv, AllInOrder
  PROVE  CommandsInOrder
<1> SUFFICES ASSUME NEW m \in Modules,
                    NEW i \in DOMAIN (cqueue \o wire[m].input), (cqueue \o wire[m].input)[i].mod = m
             PROVE  /\ (cqueue \o wire[m].input)[i].num > ran[m]
                    /\ \A j \in DOMAIN (cqueue \o wire[m].input) :
                         (cqueue \o wire[m].input)[j].mod = m /\ j < i =>
                           (cqueue \o wire[m].input)[j].num < (cqueue \o wire[m].input)[i].num
  BY DEF CommandsInOrder
<1> DEFINE q == cqueue
           w == wire[m].input
           all == q \o w
<1>1. /\ q \in Seq(Input) /\ w \in Seq(Input) /\ ran[m] \in Nat
      /\ InOrder(m, q, w, ran[m], inputs)
  BY OrderTypes DEF AllInOrder
<1>2. all[i].mod = m /\ i \in DOMAIN all
  OBVIOUS
<1> HIDE DEF q, w
<1>3. /\ DOMAIN all = 1 .. Len(q) + Len(w) /\ Len(q) \in Nat /\ Len(w) \in Nat
      /\ \A k \in 1 .. Len(q) : all[k] = q[k]
      /\ \A k \in Len(q) + 1 .. Len(q) + Len(w) : all[k] = w[k - Len(q)]
  BY <1>1, ConcatFacts
<1>4. DOMAIN q = 1 .. Len(q) /\ DOMAIN w = 1 .. Len(w)
  BY <1>1
<1>5. \A k \in DOMAIN q : q[k].num \in Nat
  BY <1>1, InputFacts
<1>6. \A k \in DOMAIN w : w[k].num \in Nat
  BY <1>1, InputFacts
<1> HIDE DEF all
<1>7. ASSUME NEW k \in DOMAIN all
      PROVE  \/ k \in DOMAIN q /\ all[k] = q[k]
             \/ k > Len(q) /\ k - Len(q) \in DOMAIN w /\ all[k] = w[k - Len(q)]
  <2>1. k \in 1 .. Len(q) \/ k \in Len(q) + 1 .. Len(q) + Len(w)
    BY <1>3
  <2>2. ASSUME k \in Len(q) + 1 .. Len(q) + Len(w) PROVE k > Len(q) /\ k - Len(q) \in 1 .. Len(w)
    BY <1>3, <2>2
  <2> QED
    BY <1>3, <1>4, <2>1, <2>2
<1>8. all[i].num > ran[m]
  BY <1>1, <1>2, <1>5, <1>6, <1>7 DEF InOrder
<1>9. ASSUME NEW j \in DOMAIN all, all[j].mod = m, j < i PROVE all[j].num < all[i].num
  <2>1. i \in Nat /\ j \in Nat
    BY <1>2, <1>3
  <2>2. CASE i \in DOMAIN q
    <3>1. j \in DOMAIN q /\ all[j] = q[j] /\ all[i] = q[i]
      BY <1>3, <1>4, <1>9, <2>1, <2>2
    <3> QED
      BY <1>1, <1>2, <1>9, <2>2, <3>1 DEF InOrder
  <2>3. CASE i \notin DOMAIN q /\ j \in DOMAIN q
    BY <1>1, <1>2, <1>3, <1>4, <1>7, <1>9, <2>3 DEF InOrder
  <2>4. CASE i \notin DOMAIN q /\ j \notin DOMAIN q
    <3>1. /\ i - Len(q) \in DOMAIN w /\ all[i] = w[i - Len(q)]
          /\ j - Len(q) \in DOMAIN w /\ all[j] = w[j - Len(q)]
      BY <1>2, <1>7, <2>4
    <3>2. j - Len(q) < i - Len(q)
      BY <1>3, <1>9, <2>1
    <3> QED
      BY <1>1, <3>1, <3>2 DEF InOrder
  <2> QED
    BY <2>2, <2>3, <2>4
<1> QED
  BY <1>8, <1>9 DEF all, q, w

(* Where no module is synchronous, commands that modules send are executed  *)
(* once each and in the order in which they were sent, and no module is     *)
(* freed before, unless a command Waits while the window manager still      *)
(* starts up for modules of the command line.                               *)
THEOREM EachCommandKept ==
  ASSUME "sync" \notin Masks, CmdLine = {} \/ MaxWaits = 0
  PROVE  Spec => []CommandsKept
<1>1. IInv /\ CalmInv => CommandsKept
  <2>1. ASSUME IInv, CalmInv PROVE CommandQueueLive
    BY <2>1 DEF CalmInv, Started0, IInv, OneLoop, UsedModulesLive, CommandQueueLive
  <2> QED
    BY <2>1, InOrderHolds DEF CalmInv, CommandsKept
<1> QED
  BY <1>1, Calmness, PTL
=============================================================================
