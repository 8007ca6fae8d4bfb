------------------------------ MODULE PingProofs ------------------------------
(***************************************************************************)
(* Proofs about Ping, for any number of pings, commands and troubles and   *)
(* queues of any length: control and the ping tool agree on who has the    *)
(* modem, the server listens as long as it is on going, and the answers    *)
(* the client takes are to its latest ping.                                *)
(***************************************************************************)
EXTENDS Ping, SeqFacts

--------------------------------------------------------------------------------
(* Types.                                                                  *)

EventIds == {"intervals_done", "stored", "tx", "retx", "ack", "nack", "ping", "request", "answer",
             "results", "rx", "results_rx", "server_rx", "failed", "report", "cmd_done"}
ClientOps == [op : {"tx", "retx", "request", "rx", "results_rx"}, seq : Nat]
ServerOps == [op : {"answer", "results", "server_rx"}, seq : Nat]
Events == [id : EventIds, seq : Nat]

Modems == DOMAIN modem = Roles /\ modem["client"] \in Seq(ClientOps) /\ modem["server"] \in Seq(ServerOps)

Flags ==
  /\ on_going \in [Roles -> BOOLEAN] /\ tool \in [Roles -> BOOLEAN]
  /\ done \in [Roles -> BOOLEAN] /\ hitch \in [Roles -> BOOLEAN]

Data ==
  /\ client \in [intervals_done : BOOLEAN, requested : BOOLEAN, harq : BOOLEAN, next : Nat, sent : Nat]
  /\ harq \in [in_use : BOOLEAN, rtx_ongoing : BOOLEAN, seq : Nat]
  /\ list \in [left : Nat, seq : Nat, retx : SUBSET Nat]
  /\ server \in [on_going_rx_count : Nat, heard : BOOLEAN]

TypeOK == Flags /\ Data /\ Modems /\ queue \in [Roles -> Seq(Events)]

LEMMA EventType ==
  ASSUME NEW id \in EventIds, NEW seq \in Nat
  PROVE  Event(id, seq) \in Events /\ Event(id, seq).id = id /\ Event(id, seq).seq = seq
BY DEF Event, Events

\* The two devices.
LEMMA OtherRole == Other("client") = "server" /\ Other("server") = "client"
<1>1. \A p \in Roles : (p # "client" <=> p = "server") /\ (p # "server" <=> p = "client")
  BY DEF Roles
<1>2. "client" \in Roles /\ "server" \in Roles
  BY DEF Roles
<1> QED
  BY <1>1, <1>2 DEF Other

\* The head of a queue is taken off.
LEMMA TakesGives ==
  ASSUME queue \in [Roles -> Seq(Events)], NEW r \in Roles, queue[r] # <<>>,
         queue' = [queue EXCEPT ![r] = Tail(@)]
  PROVE  /\ queue' \in [Roles -> Seq(Events)] /\ queue'[r] = Tail(queue[r])
         /\ \A o \in Roles \ {r} : queue'[o] = queue[o]
         /\ Head(queue[r]) \in Events
         /\ ToSet(queue[r]) = {Head(queue[r])} \cup ToSet(queue'[r])
<1>1. queue[r] \in Seq(Events)
  OBVIOUS
<1>2. /\ Head(queue[r]) \in Events /\ Tail(queue[r]) \in Seq(Events)
      /\ ToSet(queue[r]) = {Head(queue[r])} \cup ToSet(Tail(queue[r]))
  BY <1>1, HoldsTail
<1>3. queue'[r] = Tail(queue[r]) /\ \A o \in Roles \ {r} : queue'[o] = queue[o]
  OBVIOUS
<1>4. queue' \in [Roles -> Seq(Events)]
  BY <1>2
<1> QED
  BY <1>2, <1>3, <1>4

\* Something is put behind the events of a queue.
LEMMA PutGives ==
  ASSUME queue \in [Roles -> Seq(Events)], NEW r \in Roles, NEW events \in Seq(Events),
         queue' = [queue EXCEPT ![r] = @ \o events]
  PROVE  /\ queue' \in [Roles -> Seq(Events)] /\ queue'[r] = queue[r] \o events
         /\ \A o \in Roles \ {r} : queue'[o] = queue[o]
         /\ ToSet(queue'[r]) = ToSet(queue[r]) \cup ToSet(events)
<1>1. queue[r] \in Seq(Events)
  OBVIOUS
<1>2. /\ queue[r] \o events \in Seq(Events)
      /\ ToSet(queue[r] \o events) = ToSet(queue[r]) \cup ToSet(events)
  BY <1>1, HoldsConcat
<1>3. queue'[r] = queue[r] \o events /\ \A o \in Roles \ {r} : queue'[o] = queue[o]
  OBVIOUS
<1>4. queue' \in [Roles -> Seq(Events)]
  BY <1>2
<1> QED
  BY <1>2, <1>3, <1>4

\* The events that the store of a ping and the last turn of an operation bring.
LEMMA StoredType ==
  /\ Stored \in Seq(Events) /\ LastTurn \in Seq(Events)
  /\ \A e \in ToSet(Stored) : e.id = "stored"
  /\ \A e \in ToSet(LastTurn) : e.id = "intervals_done"
  /\ list.left # 1 => LastTurn = <<>>
<1>1. /\ Event("stored", 0) \in Events /\ Event("stored", 0).id = "stored"
      /\ Event("intervals_done", 0) \in Events /\ Event("intervals_done", 0).id = "intervals_done"
  BY DEF Event, Events, EventIds
<1>2. /\ ToSet(<<Event("stored", 0)>>) = {Event("stored", 0)}
      /\ ToSet(<<Event("intervals_done", 0)>>) = {Event("intervals_done", 0)}
      /\ ToSet(<<>>) = {}
  BY HoldsSingle, HoldsEmpty
<1> QED
  BY <1>1, <1>2 DEF Stored, LastTurn

--------------------------------------------------------------------------------
(* Who has the modem.                                                      *)

\* A ping that control is to take back is over.
DoneIsOver == \A r \in Roles : done[r] => ~on_going[r]

LendInv == TypeOK /\ DoneIsOver /\ ToolAgrees

\* What leaves the four flags alone.
LEMMA SameFlags ==
  ASSUME LendInv, TypeOK', UNCHANGED <<on_going, tool, done>>, \A r \in Roles : hitch[r] => hitch'[r]
  PROVE  LendInv'
BY DEF LendInv, DoneIsOver, ToolAgrees

\* The end of a ping on its device, whatever else the step does.
LEMMA CmdDoneKeeps ==
  ASSUME LendInv, NEW r \in Roles, CmdDone(r), UNCHANGED <<tool, hitch>>
  PROVE  /\ Flags' /\ ~on_going'[r]
         /\ TypeOK' => LendInv'
         /\ \A o \in Roles : on_going'[o] => on_going[o]
<1>1. /\ on_going' = [on_going EXCEPT ![r] = FALSE]
      /\ done' = [done EXCEPT ![r] = @ \/ on_going[r]]
  BY DEF CmdDone
<1>2. on_going \in [Roles -> BOOLEAN] /\ done \in [Roles -> BOOLEAN]
  BY DEF LendInv, TypeOK, Flags
<1>3. \A o \in Roles \ {r} : on_going'[o] = on_going[o] /\ done'[o] = done[o]
  BY <1>1, <1>2
<1>4. on_going'[r] = FALSE /\ (done'[r] <=> done[r] \/ on_going[r])
  BY <1>1, <1>2, Zenon
<1>5. Flags'
  BY <1>1, <1>2 DEF LendInv, TypeOK, Flags
<1> QED
  BY <1>3, <1>4, <1>5 DEF LendInv, DoneIsOver, ToolAgrees

--------------------------------------------------------------------------------
(* The operations that are given to a modem.                               *)

TxOps == {op \in ClientOps : op.op = "tx"}
RxOps == {op \in ServerOps : op.op = "server_rx"}

LEMMA PairGives ==
  ASSUME NEW T, NEW a \in T, NEW b \in T, NEW S
  PROVE  /\ <<a, b>> \in Seq(T) /\ ToSet(<<a, b>>) = {a, b}
         /\ Number(<<a, b>>, S) = (IF a \in S THEN 1 ELSE 0) + (IF b \in S THEN 1 ELSE 0)
<1> DEFINE w == <<a>>
<1>1. w \in Seq(T)
  OBVIOUS
<1>2. Append(w, b) = <<a, b>>
  <2>1. Len(w) = 1 /\ w[1] = a
    OBVIOUS
  <2> HIDE DEF w
  <2> DEFINE y == Append(w, b)
  <2>2. /\ y \in Seq(T) /\ Len(y) = Len(w) + 1 /\ y[Len(w) + 1] = b
        /\ \A i \in 1 .. Len(w) : y[i] = w[i]
    BY <1>1, AppendProperties
  <2> HIDE DEF y
  <2>3. y \in Seq(T) /\ Len(y) = 2 /\ y[1] = a /\ y[2] = b
    BY <2>1, <2>2
  <2>4. /\ <<a, b>> \in Seq(T) /\ Len(<<a, b>>) = 2
        /\ <<a, b>>[1] = a /\ <<a, b>>[2] = b
    OBVIOUS
  <2>5. \A i \in 1 .. 2 : y[i] = <<a, b>>[i]
    BY <2>3, <2>4
  <2>6. y = <<a, b>>
    BY <2>3, <2>4, <2>5, SeqEqual
  <2> QED
    BY <2>6 DEF y
<1>3. ToSet(w) = {a} /\ Number(w, S) = IF a \in S THEN 1 ELSE 0
  BY HoldsSingle, NumberSingle
<1> HIDE DEF w
<1> DEFINE z == Append(w, b)
<1>4. z \in Seq(T) /\ ToSet(z) = ToSet(w) \cup {b}
  BY <1>1, HoldsAppend
<1>5. Number(z, S) = Number(w, S) + IF b \in S THEN 1 ELSE 0
  BY <1>1, NumberAppend
<1>6. z = <<a, b>>
  BY <1>2
<1> HIDE DEF z
<1>7. z \in Seq(T) /\ ToSet(z) = {a, b}
  BY <1>3, <1>4
<1>8. Number(z, S) = (IF a \in S THEN 1 ELSE 0) + (IF b \in S THEN 1 ELSE 0)
  BY <1>3, <1>5
<1> QED
  BY <1>6, <1>7, <1>8

LEMMA PingOpsGive ==
  ASSUME NEW seq \in Nat
  PROVE  /\ PingOps(seq) \in Seq(ClientOps) /\ Number(PingOps(seq), TxOps) = 1
         /\ ToSet(PingOps(seq)) = {Op("tx", seq), Op("rx", 0)}
         /\ RetxOps(seq) \in Seq(ClientOps) /\ Number(RetxOps(seq), TxOps) = 0
         /\ ToSet(RetxOps(seq)) = {Op("retx", seq), Op("rx", 0)}
<1>1. /\ Op("tx", seq) \in ClientOps /\ Op("retx", seq) \in ClientOps /\ Op("rx", 0) \in ClientOps
      /\ Op("tx", seq) \in TxOps /\ Op("retx", seq) \notin TxOps /\ Op("rx", 0) \notin TxOps
  BY DEF Op, ClientOps, TxOps
<1>2. /\ PingOps(seq) \in Seq(ClientOps) /\ Number(PingOps(seq), TxOps) = 1
      /\ ToSet(PingOps(seq)) = {Op("tx", seq), Op("rx", 0)}
  BY <1>1, PairGives DEF PingOps
<1>3. /\ RetxOps(seq) \in Seq(ClientOps) /\ Number(RetxOps(seq), TxOps) = 0
      /\ ToSet(RetxOps(seq)) = {Op("retx", seq), Op("rx", 0)}
  BY <1>1, PairGives DEF RetxOps
<1> QED
  BY <1>2, <1>3

LEMMA AnswerOpsGive ==
  ASSUME NEW seq \in Nat
  PROVE  /\ AnswerOps(seq) \in Seq(ServerOps) /\ Number(AnswerOps(seq), RxOps) = 1
         /\ ToSet(AnswerOps(seq)) = {Op("answer", seq), Op("server_rx", 0)}
         /\ ResultOps \in Seq(ServerOps) /\ Number(ResultOps, RxOps) = 1
         /\ ToSet(ResultOps) = {Op("results", 0), Op("server_rx", 0)}
<1>1. /\ Op("answer", seq) \in ServerOps /\ Op("results", 0) \in ServerOps
      /\ Op("server_rx", 0) \in ServerOps /\ Op("server_rx", 0) \in RxOps
      /\ Op("answer", seq) \notin RxOps /\ Op("results", 0) \notin RxOps
  BY DEF Op, ServerOps, RxOps
<1>2. /\ AnswerOps(seq) \in Seq(ServerOps) /\ Number(AnswerOps(seq), RxOps) = 1
      /\ ToSet(AnswerOps(seq)) = {Op("answer", seq), Op("server_rx", 0)}
  BY <1>1, PairGives DEF AnswerOps
<1>3. /\ ResultOps \in Seq(ServerOps) /\ Number(ResultOps, RxOps) = 1
      /\ ToSet(ResultOps) = {Op("results", 0), Op("server_rx", 0)}
  BY <1>1, PairGives DEF ResultOps
<1> QED
  BY <1>2, <1>3

\* The request for results is no ping, however much of it the modem takes.
LEMMA RequestGives ==
  ASSUME NEW taken \in 0 .. 2
  PROVE  /\ SubSeq(RequestOps, 1, taken) \in Seq(ClientOps)
         /\ Number(SubSeq(RequestOps, 1, taken), TxOps) = 0
         /\ \A op \in ToSet(SubSeq(RequestOps, 1, taken)) : op.op \notin {"tx", "retx"}
<1> DEFINE a == Op("request", 0)
           b == Op("results_rx", 0)
           w == SubSeq(RequestOps, 1, taken)
<1>1. a \in ClientOps /\ b \in ClientOps /\ a.op \notin {"tx", "retx"} /\ b.op \notin {"tx", "retx"}
  BY DEF Op, ClientOps
<1>2. RequestOps = <<a, b>>
  BY DEF RequestOps
<1> HIDE DEF a, b
<1>3. /\ RequestOps \in Seq(ClientOps) /\ Len(RequestOps) = 2
      /\ RequestOps[1] = a /\ RequestOps[2] = b
  BY <1>1, <1>2
<1>4. taken \in Nat /\ 1 \in Int /\ taken <= 2 /\ \A i \in 1 .. taken : RequestOps[i] \in ClientOps
  BY <1>1, <1>3
<1>5. /\ w \in Seq(ClientOps) /\ Len(w) = taken
      /\ \A i \in 1 .. taken : w[i] = RequestOps[i]
  BY <1>3, <1>4, SubSeqProperties
<1> HIDE DEF w
<1>6. \A i \in DOMAIN w : w[i] = a \/ w[i] = b
  BY <1>3, <1>4, <1>5
<1>7. \A op \in ToSet(w) : op.op \notin {"tx", "retx"}
  BY <1>1, <1>6 DEF ToSet
<1>8. \A i \in DOMAIN w : w[i] \notin TxOps
  BY <1>1, <1>6 DEF TxOps
<1>9. Number(w, TxOps) = 0
  BY <1>5, <1>8, NumberType
<1> QED
  BY <1>5, <1>7, <1>9 DEF w

\* One of the modems is given other operations.
LEMMA ClientGiven ==
  ASSUME Modems, NEW ops \in Seq(ClientOps), modem' = [modem EXCEPT !["client"] = ops]
  PROVE  Modems' /\ modem'["client"] = ops /\ modem'["server"] = modem["server"]
BY DEF Modems, Roles

LEMMA ServerGiven ==
  ASSUME Modems, NEW ops \in Seq(ServerOps), modem' = [modem EXCEPT !["server"] = ops]
  PROVE  Modems' /\ modem'["server"] = ops /\ modem'["client"] = modem["client"]
BY DEF Modems, Roles

\* One of the modems takes more of them.
LEMMA ClientTakes ==
  ASSUME Modems, NEW ops \in Seq(ClientOps), modem' = [modem EXCEPT !["client"] = @ \o ops]
  PROVE  /\ Modems' /\ modem'["server"] = modem["server"]
         /\ ToSet(modem'["client"]) = ToSet(modem["client"]) \cup ToSet(ops)
         /\ Number(modem'["client"], TxOps) = Number(modem["client"], TxOps) + Number(ops, TxOps)
<1>1. modem["client"] \in Seq(ClientOps)
  BY DEF Modems
<1>2. modem["client"] \o ops \in Seq(ClientOps)
  BY <1>1, HoldsConcat
<1>3. modem' = [modem EXCEPT !["client"] = modem["client"] \o ops]
  OBVIOUS
<1>4. Modems' /\ modem'["client"] = modem["client"] \o ops /\ modem'["server"] = modem["server"]
  BY <1>2, <1>3, ClientGiven
<1>5. ToSet(modem["client"] \o ops) = ToSet(modem["client"]) \cup ToSet(ops)
  BY <1>1, HoldsConcat
<1>6. Number(modem["client"] \o ops, TxOps) = Number(modem["client"], TxOps) + Number(ops, TxOps)
  BY <1>1, NumberConcat
<1> QED
  BY <1>4, <1>5, <1>6, Zenon

LEMMA ServerTakes ==
  ASSUME Modems, NEW ops \in Seq(ServerOps), modem' = [modem EXCEPT !["server"] = @ \o ops]
  PROVE  /\ Modems' /\ modem'["client"] = modem["client"]
         /\ ToSet(modem'["server"]) = ToSet(modem["server"]) \cup ToSet(ops)
         /\ Number(modem'["server"], RxOps) = Number(modem["server"], RxOps) + Number(ops, RxOps)
<1>1. modem["server"] \in Seq(ServerOps)
  BY DEF Modems
<1>2. modem["server"] \o ops \in Seq(ServerOps)
  BY <1>1, HoldsConcat
<1>3. modem' = [modem EXCEPT !["server"] = modem["server"] \o ops]
  OBVIOUS
<1>4. Modems' /\ modem'["server"] = modem["server"] \o ops /\ modem'["client"] = modem["client"]
  BY <1>2, <1>3, ServerGiven
<1>5. ToSet(modem["server"] \o ops) = ToSet(modem["server"]) \cup ToSet(ops)
  BY <1>1, HoldsConcat
<1>6. Number(modem["server"] \o ops, RxOps) = Number(modem["server"], RxOps) + Number(ops, RxOps)
  BY <1>1, NumberConcat
<1> QED
  BY <1>4, <1>5, <1>6, Zenon

--------------------------------------------------------------------------------
(* What the modem's steps do.                                              *)

LEMMA SentType ==
  ASSUME TypeOK, NEW op \in ClientOps \cup ServerOps
  PROVE  /\ Sent(op) \in Seq(Events) /\ Received(op) \in Seq(Events)
         /\ op.op \in {"answer", "results", "request"} => Sent(op) = <<>>
         /\ ToSet(Sent(op)) \subseteq {Event("tx", 0), Event("retx", 0), Event("stored", 0)}
         /\ Number(Sent(op), {e \in Events : e.id = "tx"}) = IF op.op = "tx" THEN 1 ELSE 0
         /\ op.op \in {"tx", "retx"} => Received(op) = <<Event("ping", op.seq), Event("server_rx", 0)>>
         /\ op.op = "request" => Received(op) = <<Event("request", 0), Event("server_rx", 0)>>
         /\ op.op = "answer" => Received(op) = <<Event("answer", op.seq)>>
         /\ op.op = "results" => Received(op) = <<Event("results", 0)>>
<1> DEFINE T == {e \in Events : e.id = "tx"}
<1>1. op.seq \in Nat
  BY DEF ClientOps, ServerOps
<1>2. /\ Event("tx", 0) \in T /\ Event("tx", 0) \in Events
      /\ Event("retx", 0) \notin T /\ Event("retx", 0) \in Events
      /\ Event("stored", 0) \notin T /\ Event("stored", 0) \in Events
      /\ Event("ping", op.seq) \in Events /\ Event("server_rx", 0) \in Events
      /\ Event("request", 0) \in Events /\ Event("answer", op.seq) \in Events
      /\ Event("results", 0) \in Events
  BY <1>1 DEF Event, Events, EventIds
<1> HIDE DEF T
<1>3. /\ Stored \in Seq(Events) /\ ToSet(Stored) \subseteq {Event("stored", 0)}
      /\ Number(Stored, T) = 0
  <2>1. CASE client.harq
    <3>1. Stored = <<Event("stored", 0)>>
      BY <2>1 DEF Stored
    <3> QED
      BY <1>2, <3>1, HoldsSingle, NumberSingle
  <2>2. CASE ~client.harq
    <3>1. Stored = <<>>
      BY <2>2 DEF Stored
    <3> QED
      BY <3>1, HoldsEmpty, NumberEmpty
  <2> QED
    BY <2>1, <2>2
<1>4. ASSUME NEW a \in Events
      PROVE  /\ <<a>> \o Stored \in Seq(Events)
             /\ ToSet(<<a>> \o Stored) \subseteq {a, Event("stored", 0)}
             /\ Number(<<a>> \o Stored, T) = IF a \in T THEN 1 ELSE 0
  <2> DEFINE w == <<a>>
  <2>1. w \in Seq(Events) /\ ToSet(w) = {a} /\ Number(w, T) = IF a \in T THEN 1 ELSE 0
    BY HoldsSingle, NumberSingle
  <2> HIDE DEF w
  <2>2. w \o Stored \in Seq(Events) /\ ToSet(w \o Stored) = ToSet(w) \cup ToSet(Stored)
    BY <1>3, <2>1, HoldsConcat
  <2>3. Number(w \o Stored, T) = Number(w, T) + Number(Stored, T)
    BY <1>3, <2>1, NumberConcat
  <2>4. ToSet(w \o Stored) \subseteq {a, Event("stored", 0)}
    BY <1>3, <2>1, <2>2
  <2>5. Number(w \o Stored, T) = IF a \in T THEN 1 ELSE 0
    BY <1>3, <2>1, <2>3
  <2> QED
    BY <2>2, <2>4, <2>5 DEF w
<1>5. /\ Sent(op) \in Seq(Events)
      /\ ToSet(Sent(op)) \subseteq {Event("tx", 0), Event("retx", 0), Event("stored", 0)}
      /\ Number(Sent(op), T) = IF op.op = "tx" THEN 1 ELSE 0
  <2>1. CASE op.op = "tx"
    <3>1. Sent(op) = <<Event("tx", 0)>> \o Stored
      BY <2>1 DEF Sent
    <3> QED
      BY <1>2, <1>4, <2>1, <3>1
  <2>2. CASE op.op = "retx"
    <3>1. Sent(op) = <<Event("retx", 0)>> \o Stored
      BY <2>2 DEF Sent
    <3> QED
      BY <1>2, <1>4, <2>2, <3>1
  <2>3. CASE op.op \notin {"tx", "retx"}
    <3>1. Sent(op) = <<>>
      BY <2>3 DEF Sent
    <3> QED
      BY <2>3, <3>1, HoldsEmpty, NumberEmpty
  <2> QED
    BY <2>1, <2>2, <2>3
<1>6. /\ op.op \in {"tx", "retx"} => Received(op) = <<Event("ping", op.seq), Event("server_rx", 0)>>
      /\ op.op = "request" => Received(op) = <<Event("request", 0), Event("server_rx", 0)>>
      /\ op.op = "answer" => Received(op) = <<Event("answer", op.seq)>>
      /\ op.op \notin {"tx", "retx", "request", "answer"} => Received(op) = <<Event("results", 0)>>
  BY DEF Received
<1>7. Received(op) \in Seq(Events)
  <2>1. /\ <<Event("ping", op.seq), Event("server_rx", 0)>> \in Seq(Events)
        /\ <<Event("request", 0), Event("server_rx", 0)>> \in Seq(Events)
    BY <1>2, PairGives
  <2>2. <<Event("answer", op.seq)>> \in Seq(Events) /\ <<Event("results", 0)>> \in Seq(Events)
    BY <1>2
  <2> QED
    BY <1>6, <2>1, <2>2, Zenon
<1>8. op.op \in {"answer", "results", "request"} => Sent(op) = <<>>
  BY DEF Sent
<1> QED
  BY <1>5, <1>6, <1>7, <1>8 DEF T

\* The sets of the operations and events of a device, for the modem's handler.
LEMMA HeadOfModem ==
  ASSUME TypeOK, NEW r \in Roles, modem[r] # <<>>
  PROVE  /\ Current(r) \in ClientOps \cup ServerOps
         /\ r = "client" => /\ Current(r) \in ClientOps /\ Tail(modem[r]) \in Seq(ClientOps)
         /\ r = "server" => /\ Current(r) \in ServerOps /\ Tail(modem[r]) \in Seq(ServerOps)
         /\ ToSet(modem[r]) = {Current(r)} \cup ToSet(Tail(modem[r]))
<1>1. r \in {"client", "server"}
  BY DEF Roles
<1>2. CASE r = "client"
  <2>1. modem["client"] \in Seq(ClientOps)
    BY DEF TypeOK, Modems
  <2>2. /\ Head(modem["client"]) \in ClientOps /\ Tail(modem["client"]) \in Seq(ClientOps)
        /\ ToSet(modem["client"]) = {Head(modem["client"])} \cup ToSet(Tail(modem["client"]))
    BY <1>2, <2>1, HoldsTail
  <2> QED
    BY <1>2, <2>2 DEF Current
<1>3. CASE r = "server"
  <2>1. modem["server"] \in Seq(ServerOps)
    BY DEF TypeOK, Modems
  <2>2. /\ Head(modem["server"]) \in ServerOps /\ Tail(modem["server"]) \in Seq(ServerOps)
        /\ ToSet(modem["server"]) = {Head(modem["server"])} \cup ToSet(Tail(modem["server"]))
    BY <1>3, <2>1, HoldsTail
  <2> QED
    BY <1>3, <2>2 DEF Current
<1> QED
  BY <1>1, <1>2, <1>3

\* What a device puts into its queue, when the handler is ping's.
LEMMA PutType ==
  ASSUME TypeOK, NEW r \in Roles, NEW events \in Seq(Events)
  PROVE  /\ Put(r, events) \in Seq(Events)
         /\ ToSet(queue[r]) \subseteq ToSet(Put(r, events))
         /\ ToSet(Put(r, events)) \subseteq ToSet(queue[r]) \cup ToSet(events)
         /\ tool[r] => /\ Put(r, events) = queue[r] \o events
                       /\ ToSet(Put(r, events)) = ToSet(queue[r]) \cup ToSet(events)
<1>1. queue[r] \in Seq(Events) /\ tool[r] \in BOOLEAN
  BY DEF TypeOK, Flags
<1>2. queue[r] \o events \in Seq(Events) /\ ToSet(queue[r] \o events) = ToSet(queue[r]) \cup ToSet(events)
  BY <1>1, HoldsConcat
<1>3. CASE tool[r]
  BY <1>2, <1>3 DEF Put
<1>4. CASE ~tool[r]
  <2>1. Put(r, events) = queue[r]
    BY <1>4 DEF Put
  <2> QED
    BY <1>1, <1>4, <2>1
<1> QED
  BY <1>3, <1>4

\* The acknowledgement that the client's modem reports behind the completion.
Feedback(fate) == Event(IF fate = "heard" THEN "ack" ELSE "nack", 0)

\* A TX of the client.
LEMMA ClientSends ==
  ASSUME TypeOK, NEW fate \in {"heard", "garbled", "lost"}, NEW feedback \in BOOLEAN,
         Transmit("client", fate, feedback)
  PROVE  LET op == Head(modem["client"]) IN
         /\ modem["client"] # <<>> /\ op \in ClientOps /\ op.op \in {"tx", "retx", "request"}
         /\ DOMAIN modem' = DOMAIN modem /\ modem'["client"] = Tail(modem["client"])
         /\ fate = "heard" =>
              /\ modem["server"] # <<>> /\ Head(modem["server"]).op = "server_rx"
              /\ modem'["server"] = Tail(modem["server"])
              /\ tool["server"] /\ queue'["server"] = queue["server"] \o Received(op)
         /\ fate # "heard" => modem'["server"] = modem["server"] /\ queue'["server"] = queue["server"]
         /\ \E ans \in {<<>>, <<Feedback(fate)>>} :
              /\ queue'["client"] = Put("client", Sent(op) \o ans)
              /\ ans # <<>> => op.op # "request" /\ harq' = [harq EXCEPT !.seq = op.seq]
         /\ DOMAIN queue' = Roles
         /\ harq' = harq \/ (op.op # "request" /\ harq' = [harq EXCEPT !.seq = op.seq])
         /\ UNCHANGED <<on_going, client, list, server, tool, done, users, hitch>>
<1> DEFINE op == Head(modem["client"])
           pinged == op.op # "request"
           answers == pinged /\ client.harq /\ feedback
           ans == IF answers THEN <<Feedback(fate)>> ELSE <<>>
<1>1. Other("client") = "server" /\ "client" \in Roles /\ "server" \in Roles /\ "client" # "server"
  BY OtherRole DEF Roles
<1>2. /\ modem["client"] # <<>> /\ op.op \in Sends
      /\ fate # "lost" => Listens("server") /\ tool["server"]
      /\ modem' = [modem EXCEPT !["client"] = Tail(@),
                     !["server"] = IF fate = "heard" THEN Tail(@) ELSE @]
      /\ queue' = [queue EXCEPT !["client"] = Put("client", Sent(op) \o ans),
                     !["server"] = IF fate = "heard" THEN Put("server", Received(op)) ELSE @]
      /\ harq' = IF pinged /\ client.harq THEN [harq EXCEPT !.seq = op.seq] ELSE harq
      /\ UNCHANGED <<on_going, client, list, server, tool, done, users, hitch>>
  BY <1>1 DEF Transmit, Current, Feedback
<1>3. op \in ClientOps /\ op.op \in {"tx", "retx", "request"}
  <2>1. Current("client") \in ClientOps
    BY <1>1, <1>2, HeadOfModem
  <2> QED
    BY <1>2, <2>1 DEF Current, ClientOps, Sends
<1>4. DOMAIN modem = Roles /\ DOMAIN queue = Roles
  BY DEF TypeOK, Modems
<1>5. /\ DOMAIN modem' = DOMAIN modem /\ modem'["client"] = Tail(modem["client"])
      /\ fate = "heard" => modem'["server"] = Tail(modem["server"])
      /\ fate # "heard" => modem'["server"] = modem["server"]
  BY <1>1, <1>2, <1>4
<1>6. /\ DOMAIN queue' = Roles /\ queue'["client"] = Put("client", Sent(op) \o ans)
      /\ fate = "heard" => queue'["server"] = Put("server", Received(op))
      /\ fate # "heard" => queue'["server"] = queue["server"]
  BY <1>1, <1>2, <1>4
<1>7. fate = "heard" =>
        /\ modem["server"] # <<>> /\ Head(modem["server"]).op = "server_rx"
        /\ tool["server"] /\ queue'["server"] = queue["server"] \o Received(op)
  <2> SUFFICES ASSUME fate = "heard"
               PROVE  /\ modem["server"] # <<>> /\ Head(modem["server"]).op = "server_rx"
                      /\ tool["server"] /\ queue'["server"] = queue["server"] \o Received(op)
    OBVIOUS
  <2>1. Listens("server") /\ tool["server"]
    BY <1>2
  <2>2. modem["server"] # <<>> /\ Current("server") \in ServerOps /\ Current("server").op \notin Sends
    BY <1>1, <2>1, HeadOfModem DEF Listens
  <2>3. Head(modem["server"]).op = "server_rx"
    BY <2>2 DEF Current, ServerOps, Sends
  <2>4. queue'["server"] = queue["server"] \o Received(op)
    BY <1>6, <2>1 DEF Put
  <2> QED
    BY <2>1, <2>2, <2>3, <2>4
<1>8. /\ ans \in {<<>>, <<Feedback(fate)>>}
      /\ ans # <<>> => pinged /\ harq' = [harq EXCEPT !.seq = op.seq]
      /\ harq' = harq \/ (pinged /\ harq' = [harq EXCEPT !.seq = op.seq])
  <2>1. CASE answers
    BY <1>2, <2>1
  <2>2. CASE ~answers
    BY <1>2, <2>2
  <2> QED
    BY <2>1, <2>2
<1> HIDE DEF ans
<1>9. /\ \E a \in {<<>>, <<Feedback(fate)>>} :
              /\ queue'["client"] = Put("client", Sent(op) \o a)
              /\ a # <<>> => op.op # "request" /\ harq' = [harq EXCEPT !.seq = op.seq]
  BY <1>6, <1>8
<1> QED
  BY <1>2, <1>3, <1>5, <1>6, <1>7, <1>8, <1>9

\* A TX of the server.
LEMMA ServerSends ==
  ASSUME TypeOK, NEW fate \in {"heard", "garbled", "lost"}, NEW feedback \in BOOLEAN,
         Transmit("server", fate, feedback)
  PROVE  LET op == Head(modem["server"]) IN
         /\ modem["server"] # <<>> /\ op \in ServerOps /\ op.op \in {"answer", "results"}
         /\ DOMAIN modem' = DOMAIN modem /\ modem'["server"] = Tail(modem["server"])
         /\ modem'["client"] = modem["client"]
         /\ DOMAIN queue' = Roles /\ queue'["server"] = queue["server"]
         /\ \/ queue'["client"] = queue["client"]
            \/ queue'["client"] = queue["client"] \o Received(op)
         /\ UNCHANGED <<on_going, client, harq, list, server, tool, done, users, hitch>>
<1> DEFINE op == Head(modem["server"])
<1>1. Other("server") = "client" /\ "client" \in Roles /\ "server" \in Roles /\ "client" # "server"
  BY OtherRole DEF Roles
<1>2. /\ modem["server"] # <<>> /\ op.op \in Sends
      /\ fate # "lost" => tool["client"]
      /\ modem' = [modem EXCEPT !["server"] = Tail(@), !["client"] = @]
      /\ queue' = [queue EXCEPT !["server"] = Put("server", Sent(op) \o <<>>),
                     !["client"] = IF fate = "heard" THEN Put("client", Received(op)) ELSE @]
      /\ UNCHANGED <<on_going, client, harq, list, server, tool, done, users, hitch>>
  BY <1>1 DEF Transmit, Current
<1>3. op \in ServerOps /\ op.op \in {"answer", "results"}
  <2>1. Current("server") \in ServerOps
    BY <1>1, <1>2, HeadOfModem
  <2> QED
    BY <1>2, <2>1 DEF Current, ServerOps, Sends
<1>4. DOMAIN modem = Roles /\ DOMAIN queue = Roles /\ queue["server"] \in Seq(Events)
  BY DEF TypeOK, Modems, Roles
<1>5. /\ DOMAIN modem' = DOMAIN modem /\ modem'["server"] = Tail(modem["server"])
      /\ modem'["client"] = modem["client"]
  BY <1>1, <1>2, <1>4
<1>6. /\ DOMAIN queue' = Roles /\ queue'["server"] = Put("server", Sent(op) \o <<>>)
      /\ fate = "heard" => queue'["client"] = Put("client", Received(op))
      /\ fate # "heard" => queue'["client"] = queue["client"]
  BY <1>1, <1>2, <1>4
<1>7. Put("server", Sent(op) \o <<>>) = queue["server"]
  <2>1. Sent(op) = <<>>
    BY <1>3, SentType
  <2>2. <<>> \o <<>> = <<>> /\ queue["server"] \o <<>> = queue["server"]
    BY <1>4, ConcatEmptySeq
  <2> QED
    BY <2>1, <2>2 DEF Put
<1>8. \/ queue'["client"] = queue["client"]
      \/ queue'["client"] = queue["client"] \o Received(op)
  BY <1>6 DEF Put
<1> QED
  BY <1>2, <1>3, <1>5, <1>6, <1>7, <1>8

--------------------------------------------------------------------------------
(* One lemma per action: types, and who has the modem.                     *)

LEMMA SchedulerLends ==
  ASSUME LendInv, SchedulerRuns PROVE LendInv'
<1>1. TypeOK /\ Flags /\ Data /\ Modems /\ queue \in [Roles -> Seq(Events)]
  BY DEF LendInv, TypeOK
<1>2. /\ "client" \in Roles /\ list.seq \in Nat /\ list.left \in Nat /\ harq.seq \in Nat
      /\ list.retx \subseteq Nat /\ modem["client"] \in Seq(ClientOps)
  BY <1>1 DEF Data, Modems, Roles
<1>3. Stored \in Seq(Events) /\ LastTurn \in Seq(Events) /\ LastTurn \o Stored \in Seq(Events)
  BY StoredType, HoldsConcat
<1>4. CASE SendTurn
  <2>1. Modems'
    BY <1>1, <1>2, <1>4, PingOpsGive, ClientTakes DEF SendTurn
  <2>2. queue' \in [Roles -> Seq(Events)]
    BY <1>1, <1>3, <1>4 DEF SendTurn
  <2>3. list' \in [left : Nat, seq : Nat, retx : SUBSET Nat]
    <3>1. list.left > 0 /\ list' = [list EXCEPT !.left = @ - 1]
      BY <1>4 DEF SendTurn, Quiet
    <3>2. list.left - 1 \in Nat
      BY <1>2, <3>1
    <3>3. list' = [list EXCEPT !.left = list.left - 1]
      BY <3>1
    <3> QED
      BY <1>1, <3>2, <3>3 DEF Data
  <2>4. Data' /\ Flags'
    BY <1>1, <1>2, <1>4, <2>3 DEF SendTurn, Data, Flags, bounds
  <2> QED
    BY <1>4, <2>1, <2>2, <2>4, SameFlags DEF SendTurn, TypeOK, bounds
<1>5. CASE LoseTurn
  <2>1. Modems'
    BY <1>1, <1>5 DEF LoseTurn, Modems
  <2>2. queue' \in [Roles -> Seq(Events)]
    BY <1>1, <1>3, <1>5 DEF LoseTurn
  <2>3. list' \in [left : Nat, seq : Nat, retx : SUBSET Nat]
    <3>1. list.left > 0 /\ list' = [list EXCEPT !.left = @ - 1]
      BY <1>5 DEF LoseTurn, Quiet
    <3>2. list.left - 1 \in Nat
      BY <1>2, <3>1
    <3>3. list' = [list EXCEPT !.left = list.left - 1]
      BY <3>1
    <3> QED
      BY <1>1, <3>2, <3>3 DEF Data
  <2>4. harq' \in [in_use : BOOLEAN, rtx_ongoing : BOOLEAN, seq : Nat]
    BY <1>1, <1>2, <1>5 DEF LoseTurn, Data
  <2>5. Data'
    BY <1>1, <1>2, <1>5, <2>3, <2>4 DEF LoseTurn, Data
  <2>6. Hitch("client") /\ UNCHANGED <<on_going, tool, done>>
    BY <1>5 DEF LoseTurn
  <2> QED
    BY <1>1, <2>1, <2>2, <2>5, <2>6, SameFlags DEF TypeOK, Flags, Hitch
<1>6. ASSUME NEW seq \in list.retx, SendRetx(seq)
      PROVE  LendInv'
  <2>1. RetxOps(seq) \in Seq(ClientOps)
    BY <1>2, PingOpsGive
  <2>2. RetxOps(seq) \o modem["client"] \in Seq(ClientOps)
    BY <1>2, <2>1, HoldsConcat
  <2>3. modem' = [modem EXCEPT !["client"] = RetxOps(seq) \o modem["client"]]
    BY <1>6 DEF SendRetx
  <2>4. Modems'
    BY <1>1, <2>2, <2>3, ClientGiven
  <2>5. Data' /\ Flags' /\ queue' = queue
    BY <1>1, <1>2, <1>6 DEF SendRetx, Data, Flags, bounds
  <2> QED
    BY <1>1, <1>6, <2>4, <2>5, SameFlags DEF SendRetx, TypeOK, bounds
<1>7. ASSUME NEW seq \in list.retx, NEW late \in BOOLEAN, LoseRetx(seq, late)
      PROVE  LendInv'
  <2>1. Modems'
    BY <1>1, <1>7 DEF LoseRetx, Modems
  <2>2. queue["client"] \o Stored \in Seq(Events)
    BY <1>1, <1>2, <1>3, HoldsConcat
  <2>3. queue' \in [Roles -> Seq(Events)]
    BY <1>1, <1>7, <2>2 DEF LoseRetx
  <2>4. Data'
    BY <1>1, <1>2, <1>7 DEF LoseRetx, Data
  <2>5. Hitch("client") /\ UNCHANGED <<on_going, tool, done>>
    BY <1>7 DEF LoseRetx
  <2> QED
    BY <1>1, <2>1, <2>3, <2>4, <2>5, SameFlags DEF TypeOK, Flags, Hitch
<1> QED
  BY <1>4, <1>5, <1>6, <1>7 DEF SchedulerRuns

LEMMA ModemLends ==
  ASSUME LendInv, NEW r \in Roles, ModemRuns(r) PROVE LendInv'
<1>1. TypeOK /\ Flags /\ Data /\ Modems /\ queue \in [Roles -> Seq(Events)]
  BY DEF LendInv, TypeOK
<1>2. modem["client"] \in Seq(ClientOps) /\ modem["server"] \in Seq(ServerOps) /\ DOMAIN modem = Roles
  BY <1>1 DEF Modems
<1>3. r \in {"client", "server"} /\ "client" \in Roles /\ "server" \in Roles
  BY DEF Roles
<1>4. ASSUME NEW fate \in {"heard", "garbled", "lost"}, NEW feedback \in BOOLEAN,
             r = "client", Transmit("client", fate, feedback)
      PROVE  LendInv'
  <2> DEFINE op == Head(modem["client"])
  <2>1. /\ modem["client"] # <<>> /\ op \in ClientOps
        /\ DOMAIN modem' = DOMAIN modem /\ modem'["client"] = Tail(modem["client"])
        /\ fate = "heard" =>
              /\ modem["server"] # <<>> /\ modem'["server"] = Tail(modem["server"])
              /\ queue'["server"] = queue["server"] \o Received(op)
        /\ fate # "heard" => modem'["server"] = modem["server"] /\ queue'["server"] = queue["server"]
        /\ \E ans \in {<<>>, <<Feedback(fate)>>} : queue'["client"] = Put("client", Sent(op) \o ans)
        /\ DOMAIN queue' = Roles
        /\ harq' = harq \/ harq' = [harq EXCEPT !.seq = op.seq]
        /\ UNCHANGED <<on_going, client, list, server, tool, done, users, hitch>>
    BY <1>1, <1>4, ClientSends
  <2> HIDE DEF op
  <2>2. Modems'
    <3>1. Tail(modem["client"]) \in Seq(ClientOps)
      BY <1>2, <2>1, HoldsTail
    <3>2. modem["server"] # <<>> => Tail(modem["server"]) \in Seq(ServerOps)
      BY <1>2, HoldsTail
    <3> QED
      BY <1>2, <2>1, <3>1, <3>2 DEF Modems
  <2>3. Sent(op) \in Seq(Events) /\ Received(op) \in Seq(Events)
    BY <1>1, <2>1, SentType
  <2>4. PICK ans \in {<<>>, <<Feedback(fate)>>} : queue'["client"] = Put("client", Sent(op) \o ans)
    BY <2>1
  <2>5. ans \in Seq(Events)
    <3>1. Feedback(fate) \in Events
      BY DEF Feedback, Event, Events, EventIds
    <3>2. ans = <<>> \/ ans = <<Feedback(fate)>>
      BY <2>4
    <3>3. <<Feedback(fate)>> \in Seq(Events) /\ <<>> \in Seq(Events)
      BY <3>1
    <3> QED
      BY <3>2, <3>3, Zenon
  <2>6. Sent(op) \o ans \in Seq(Events)
    BY <2>3, <2>5, HoldsConcat
  <2>7. queue'["client"] \in Seq(Events)
    <3>1. Put("client", Sent(op) \o ans) \in Seq(Events)
      BY <1>1, <1>3, <2>6, PutType
    <3> QED
      BY <2>4, <3>1, Zenon
  <2>8. queue'["server"] \in Seq(Events)
    <3>1. queue["server"] \in Seq(Events)
      BY <1>1, <1>3
    <3>2. queue["server"] \o Received(op) \in Seq(Events)
      BY <2>3, <3>1, HoldsConcat
    <3> QED
      BY <2>1, <3>1, <3>2, Zenon
  <2>9. queue' \in [Roles -> Seq(Events)]
    <3>1. UNCHANGED DOMAIN queue
      BY <1>1, <2>1
    <3>2. queue' = [o \in Roles |-> queue'[o]]
      BY <1>4, <1>1 DEF Transmit
    <3> QED
      BY <2>7, <2>8, <3>2 DEF Roles
  <2>10. Data'
    BY <1>1, <2>1 DEF Data, ClientOps
  <2>11. Flags'
    BY <1>1, <2>1 DEF Flags
  <2> QED
    BY <2>1, <2>2, <2>9, <2>10, <2>11, SameFlags DEF TypeOK
<1>5. ASSUME NEW fate \in {"heard", "garbled", "lost"}, NEW feedback \in BOOLEAN,
             r = "server", Transmit("server", fate, feedback)
      PROVE  LendInv'
  <2> DEFINE op == Head(modem["server"])
  <2>1. /\ modem["server"] # <<>> /\ op \in ServerOps
        /\ DOMAIN modem' = DOMAIN modem /\ modem'["server"] = Tail(modem["server"])
        /\ modem'["client"] = modem["client"]
        /\ DOMAIN queue' = Roles /\ queue'["server"] = queue["server"]
        /\ \/ queue'["client"] = queue["client"]
           \/ queue'["client"] = queue["client"] \o Received(op)
        /\ UNCHANGED <<on_going, client, harq, list, server, tool, done, users, hitch>>
    BY <1>1, <1>5, ServerSends
  <2> HIDE DEF op
  <2>2. Modems'
    BY <1>1, <1>2, <2>1, HoldsTail DEF Modems
  <2>3. Received(op) \in Seq(Events)
    BY <1>1, <2>1, SentType
  <2>4. queue'["client"] \in Seq(Events)
    BY <1>1, <1>3, <2>1, <2>3, HoldsConcat
  <2>5. queue' \in [Roles -> Seq(Events)]
    <3>1. queue' = [o \in Roles |-> queue'[o]]
      BY <1>5, <1>1 DEF Transmit
    <3> QED
      BY <1>1, <2>1, <2>4, <3>1 DEF Roles
  <2>6. Data' /\ Flags'
    BY <1>1, <2>1 DEF Data, Flags
  <2> QED
    BY <2>1, <2>2, <2>5, <2>6, SameFlags DEF TypeOK
<1>6. ASSUME NEW failed \in BOOLEAN, RxEnds(r, failed)
      PROVE  LendInv'
  <2>1. modem[r] # <<>> /\ modem' = [modem EXCEPT ![r] = Tail(modem[r])]
    BY <1>6 DEF RxEnds, Listens
  <2>2. Modems'
    BY <1>1, <1>2, <1>3, <2>1, HoldsTail DEF Modems
  <2> DEFINE id == IF failed THEN "failed" ELSE Current(r).op
  <2>3. id \in EventIds
    <3>1. Current(r) \in ClientOps \cup ServerOps /\ Current(r).op \notin Sends
      BY <1>1, <1>6, <2>1, HeadOfModem DEF RxEnds, Listens
    <3>2. Current(r).op \in {"rx", "results_rx", "server_rx"}
      BY <3>1 DEF ClientOps, ServerOps, Sends
    <3> QED
      BY <3>2 DEF EventIds
  <2>4. queue' = [queue EXCEPT ![r] = Put(r, <<Event(id, 0)>>)]
    BY <1>6 DEF RxEnds
  <2> HIDE DEF id
  <2>5. <<Event(id, 0)>> \in Seq(Events)
    BY <2>3, EventType
  <2>6. Put(r, <<Event(id, 0)>>) \in Seq(Events)
    BY <1>1, <2>5, PutType
  <2>7. queue' \in [Roles -> Seq(Events)]
    BY <1>1, <2>4, <2>6
  <2>8. Data' /\ Flags'
    BY <1>1, <1>6 DEF RxEnds, Data, Flags
  <2> QED
    BY <1>6, <2>2, <2>7, <2>8, SameFlags DEF RxEnds, TypeOK
<1> QED
  BY <1>3, <1>4, <1>5, <1>6 DEF ModemRuns

\* A report asks for the results, or ends the ping.
LEMMA ReportGives ==
  ASSUME LendInv, NEW taken \in 0 .. 2, Report(taken), UNCHANGED <<tool, hitch>>
  PROVE  /\ Modems' /\ modem'["server"] = modem["server"]
         /\ Number(modem'["client"], TxOps) = Number(modem["client"], TxOps)
         /\ \A op \in ToSet(modem'["client"]) :
              op.op \in {"tx", "retx"} => op \in ToSet(modem["client"])
         /\ list' = [list EXCEPT !.left = 0] /\ client'.next = client.next
         /\ client' \in [intervals_done : BOOLEAN, requested : BOOLEAN, harq : BOOLEAN,
                         next : Nat, sent : Nat]
         /\ list' \in [left : Nat, seq : Nat, retx : SUBSET Nat]
         /\ \A o \in Roles : on_going'[o] => on_going[o]
         /\ on_going'["server"] = on_going["server"]
         /\ TypeOK' => LendInv'
         /\ Flags'
<1>1. TypeOK /\ Flags /\ Data /\ Modems
  BY DEF LendInv, TypeOK
<1>2. /\ list' = [list EXCEPT !.left = 0]
      /\ modem' = [modem EXCEPT !["client"] = @ \o SubSeq(RequestOps, 1, taken)]
      /\ client' = [client EXCEPT !.sent = 0, !.requested = @ \/ taken = 2]
  BY DEF Report
<1>3. /\ SubSeq(RequestOps, 1, taken) \in Seq(ClientOps)
      /\ Number(SubSeq(RequestOps, 1, taken), TxOps) = 0
      /\ \A op \in ToSet(SubSeq(RequestOps, 1, taken)) : op.op \notin {"tx", "retx"}
  BY RequestGives
<1>4. /\ Modems' /\ modem'["server"] = modem["server"]
      /\ ToSet(modem'["client"]) =
           ToSet(modem["client"]) \cup ToSet(SubSeq(RequestOps, 1, taken))
      /\ Number(modem'["client"], TxOps) =
           Number(modem["client"], TxOps) + Number(SubSeq(RequestOps, 1, taken), TxOps)
  BY <1>1, <1>2, <1>3, ClientTakes
<1>5. Number(modem["client"], TxOps) \in Nat
  BY <1>1, NumberType DEF Modems
<1>6. Number(modem'["client"], TxOps) = Number(modem["client"], TxOps)
  BY <1>3, <1>4, <1>5
<1>7. /\ client'.next = client.next
      /\ client' \in [intervals_done : BOOLEAN, requested : BOOLEAN, harq : BOOLEAN,
                      next : Nat, sent : Nat]
      /\ list' \in [left : Nat, seq : Nat, retx : SUBSET Nat]
  <2>1. (client.requested \/ taken = 2) \in BOOLEAN
    BY <1>1 DEF Data
  <2> QED
    BY <1>1, <1>2, <2>1 DEF Data
<1>8. /\ \A o \in Roles : on_going'[o] => on_going[o]
      /\ on_going'["server"] = on_going["server"]
      /\ (TypeOK' => LendInv') /\ Flags'
  <2>1. CASE taken = 2
    <3>1. UNCHANGED <<on_going, done>>
      BY <2>1 DEF Report
    <3>2. Flags'
      BY <1>1, <3>1 DEF Flags
    <3> QED
      BY <3>1, <3>2, SameFlags
  <2>2. CASE taken # 2
    <3>1. CmdDone("client")
      BY <2>2 DEF Report
    <3>2. "client" \in Roles /\ "server" \in Roles
      BY DEF Roles
    <3>3. on_going'["server"] = on_going["server"]
      BY <1>1, <3>1, <3>2 DEF CmdDone, Flags
    <3> QED
      BY <3>1, <3>2, <3>3, CmdDoneKeeps
  <2> QED
    BY <2>1, <2>2
<1> QED
  BY <1>2, <1>3, <1>4, <1>6, <1>7, <1>8

\* What the ping thread takes off its queue.
LEMMA TakesType ==
  ASSUME TypeOK, NEW r \in Roles, NEW id, Takes(r, id)
  PROVE  /\ queue[r] # <<>> /\ Head(queue[r]).id = id /\ Head(queue[r]) \in Events
         /\ queue' \in [Roles -> Seq(Events)] /\ queue'[r] = Tail(queue[r])
         /\ \A o \in Roles \ {r} : queue'[o] = queue[o]
         /\ ToSet(queue[r]) = {Head(queue[r])} \cup ToSet(queue'[r])
<1>1. queue \in [Roles -> Seq(Events)]
  BY DEF TypeOK
<1> QED
  BY <1>1, TakesGives DEF Takes

LEMMA ClientLends ==
  ASSUME LendInv, ClientRuns PROVE LendInv'
<1>1. TypeOK /\ Flags /\ Data /\ Modems
  BY DEF LendInv, TypeOK
<1>2. "client" \in Roles
  BY DEF Roles
<1>3. queue' \in [Roles -> Seq(Events)]
  BY <1>1, <1>2, TakesType
     DEF ClientRuns, TakeIntervalsDone, TakeTx, TakeRx, TakeRetx, TakeStored, TakeAck, TakeNack,
         TakeAnswer, TakeResults, Handles
<1>4. CASE TakeIntervalsDone \/ TakeRetx \/ TakeStored \/ TakeAck \/ TakeAnswer
  <2>1. /\ client' \in [intervals_done : BOOLEAN, requested : BOOLEAN, harq : BOOLEAN,
                         next : Nat, sent : Nat]
        /\ harq' \in [in_use : BOOLEAN, rtx_ongoing : BOOLEAN, seq : Nat]
    <3>1. CASE TakeIntervalsDone
      BY <1>1, <3>1 DEF TakeIntervalsDone, Data
    <3>2. CASE TakeRetx
      BY <1>1, <3>2 DEF TakeRetx, Data
    <3>3. CASE TakeStored
      BY <1>1, <3>3 DEF TakeStored, Data
    <3>4. CASE TakeAck
      BY <1>1, <3>4 DEF TakeAck, Data
    <3>5. CASE TakeAnswer
      BY <1>1, <3>5 DEF TakeAnswer, Data
    <3> QED
      BY <1>4, <3>1, <3>2, <3>3, <3>4, <3>5
  <2>2. UNCHANGED <<on_going, list, server, modem, tool, done, hitch>>
    BY <1>4 DEF TakeIntervalsDone, TakeRetx, TakeStored, TakeAck, TakeAnswer, bounds
  <2>3. Flags' /\ Modems'
    BY <1>1, <2>2 DEF Flags, Modems
  <2>4. Data'
    <3>1. /\ list \in [left : Nat, seq : Nat, retx : SUBSET Nat]
          /\ server \in [on_going_rx_count : Nat, heard : BOOLEAN]
      BY <1>1 DEF Data
    <3> QED
      BY <2>1, <2>2, <3>1, Zenon DEF Data
  <2> QED
    BY <1>3, <2>2, <2>3, <2>4, SameFlags DEF TypeOK
<1>5. CASE TakeTx
  <2>1. list' \in [left : Nat, seq : Nat, retx : SUBSET Nat]
    BY <1>1, <1>5 DEF TakeTx, NextPing, Data
  <2>2. Data' /\ Flags' /\ Modems'
    <3>1. client.sent + 1 \in Nat /\ client.next + 1 \in Nat
      BY <1>1 DEF Data
    <3>2. client' = [client EXCEPT !.sent = client.sent + 1, !.next = client.next + 1]
      BY <1>5 DEF TakeTx
    <3>3. client' \in [intervals_done : BOOLEAN, requested : BOOLEAN, harq : BOOLEAN,
                       next : Nat, sent : Nat]
      BY <1>1, <3>1, <3>2 DEF Data
    <3>4. UNCHANGED <<on_going, harq, server, modem, tool, done, hitch>>
      BY <1>5 DEF TakeTx, bounds
    <3>5. Data'
      BY <1>1, <2>1, <3>3, <3>4 DEF Data
    <3> QED
      BY <1>1, <3>4, <3>5 DEF Flags, Modems
  <2> QED
    BY <1>3, <1>5, <2>2, SameFlags DEF TakeTx, TypeOK, bounds
<1>6. ASSUME NEW taken \in 0 .. 2, TakeRx(taken)
      PROVE  LendInv'
  <2>1. CASE AllSent /\ ~client.requested
    <3>1. Report(taken) /\ UNCHANGED <<harq, server, tool, hitch>>
      BY <1>6, <2>1 DEF TakeRx
    <3>2. Data'
      BY <1>1, <3>1, ReportGives DEF Data
    <3> QED
      BY <1>3, <3>1, <3>2, ReportGives DEF TypeOK
  <2>2. CASE ~(AllSent /\ ~client.requested)
    <3>1. UNCHANGED <<on_going, client, harq, list, server, modem, tool, done, hitch>>
      BY <1>6, <2>2 DEF TakeRx
    <3>2. Data' /\ Flags' /\ Modems'
      BY <1>1, <3>1 DEF Data, Flags, Modems
    <3> QED
      BY <1>3, <3>1, <3>2, SameFlags DEF TypeOK
  <2> QED
    BY <2>1, <2>2
<1>7. ASSUME NEW again \in BOOLEAN, NEW over \in BOOLEAN, TakeNack(again, over)
      PROVE  LendInv'
  <2>1. CASE ~harq.in_use
    <3>1. UNCHANGED <<on_going, client, harq, list, server, modem, tool, done, hitch>>
      BY <1>7, <2>1 DEF TakeNack
    <3>2. Data' /\ Flags' /\ Modems'
      BY <1>1, <3>1 DEF Data, Flags, Modems
    <3> QED
      BY <1>3, <3>1, <3>2, SameFlags DEF TypeOK
  <2>2. CASE harq.in_use
    <3>1. Cancelled(modem["client"]) \in Seq(ClientOps)
      BY <1>1, HoldsTail DEF Cancelled, Modems
    <3>2. modem' = [modem EXCEPT !["client"] = Cancelled(modem["client"])]
      BY <1>7, <2>2 DEF TakeNack
    <3>3. Modems'
      BY <1>1, <3>1, <3>2, ClientGiven
    <3>4. UNCHANGED <<on_going, client, server, tool, done>>
      BY <1>7 DEF TakeNack
    <3>5. CASE again
      <4>1. /\ list' = [list EXCEPT !.retx = @ \cup {harq.seq}]
            /\ harq' = [harq EXCEPT !.rtx_ongoing = TRUE] /\ hitch' = hitch
        BY <1>7, <2>2, <3>5 DEF TakeNack
      <4>2. Data' /\ Flags'
        BY <1>1, <3>4, <4>1 DEF Data, Flags
      <4> QED
        BY <1>3, <3>3, <3>4, <4>1, <4>2, SameFlags DEF TypeOK
    <3>6. CASE ~again
      <4>1. harq' = [harq EXCEPT !.in_use = @ /\ ~over] /\ Hitch("client") /\ list' = list
        BY <1>7, <2>2, <3>6 DEF TakeNack
      <4>2. (harq.in_use /\ ~over) \in BOOLEAN
        OBVIOUS
      <4>3. harq' \in [in_use : BOOLEAN, rtx_ongoing : BOOLEAN, seq : Nat]
        BY <1>1, <4>1, <4>2 DEF Data
      <4>4. Data'
        BY <1>1, <3>4, <4>1, <4>3 DEF Data
      <4>5. Flags' /\ \A r \in Roles : hitch[r] => hitch'[r]
        BY <1>1, <3>4, <4>1 DEF Flags, Hitch
      <4> QED
        BY <1>3, <3>3, <3>4, <4>4, <4>5, SameFlags DEF TypeOK
    <3> QED
      BY <3>5, <3>6
  <2> QED
    BY <2>1, <2>2
<1>8. CASE TakeResults
  <2>1. CmdDone("client") /\ UNCHANGED <<harq, list, server, modem, tool, hitch>>
    BY <1>8 DEF TakeResults, bounds
  <2>2. Data' /\ Modems'
    BY <1>1, <1>8, <2>1 DEF TakeResults, Data, Modems
  <2> QED
    BY <1>2, <1>3, <2>1, <2>2, CmdDoneKeeps DEF TypeOK
<1> QED
  BY <1>4, <1>5, <1>6, <1>7, <1>8 DEF ClientRuns

Counters == [on_going_rx_count : Nat, heard : BOOLEAN]

LEMMA FewerType ==
  ASSUME NEW n \in Nat PROVE Fewer(n) \in Nat /\ Fewer(n) <= n /\ (n > 0 => Fewer(n) + 1 = n)
<1>1. CASE n = 0
  BY <1>1 DEF Fewer
<1>2. CASE n # 0
  <2>1. n - 1 \in Nat
    BY <1>2
  <2> QED
    BY <1>2, <2>1 DEF Fewer
<1> QED
  BY <1>1, <1>2

\* What the server's modem is given in a step that may be refused.
LEMMA GivenOrNot ==
  ASSUME Modems, NEW ops \in Seq(ServerOps), Number(ops, RxOps) = 1, NEW taken \in BOOLEAN,
         modem' = [modem EXCEPT !["server"] = IF taken THEN @ \o ops ELSE @]
  PROVE  /\ Modems' /\ modem'["client"] = modem["client"]
         /\ ToSet(modem'["server"]) =
              ToSet(modem["server"]) \cup (IF taken THEN ToSet(ops) ELSE {})
         /\ Number(modem'["server"], RxOps) =
              Number(modem["server"], RxOps) + (IF taken THEN 1 ELSE 0)
<1>1. CASE taken
  <2>1. modem' = [modem EXCEPT !["server"] = @ \o ops]
    BY <1>1
  <2> QED
    BY <1>1, <2>1, ServerTakes
<1>2. CASE ~taken
  <2>1. modem["server"] \in Seq(ServerOps) /\ modem' = [modem EXCEPT !["server"] = modem["server"]]
    BY <1>2 DEF Modems
  <2>2. Number(modem["server"], RxOps) \in Nat
    BY <2>1, NumberType
  <2>3. Modems' /\ modem'["server"] = modem["server"] /\ modem'["client"] = modem["client"]
    BY <2>1, ServerGiven
  <2> QED
    BY <1>2, <2>2, <2>3
<1> QED
  BY <1>1, <1>2

\* An answer to a ping: one more RX is counted if there is one more.
LEMMA AnswersGive ==
  ASSUME TypeOK, NEW seq \in Nat, NEW taken \in BOOLEAN, Answers(AnswerOps(seq), taken)
  PROVE  /\ Modems' /\ server' \in Counters /\ modem'["client"] = modem["client"]
         /\ ToSet(modem'["server"]) \subseteq
              ToSet(modem["server"]) \cup {Op("answer", seq), Op("server_rx", 0)}
         /\ \E more \in {0, 1} :
              /\ Number(modem'["server"], RxOps) = Number(modem["server"], RxOps) + more
              /\ server'.on_going_rx_count = server.on_going_rx_count + more
<1>1. Modems /\ server \in Counters /\ server.on_going_rx_count \in Nat
  BY DEF TypeOK, Data, Counters
<1>2. /\ AnswerOps(seq) \in Seq(ServerOps) /\ Number(AnswerOps(seq), RxOps) = 1
      /\ ToSet(AnswerOps(seq)) = {Op("answer", seq), Op("server_rx", 0)}
  BY AnswerOpsGive
<1>3. modem' = [modem EXCEPT !["server"] = IF taken THEN @ \o AnswerOps(seq) ELSE @]
  BY DEF Answers
<1>4. /\ Modems' /\ modem'["client"] = modem["client"]
      /\ ToSet(modem'["server"]) =
           ToSet(modem["server"]) \cup (IF taken THEN ToSet(AnswerOps(seq)) ELSE {})
      /\ Number(modem'["server"], RxOps) =
           Number(modem["server"], RxOps) + (IF taken THEN 1 ELSE 0)
  BY <1>1, <1>2, <1>3, GivenOrNot
<1> DEFINE more == IF taken THEN 1 ELSE 0
<1>5. more \in {0, 1} /\ server.on_going_rx_count + more \in Nat
  BY <1>1
<1>6. server' = [server EXCEPT !.on_going_rx_count = server.on_going_rx_count + more, !.heard = TRUE]
  <2>1. CASE taken
    BY <2>1 DEF Answers
  <2>2. CASE ~taken
    <3>1. server' = [server EXCEPT !.on_going_rx_count = server.on_going_rx_count, !.heard = TRUE]
      BY <2>2 DEF Answers
    <3>2. server.on_going_rx_count + more = server.on_going_rx_count
      BY <1>1, <2>2
    <3> QED
      BY <3>1, <3>2
  <2> QED
    BY <2>1, <2>2
<1>7. server' \in Counters /\ server'.on_going_rx_count = server.on_going_rx_count + more
  BY <1>1, <1>5, <1>6 DEF Counters
<1>8. Number(modem'["server"], RxOps) = Number(modem["server"], RxOps) + more
  BY <1>4
<1> HIDE DEF more
<1> QED
  BY <1>2, <1>4, <1>5, <1>7, <1>8

\* The same for the results.
LEMMA ResultsGive ==
  ASSUME TypeOK, NEW taken \in BOOLEAN, Results(taken)
  PROVE  /\ Modems' /\ server' \in Counters /\ modem'["client"] = modem["client"]
         /\ ToSet(modem'["server"]) \subseteq
              ToSet(modem["server"]) \cup {Op("results", 0), Op("server_rx", 0)}
         /\ \E more \in {0, 1} :
              /\ Number(modem'["server"], RxOps) = Number(modem["server"], RxOps) + more
              /\ server'.on_going_rx_count = server.on_going_rx_count + more
<1>1. /\ Modems /\ server \in Counters /\ server.on_going_rx_count \in Nat
      /\ Number(modem["server"], RxOps) \in Nat
  BY NumberType DEF TypeOK, Data, Counters, Modems
<1>2. /\ ResultOps \in Seq(ServerOps) /\ Number(ResultOps, RxOps) = 1
      /\ ToSet(ResultOps) = {Op("results", 0), Op("server_rx", 0)}
  BY AnswerOpsGive
<1>3. CASE ~server.heard
  <2>1. modem' = modem /\ server' = server
    BY <1>3 DEF Results
  <2>2. Modems'
    BY <1>1, <2>1 DEF Modems
  <2>3. /\ Number(modem'["server"], RxOps) = Number(modem["server"], RxOps) + 0
        /\ server'.on_going_rx_count = server.on_going_rx_count + 0
    BY <1>1, <2>1
  <2> QED
    BY <1>1, <2>1, <2>2, <2>3
<1>4. CASE server.heard
  <2>1. modem' = [modem EXCEPT !["server"] = IF taken THEN @ \o ResultOps ELSE @]
    BY <1>4 DEF Results
  <2>2. /\ Modems' /\ modem'["client"] = modem["client"]
        /\ ToSet(modem'["server"]) =
             ToSet(modem["server"]) \cup (IF taken THEN ToSet(ResultOps) ELSE {})
        /\ Number(modem'["server"], RxOps) =
             Number(modem["server"], RxOps) + (IF taken THEN 1 ELSE 0)
    BY <1>1, <1>2, <2>1, GivenOrNot
  <2> DEFINE more == IF taken THEN 1 ELSE 0
  <2>3. more \in {0, 1} /\ server.on_going_rx_count + more \in Nat
    BY <1>1
  <2>4. server' = [on_going_rx_count |-> server.on_going_rx_count + more, heard |-> FALSE]
    BY <1>4 DEF Results
  <2>5. server' \in Counters /\ server'.on_going_rx_count = server.on_going_rx_count + more
    BY <2>3, <2>4 DEF Counters
  <2>6. Number(modem'["server"], RxOps) = Number(modem["server"], RxOps) + more
    BY <2>2
  <2> HIDE DEF more
  <2> QED
    BY <1>2, <2>2, <2>3, <2>5, <2>6
<1> QED
  BY <1>3, <1>4

\* A restart: the server listens, or is not on going any more.
LEMMA RestartGives ==
  ASSUME LendInv, NEW taken \in BOOLEAN, ServerRestarts(taken), UNCHANGED tool
  PROVE  /\ Modems' /\ Flags' /\ server' \in Counters /\ modem'["client"] = modem["client"]
         /\ TypeOK' => LendInv'
         /\ on_going'["client"] = on_going["client"]
         /\ ToSet(modem'["server"]) \subseteq ToSet(modem["server"]) \cup {Op("server_rx", 0)}
         /\ on_going'["server"] =>
              /\ Number(modem'["server"], RxOps) = Number(modem["server"], RxOps) + 1
              /\ server'.on_going_rx_count = 1
<1>1. TypeOK /\ Flags /\ Modems /\ server \in Counters /\ modem["server"] \in Seq(ServerOps)
  BY DEF LendInv, TypeOK, Data, Counters, Modems
<1>2. Op("server_rx", 0) \in ServerOps /\ Op("server_rx", 0) \in RxOps
  BY DEF Op, ServerOps, RxOps
<1>3. CASE taken
  <2>1. /\ modem' = [modem EXCEPT !["server"] = Append(modem["server"], Op("server_rx", 0))]
        /\ server' = [server EXCEPT !.on_going_rx_count = 1]
        /\ UNCHANGED <<on_going, done, hitch>>
    BY <1>3 DEF ServerRestarts
  <2> DEFINE z == Append(modem["server"], Op("server_rx", 0))
  <2>2. /\ z \in Seq(ServerOps) /\ ToSet(z) = ToSet(modem["server"]) \cup {Op("server_rx", 0)}
    BY <1>1, <1>2, HoldsAppend
  <2>3. Number(z, RxOps) = Number(modem["server"], RxOps) + 1
    <3>1. Number(z, RxOps) =
            Number(modem["server"], RxOps) + IF Op("server_rx", 0) \in RxOps THEN 1 ELSE 0
      BY <1>1, <1>2, NumberAppend
    <3> HIDE DEF z
    <3> QED
      BY <1>2, <3>1
  <2>4. modem' = [modem EXCEPT !["server"] = z]
    BY <2>1
  <2> HIDE DEF z
  <2>5. Modems' /\ modem'["server"] = z /\ modem'["client"] = modem["client"]
    BY <1>1, <2>2, <2>4, ServerGiven
  <2>6. server' \in Counters /\ server'.on_going_rx_count = 1
    BY <1>1, <2>1 DEF Counters
  <2>7. Flags' /\ (TypeOK' => LendInv')
    BY <1>1, <2>1, SameFlags DEF Flags
  <2>8. ToSet(modem'["server"]) = ToSet(modem["server"]) \cup {Op("server_rx", 0)}
    BY <2>2, <2>5
  <2>9. Number(modem'["server"], RxOps) = Number(modem["server"], RxOps) + 1
    BY <2>3, <2>5
  <2> QED
    BY <2>1, <2>5, <2>6, <2>7, <2>8, <2>9
<1>4. CASE ~taken
  <2>1. /\ on_going' = [on_going EXCEPT !["server"] = FALSE]
        /\ server' = [server EXCEPT !.on_going_rx_count = 0]
        /\ Hitch("server") /\ UNCHANGED <<modem, done>>
    BY <1>4 DEF ServerRestarts
  <2>2. "server" \in Roles /\ "client" \in Roles /\ \A r \in Roles : r = "client" \/ r = "server"
    BY DEF Roles
  <2>3. hitch' = [hitch EXCEPT !["server"] = TRUE]
    BY <1>1, <2>1, Zenon DEF Hitch
  <2>4. /\ on_going'["server"] = FALSE /\ on_going'["client"] = on_going["client"]
        /\ hitch'["server"] = TRUE /\ hitch'["client"] = hitch["client"]
    BY <1>1, <2>1, <2>2, <2>3 DEF Flags
  <2>5. Flags'
    BY <1>1, <2>1, <2>3 DEF Flags
  <2>6. DoneIsOver' /\ ToolAgrees'
    BY <2>1, <2>2, <2>4 DEF LendInv, DoneIsOver, ToolAgrees
  <2>7. Modems' /\ server' \in Counters
    BY <1>1, <2>1 DEF Modems, Counters
  <2> QED
    BY <2>1, <2>4, <2>5, <2>6, <2>7 DEF LendInv
<1> QED
  BY <1>3, <1>4

LEMMA ServerLends ==
  ASSUME LendInv, ServerRuns PROVE LendInv'
<1>1. TypeOK /\ Flags /\ Data /\ Modems /\ server \in Counters /\ server.on_going_rx_count \in Nat
  BY DEF LendInv, TypeOK, Data, Counters
<1>2. "server" \in Roles
  BY DEF Roles
<1>3. queue' \in [Roles -> Seq(Events)]
  BY <1>1, <1>2, TakesType
     DEF ServerRuns, TakePing, TakeRequest, TakeServerRx, TakeFailed, TakeCmdDone, Handles
<1>4. ASSUME UNCHANGED <<client, harq, list>>, server' \in Counters
      PROVE  Data'
  BY <1>1, <1>4 DEF Data, Counters
<1>5. ASSUME NEW taken \in BOOLEAN, TakePing(taken)
      PROVE  LendInv'
  <2> DEFINE seq == Head(queue["server"]).seq
  <2>1. Head(queue["server"]) \in Events
    BY <1>1, <1>2, <1>5, TakesType DEF TakePing, Handles
  <2>2. seq \in Nat /\ Answers(AnswerOps(seq), taken)
    BY <1>5, <2>1 DEF TakePing, Events
  <2> HIDE DEF seq
  <2>3. Modems' /\ server' \in Counters
    BY <1>1, <2>2, AnswersGive
  <2>4. UNCHANGED <<on_going, client, harq, list, tool, done, hitch>>
    BY <1>5 DEF TakePing
  <2>5. Data' /\ Flags'
    BY <1>1, <1>4, <2>3, <2>4 DEF Flags
  <2> QED
    BY <1>3, <2>3, <2>4, <2>5, SameFlags DEF TypeOK
<1>6. ASSUME NEW taken \in BOOLEAN, TakeRequest(taken)
      PROVE  LendInv'
  <2>1. Modems' /\ server' \in Counters
    BY <1>1, <1>6, ResultsGive DEF TakeRequest
  <2>2. UNCHANGED <<on_going, client, harq, list, tool, done, hitch>>
    BY <1>6 DEF TakeRequest
  <2>3. Data' /\ Flags'
    BY <1>1, <1>4, <2>1, <2>2 DEF Flags
  <2> QED
    BY <1>3, <2>1, <2>2, <2>3, SameFlags DEF TypeOK
<1>7. Fewer(server.on_going_rx_count) \in Nat
  BY <1>1, FewerType
<1>8. ASSUME NEW taken \in BOOLEAN, TakeServerRx(taken)
      PROVE  LendInv'
  <2>1. UNCHANGED <<client, harq, list, tool>>
    BY <1>8 DEF TakeServerRx
  <2>2. CASE ServerRestarts(taken)
    BY <1>3, <1>4, <2>1, <2>2, RestartGives DEF TypeOK
  <2>3. CASE ~ServerRestarts(taken)
    <3>1. /\ server' = [server EXCEPT !.on_going_rx_count = Fewer(server.on_going_rx_count)]
          /\ UNCHANGED <<on_going, modem, done, hitch>>
      BY <1>8, <2>3 DEF TakeServerRx
    <3>2. server' \in Counters
      BY <1>1, <1>7, <3>1 DEF Counters
    <3>3. Data' /\ Flags' /\ Modems'
      BY <1>1, <1>4, <2>1, <3>1, <3>2 DEF Flags, Modems
    <3> QED
      BY <1>3, <2>1, <3>1, <3>3, SameFlags DEF TypeOK
  <2> QED
    BY <2>2, <2>3
<1>9. ASSUME NEW fast \in BOOLEAN, NEW taken \in BOOLEAN, TakeFailed(fast, taken)
      PROVE  LendInv'
  <2>1. UNCHANGED <<client, harq, list, tool>>
    BY <1>9 DEF TakeFailed
  <2>2. CASE ServerRestarts(taken)
    BY <1>3, <1>4, <2>1, <2>2, RestartGives DEF TypeOK
  <2>3. CASE ~ServerRestarts(taken)
    <3>1. /\ server' = [server EXCEPT !.on_going_rx_count = Fewer(server.on_going_rx_count)]
          /\ CmdDone("server") /\ UNCHANGED <<modem, hitch>>
      BY <1>9, <2>3 DEF TakeFailed
    <3>2. server' \in Counters
      BY <1>1, <1>7, <3>1 DEF Counters
    <3>3. Data' /\ Modems'
      BY <1>1, <1>4, <2>1, <3>1, <3>2 DEF Modems
    <3> QED
      BY <1>2, <1>3, <2>1, <3>1, <3>3, CmdDoneKeeps DEF TypeOK
  <2> QED
    BY <2>2, <2>3
<1>10. CASE TakeCmdDone
  <2>1. CmdDone("server") /\ UNCHANGED <<client, harq, list, server, modem, tool, hitch>>
    BY <1>10 DEF TakeCmdDone, bounds
  <2>2. Data' /\ Modems'
    BY <1>1, <2>1 DEF Data, Modems
  <2> QED
    BY <1>2, <1>3, <2>1, <2>2, CmdDoneKeeps DEF TypeOK
<1> QED
  BY <1>5, <1>6, <1>8, <1>9, <1>10 DEF ServerRuns

LEMMA DropLends ==
  ASSUME LendInv, NEW r \in Roles, Drop(r) PROVE LendInv'
<1>1. TypeOK /\ Flags /\ Data /\ Modems /\ queue \in [Roles -> Seq(Events)]
  BY DEF LendInv, TypeOK
<1>2. /\ UNCHANGED <<on_going, client, harq, list, server, modem, tool, done, hitch>>
      /\ queue[r] # <<>> /\ queue' = [queue EXCEPT ![r] = Tail(@)]
  BY DEF Drop, bounds
<1>3. queue' \in [Roles -> Seq(Events)]
  BY <1>1, <1>2, TakesGives
<1>4. Data' /\ Flags' /\ Modems'
  BY <1>1, <1>2 DEF Data, Flags, Modems
<1> QED
  BY <1>2, <1>3, <1>4, SameFlags DEF TypeOK

LEMMA TakeDoneLends ==
  ASSUME LendInv, NEW r \in Roles, TakeDone(r) PROVE LendInv'
<1>1. TypeOK /\ Flags /\ Data /\ Modems /\ queue \in [Roles -> Seq(Events)]
  BY DEF LendInv, TypeOK
<1>2. /\ done[r] /\ done' = [done EXCEPT ![r] = FALSE]
      /\ tool' = [tool EXCEPT ![r] = FALSE] /\ modem' = [modem EXCEPT ![r] = <<>>]
      /\ UNCHANGED <<on_going, client, harq, list, server, queue, hitch>>
  BY DEF TakeDone, bounds
<1>3. ~on_going[r]
  BY <1>2 DEF LendInv, DoneIsOver
<1>4. /\ \A o \in Roles \ {r} : done'[o] = done[o] /\ tool'[o] = tool[o]
      /\ done'[r] = FALSE /\ tool'[r] = FALSE
  BY <1>1, <1>2 DEF Flags
<1>5. DoneIsOver' /\ ToolAgrees'
  BY <1>2, <1>3, <1>4 DEF LendInv, DoneIsOver, ToolAgrees
<1>6. Modems'
  BY <1>1, <1>2 DEF Modems
<1>7. Data' /\ Flags'
  BY <1>1, <1>2 DEF Data, Flags
<1> QED
  BY <1>1, <1>2, <1>5, <1>6, <1>7 DEF LendInv, TypeOK

LEMMA ShellLends ==
  ASSUME LendInv, NEW r \in Roles, ShellGoesOn(r) PROVE LendInv'
<1>1. /\ TypeOK /\ Flags /\ Data /\ Modems /\ queue \in [Roles -> Seq(Events)]
      /\ server \in Counters /\ server.on_going_rx_count \in Nat
  BY DEF LendInv, TypeOK, Data, Counters
<1>2. ASSUME NEW taken \in 0 .. 2, StopClient(taken)
      PROVE  LendInv'
  <2>1. UNCHANGED <<harq, server, queue, tool, hitch>>
    BY <1>2 DEF StopClient
  <2>2. CASE client.requested
    <3>1. UNCHANGED <<on_going, client, list, modem, done>>
      BY <1>2, <2>2 DEF StopClient
    <3>2. Data' /\ Flags' /\ Modems'
      BY <1>1, <2>1, <3>1 DEF Data, Flags, Modems
    <3> QED
      BY <1>1, <2>1, <3>1, <3>2, SameFlags DEF TypeOK
  <2>3. CASE ~client.requested
    <3>1. Report(taken)
      BY <1>2, <2>3 DEF StopClient
    <3>2. Data'
      BY <1>1, <2>1, <3>1, ReportGives DEF Data
    <3> QED
      BY <1>1, <2>1, <3>1, <3>2, ReportGives DEF TypeOK
  <2> QED
    BY <2>2, <2>3
<1>3. ASSUME NEW id \in EventIds, queue' = [queue EXCEPT !["server"] = Append(@, Event(id, 0))]
      PROVE  queue' \in [Roles -> Seq(Events)]
  <2>1. "server" \in Roles /\ Event(id, 0) \in Events /\ queue["server"] \in Seq(Events)
    BY <1>1, EventType DEF Roles
  <2> DEFINE z == Append(queue["server"], Event(id, 0))
  <2>2. z \in Seq(Events) /\ queue' = [queue EXCEPT !["server"] = z]
    BY <1>3, <2>1, HoldsAppend
  <2> HIDE DEF z
  <2> QED
    BY <1>1, <2>2
<1>4. CASE StopServer
  <2>1. /\ UNCHANGED <<on_going, client, harq, list, server, modem, tool, done, hitch>>
        /\ queue' = [queue EXCEPT !["server"] = Append(@, Event("report", 0))]
    BY <1>4 DEF StopServer, bounds
  <2>2. queue' \in [Roles -> Seq(Events)]
    BY <1>3, <2>1 DEF EventIds
  <2>3. Data' /\ Flags' /\ Modems'
    BY <1>1, <2>1 DEF Data, Flags, Modems
  <2> QED
    BY <2>1, <2>2, <2>3, SameFlags DEF TypeOK
<1>5. CASE StopServerEnds
  <2>1. /\ UNCHANGED <<on_going, client, harq, list, modem, tool, done, hitch>>
        /\ queue' = [queue EXCEPT !["server"] = Append(@, Event("cmd_done", 0))]
        /\ server' = [server EXCEPT !.on_going_rx_count = Fewer(server.on_going_rx_count)]
    BY <1>5 DEF StopServerEnds, bounds
  <2>2. queue' \in [Roles -> Seq(Events)]
    BY <1>3, <2>1 DEF EventIds
  <2>3. server' \in Counters
    BY <1>1, <2>1, FewerType DEF Counters
  <2>4. Data' /\ Flags' /\ Modems'
    BY <1>1, <2>1, <2>3 DEF Data, Flags, Modems, Counters
  <2> QED
    BY <2>1, <2>2, <2>4, SameFlags DEF TypeOK
<1> QED
  BY <1>2, <1>4, <1>5 DEF ShellGoesOn

\* A start: the modem was not lent, hence no ping was on going.
LEMMA StartGives ==
  ASSUME LendInv, NEW r \in Roles, NEW unlisted \in BOOLEAN, StartPing(r, unlisted),
         NEW going \in BOOLEAN, on_going' = [on_going EXCEPT ![r] = going],
         going => done' = done, ~going => done' = [done EXCEPT ![r] = TRUE]
  PROVE  Flags' /\ DoneIsOver' /\ ToolAgrees' /\ ~on_going[r] /\ on_going'[r] = going
<1>1. Flags
  BY DEF LendInv, TypeOK
<1>2. /\ ~tool[r] /\ ~done[r] /\ tool' = [tool EXCEPT ![r] = TRUE]
      /\ hitch' = [hitch EXCEPT ![r] = unlisted]
  BY DEF StartPing, Shell
<1>3. ~on_going[r]
  BY <1>2 DEF LendInv, ToolAgrees
<1>4. /\ on_going'[r] = going /\ tool'[r] = TRUE /\ (going => ~done'[r])
      /\ (~going => done'[r]) /\ done' \in [Roles -> BOOLEAN]
      /\ \A o \in Roles \ {r} :
           on_going'[o] = on_going[o] /\ tool'[o] = tool[o] /\ done'[o] = done[o] /\ hitch'[o] = hitch[o]
  BY <1>1, <1>2 DEF Flags
<1>5. Flags'
  BY <1>1, <1>2, <1>4 DEF Flags
<1> QED
  BY <1>3, <1>4, <1>5 DEF LendInv, DoneIsOver, ToolAgrees

LEMMA UserLends ==
  ASSUME LendInv, PingAssumption, User PROVE LendInv'
<1>1. TypeOK /\ Flags /\ Data /\ Modems /\ queue \in [Roles -> Seq(Events)] /\ Pings \in Nat
  BY DEF LendInv, TypeOK, PingAssumption
<1>2. "client" \in Roles /\ "server" \in Roles
  BY DEF Roles
<1>3. ASSUME NEW useHarq \in BOOLEAN, NEW listed \in BOOLEAN, StartClient(useHarq, listed)
      PROVE  LendInv'
  <2>1. /\ StartPing("client", ~listed) /\ on_going' = [on_going EXCEPT !["client"] = TRUE]
        /\ client' = [NoClient EXCEPT !.harq = useHarq, !.next = 1]
        /\ harq' = [harq EXCEPT !.in_use = FALSE, !.rtx_ongoing = FALSE]
        /\ list' = [list EXCEPT !.left = IF listed THEN Pings ELSE 0, !.seq = 1]
        /\ modem' = [modem EXCEPT !["client"] = <<>>]
        /\ UNCHANGED <<server, queue, done>>
    BY <1>3 DEF StartClient
  <2>2. Flags' /\ DoneIsOver' /\ ToolAgrees'
    BY <1>2, <2>1, StartGives
  <2>3. /\ client' \in [intervals_done : BOOLEAN, requested : BOOLEAN, harq : BOOLEAN,
                        next : Nat, sent : Nat]
        /\ harq' \in [in_use : BOOLEAN, rtx_ongoing : BOOLEAN, seq : Nat]
        /\ list' \in [left : Nat, seq : Nat, retx : SUBSET Nat]
    BY <1>1, <2>1 DEF Data, NoClient
  <2>4. Modems'
    BY <1>1, <2>1 DEF Modems
  <2>5. Data'
    BY <1>1, <2>1, <2>3 DEF Data
  <2> QED
    BY <1>1, <2>1, <2>2, <2>4, <2>5 DEF LendInv, TypeOK
<1>4. ASSUME NEW taken \in BOOLEAN, StartServer(taken)
      PROVE  LendInv'
  <2>1. /\ StartPing("server", FALSE) /\ on_going' = [on_going EXCEPT !["server"] = taken]
        /\ done' = [done EXCEPT !["server"] = ~taken]
        /\ server' = [NoServer EXCEPT !.on_going_rx_count = IF taken THEN 1 ELSE 0]
        /\ modem' = [modem EXCEPT !["server"] = IF taken THEN <<Op("server_rx", 0)>> ELSE <<>>]
        /\ UNCHANGED <<client, harq, list, queue>>
    BY <1>4 DEF StartServer
  <2>2. /\ taken => done' = done
        /\ ~taken => done' = [done EXCEPT !["server"] = TRUE]
    <3>1. done \in [Roles -> BOOLEAN] /\ ~done["server"]
      BY <1>1, <2>1 DEF StartPing, Shell, Flags
    <3> QED
      BY <2>1, <3>1
  <2>3. Flags' /\ DoneIsOver' /\ ToolAgrees'
    BY <1>2, <2>1, <2>2, StartGives
  <2>4. server' \in [on_going_rx_count : Nat, heard : BOOLEAN]
    BY <2>1 DEF NoServer
  <2>5. Modems'
    <3>1. Op("server_rx", 0) \in ServerOps
      BY DEF Op, ServerOps
    <3> QED
      BY <1>1, <2>1, <3>1 DEF Modems
  <2>6. Data'
    BY <1>1, <2>1, <2>4 DEF Data
  <2> QED
    BY <1>1, <2>1, <2>3, <2>5, <2>6 DEF LendInv, TypeOK
<1>5. ASSUME NEW r \in Roles, Stop(r)
      PROVE  LendInv'
  <2>1. /\ on_going[r] /\ hitch' = [hitch EXCEPT ![r] = FALSE]
        /\ UNCHANGED <<on_going, client, harq, list, server, modem, queue, tool, done>>
    BY <1>5 DEF Stop
  <2>2. \A o \in Roles \ {r} : hitch'[o] = hitch[o]
    BY <1>1, <2>1 DEF Flags
  <2>3. DoneIsOver' /\ ToolAgrees'
    BY <2>1, <2>2 DEF LendInv, DoneIsOver, ToolAgrees
  <2>4. Data' /\ Flags' /\ Modems'
    BY <1>1, <2>1 DEF Data, Flags, Modems
  <2> QED
    BY <1>1, <2>1, <2>3, <2>4 DEF LendInv, TypeOK
<1> QED
  BY <1>3, <1>4, <1>5 DEF User

LEMMA InitLends ==
  ASSUME PingInit PROVE LendInv
<1>1. Flags /\ Data /\ Modems /\ queue \in [Roles -> Seq(Events)]
  BY DEF PingInit, NoClient, NoHarq, NoServer, Flags, Data, Modems, Roles
<1>2. DoneIsOver /\ ToolAgrees
  BY DEF PingInit, DoneIsOver, ToolAgrees
<1> QED
  BY <1>1, <1>2 DEF LendInv, TypeOK

LEMMA NextLends ==
  ASSUME LendInv, PingAssumption, [PingNext]_vars PROVE LendInv'
<1>1. ASSUME UNCHANGED vars
      PROVE  LendInv'
  BY <1>1 DEF vars, bounds, LendInv, TypeOK, Flags, Data, Modems, DoneIsOver, ToolAgrees
<1>2. ASSUME NEW r \in Roles, Device(r)
      PROVE  LendInv'
  BY <1>2, DropLends, TakeDoneLends, ShellLends, ClientLends, ServerLends DEF Device
<1> QED
  BY <1>1, <1>2, UserLends, SchedulerLends, ModemLends DEF PingNext

\* Control has lent its modem exactly to a ping that is on going or about to be
\* handed back, for any number of pings, commands and troubles.
THEOREM PingAgrees == PingSpec => []ToolAgrees
<1>1. PingInit => LendInv
  BY InitLends
<1>2. LendInv /\ [PingNext]_vars => LendInv'
  BY PingAssumption, NextLends
<1>3. LendInv => ToolAgrees
  BY DEF LendInv
<1> QED
  BY <1>1, <1>2, <1>3, PTL DEF PingSpec

--------------------------------------------------------------------------------
(* What the server has to come: RXs of its modem, and ends of such.        *)

RxEvents == {e \in Events : e.id \in {"server_rx", "failed"}}
ToCome == Number(modem["server"], RxOps) + Number(queue["server"], RxEvents)

\* The server counts no RX that is not to come, unless the shell has ended it.
Counted ==
  on_going["server"] =>
    \/ \E e \in ToSet(queue["server"]) : e.id = "cmd_done"
    \/ ToCome > 0 /\ server.on_going_rx_count <= ToCome

ListenInv == LendInv /\ Counted

LEMMA ComeType ==
  ASSUME TypeOK
  PROVE  /\ Number(modem["server"], RxOps) \in Nat /\ Number(queue["server"], RxEvents) \in Nat
         /\ ToCome \in Nat /\ server.on_going_rx_count \in Nat
         /\ queue["server"] \in Seq(Events) /\ modem["server"] \in Seq(ServerOps)
<1>1. queue["server"] \in Seq(Events) /\ modem["server"] \in Seq(ServerOps)
  BY DEF TypeOK, Roles, Modems
<1>2. Number(modem["server"], RxOps) \in Nat /\ Number(queue["server"], RxEvents) \in Nat
  BY <1>1, NumberType
<1>3. server.on_going_rx_count \in Nat
  BY DEF TypeOK, Data
<1> QED
  BY <1>1, <1>2, <1>3 DEF ToCome

\* A step that does not concern the server, or ends its ping.
LEMMA ServerLeft ==
  ASSUME Counted, on_going'["server"] =>
           /\ on_going["server"] /\ server' = server
           /\ queue'["server"] = queue["server"] /\ modem'["server"] = modem["server"]
  PROVE  Counted'
BY DEF Counted, ToCome

\* A step that counts an RX if there is one more.
LEMMA ServerCounts ==
  ASSUME TypeOK, Counted, NEW more \in {0, 1},
         on_going'["server"] => on_going["server"],
         \A e \in ToSet(queue["server"]) : e.id = "cmd_done" => e \in ToSet(queue'["server"]),
         ToCome' = ToCome + more,
         server'.on_going_rx_count = server.on_going_rx_count + more
  PROVE  Counted'
<1>1. ToCome \in Nat /\ server.on_going_rx_count \in Nat /\ more >= 0 /\ more \in Nat
  BY ComeType
<1> SUFFICES ASSUME on_going'["server"], ~\E e \in ToSet(queue'["server"]) : e.id = "cmd_done"
             PROVE  ToCome' > 0 /\ server'.on_going_rx_count <= ToCome'
  BY DEF Counted
<1>2. ~\E e \in ToSet(queue["server"]) : e.id = "cmd_done"
  OBVIOUS
<1>3. ToCome > 0 /\ server.on_going_rx_count <= ToCome
  BY <1>2 DEF Counted
<1> QED
  BY <1>1, <1>3

LEMMA ModemCounts ==
  ASSUME LendInv, Counted, NEW r \in Roles, ModemRuns(r) PROVE Counted'
<1>1. TypeOK /\ TypeOK' /\ \A o \in Roles : on_going[o] => tool[o]
  BY ModemLends DEF LendInv, ToolAgrees
<1>2. r \in {"client", "server"} /\ "client" \in Roles /\ "server" \in Roles
  BY DEF Roles
<1> DEFINE ops == modem["server"]
           events == queue["server"]
<1>3. /\ ops \in Seq(ServerOps) /\ events \in Seq(Events)
      /\ Number(ops, RxOps) \in Nat /\ Number(events, RxEvents) \in Nat
  BY <1>1, ComeType
<1>4. ToCome = Number(ops, RxOps) + Number(events, RxEvents)
  BY DEF ToCome
<1>5. /\ ToCome' = Number(modem'["server"], RxOps) + Number(queue'["server"], RxEvents)
      /\ Number(modem'["server"], RxOps) \in Nat
  BY <1>1, NumberType DEF ToCome, TypeOK, Modems
<1> HIDE DEF ops, events
<1>6. ASSUME NEW fate \in {"heard", "garbled", "lost"}, NEW feedback \in BOOLEAN,
             r = "client", Transmit("client", fate, feedback)
      PROVE  Counted'
  <2> DEFINE op == Head(modem["client"])
  <2>1. /\ op \in ClientOps /\ op.op \in {"tx", "retx", "request"}
        /\ fate = "heard" =>
              /\ ops # <<>> /\ Head(ops).op = "server_rx"
              /\ modem'["server"] = Tail(ops)
              /\ queue'["server"] = events \o Received(op)
        /\ fate # "heard" => modem'["server"] = ops /\ queue'["server"] = events
        /\ UNCHANGED <<on_going, server>>
    BY <1>1, <1>6, ClientSends DEF ops, events
  <2>2. CASE fate # "heard"
    BY <2>1, <2>2, ServerLeft DEF ops, events
  <2>3. CASE fate = "heard"
    <3>1. PICK a \in Events : /\ Received(op) = <<a, Event("server_rx", 0)>>
                              /\ a \notin RxEvents
      <4>1. op.seq \in Nat
        BY <2>1 DEF ClientOps
      <4>2. /\ Event("ping", op.seq) \in Events /\ Event("ping", op.seq) \notin RxEvents
            /\ Event("request", 0) \in Events /\ Event("request", 0) \notin RxEvents
        BY <4>1, EventType DEF EventIds, RxEvents
      <4>3. /\ op.op \in {"tx", "retx"} => Received(op) = <<Event("ping", op.seq), Event("server_rx", 0)>>
            /\ op.op = "request" => Received(op) = <<Event("request", 0), Event("server_rx", 0)>>
        BY <1>1, <2>1, SentType
      <4> QED
        BY <2>1, <4>2, <4>3
    <3>2. Event("server_rx", 0) \in Events /\ Event("server_rx", 0) \in RxEvents
      BY EventType DEF EventIds, RxEvents
    <3>3. Received(op) \in Seq(Events) /\ Number(Received(op), RxEvents) = 1
      <4> DEFINE b == Event("server_rx", 0)
      <4> HIDE DEF b
      <4>1. b \in Events /\ b \in RxEvents /\ Received(op) = <<a, b>>
        BY <3>1, <3>2 DEF b
      <4>2. /\ <<a, b>> \in Seq(Events)
            /\ Number(<<a, b>>, RxEvents) = (IF a \in RxEvents THEN 1 ELSE 0)
                                            + (IF b \in RxEvents THEN 1 ELSE 0)
        BY <4>1, PairGives
      <4>3. (IF a \in RxEvents THEN 1 ELSE 0) = 0 /\ (IF b \in RxEvents THEN 1 ELSE 0) = 1
        BY <3>1, <4>1
      <4> QED
        BY <4>1, <4>2, <4>3
    <3>4. /\ Number(queue'["server"], RxEvents) = Number(events, RxEvents) + 1
          /\ ToSet(events) \subseteq ToSet(queue'["server"])
      <4>1. Number(events \o Received(op), RxEvents) = Number(events, RxEvents) + 1
        BY <1>3, <3>3, NumberConcat
      <4>2. ToSet(events \o Received(op)) = ToSet(events) \cup ToSet(Received(op))
        BY <1>3, <3>3, HoldsConcat
      <4>3. queue'["server"] = events \o Received(op)
        BY <2>1, <2>3
      <4> QED
        BY <4>1, <4>2, <4>3
    <3>5. Number(ops, RxOps) = Number(modem'["server"], RxOps) + 1
      <4>1. ops # <<>> /\ Head(ops) \in ServerOps /\ Head(ops).op = "server_rx"
        BY <1>3, <2>1, <2>3, HoldsTail
      <4>2. Head(ops) \in RxOps
        BY <4>1 DEF RxOps
      <4>3. Number(ops, RxOps) = Number(Tail(ops), RxOps) + IF Head(ops) \in RxOps THEN 1 ELSE 0
        BY <1>3, <4>1, NumberTail
      <4> QED
        BY <2>1, <2>3, <4>2, <4>3
    <3>6. ToCome' = ToCome + 0
      BY <1>3, <1>4, <1>5, <3>4, <3>5
    <3>7. server'.on_going_rx_count = server.on_going_rx_count + 0
      BY <1>1, <2>1, ComeType
    <3> QED
      BY <1>1, <2>1, <3>4, <3>6, <3>7, ServerCounts DEF events
  <2> QED
    BY <2>2, <2>3
<1>7. ASSUME NEW fate \in {"heard", "garbled", "lost"}, NEW feedback \in BOOLEAN,
             r = "server", Transmit("server", fate, feedback)
      PROVE  Counted'
  <2>1. /\ ops # <<>> /\ Head(ops).op \in {"answer", "results"}
        /\ modem'["server"] = Tail(ops) /\ queue'["server"] = events
        /\ UNCHANGED <<on_going, server>>
    BY <1>1, <1>7, ServerSends DEF ops, events
  <2>2. Head(ops) \notin RxOps
    BY <2>1 DEF RxOps
  <2>3. Number(ops, RxOps) = Number(Tail(ops), RxOps) + IF Head(ops) \in RxOps THEN 1 ELSE 0
    BY <1>3, <2>1, NumberTail
  <2>4. Number(ops, RxOps) = Number(modem'["server"], RxOps)
    BY <1>3, <1>5, <2>1, <2>2, <2>3
  <2>5. ToCome' = ToCome + 0
    BY <1>3, <1>4, <1>5, <2>1, <2>4
  <2>6. server'.on_going_rx_count = server.on_going_rx_count + 0
    BY <1>1, <2>1, ComeType
  <2> QED
    BY <1>1, <2>1, <2>5, <2>6, ServerCounts DEF events
<1>8. ASSUME NEW failed \in BOOLEAN, RxEnds(r, failed)
      PROVE  Counted'
  <2> DEFINE e == Event(IF failed THEN "failed" ELSE Current(r).op, 0)
  <2>1. /\ Listens(r) /\ (failed => r = "server") /\ UNCHANGED <<on_going, server>>
        /\ modem' = [modem EXCEPT ![r] = Tail(@)]
        /\ queue' = [queue EXCEPT ![r] = Put(r, <<e>>)]
    BY <1>8 DEF RxEnds
  <2>2. DOMAIN modem = Roles /\ DOMAIN queue = Roles
    BY <1>1 DEF TypeOK, Modems
  <2>3. CASE r = "client"
    <3>1. modem'["server"] = modem["server"] /\ queue'["server"] = queue["server"]
      BY <1>2, <2>1, <2>2, <2>3
    <3> QED
      BY <2>1, <3>1, ServerLeft
  <2>4. CASE r = "server"
    <3> SUFFICES ASSUME on_going["server"]
                 PROVE  Counted'
      BY <2>1, ServerLeft
    <3>1. tool["server"]
      BY <1>1, <1>2
    <3>2. ops # <<>> /\ Head(ops) \in ServerOps /\ Head(ops).op \notin Sends
      BY <1>3, <2>1, <2>4, HoldsTail DEF Listens, Current, ops
    <3>3. Head(ops) \in RxOps /\ Head(ops).op = "server_rx"
      BY <3>2 DEF RxOps, ServerOps, Sends
    <3>4. e \in Events /\ e \in RxEvents
      <4>1. e = Event("failed", 0) \/ e = Event("server_rx", 0)
        BY <2>4, <3>3 DEF Current, ops
      <4> HIDE DEF e
      <4> QED
        BY <4>1, EventType DEF EventIds, RxEvents
    <3> HIDE DEF e
    <3>5. modem'["server"] = Tail(ops) /\ queue'["server"] = events \o <<e>>
      BY <1>2, <2>1, <2>2, <2>4, <3>1 DEF Put, ops, events
    <3> DEFINE w == <<e>>
    <3>6. w \in Seq(Events) /\ Number(w, RxEvents) = 1
      BY <3>4, NumberSingle
    <3>7. queue'["server"] = events \o w
      BY <3>5
    <3> HIDE DEF w
    <3>8. /\ Number(queue'["server"], RxEvents) = Number(events, RxEvents) + 1
          /\ ToSet(events) \subseteq ToSet(queue'["server"])
      <4>1. Number(events \o w, RxEvents) = Number(events, RxEvents) + 1
        BY <1>3, <3>6, NumberConcat
      <4>2. ToSet(events \o w) = ToSet(events) \cup ToSet(w)
        BY <1>3, <3>6, HoldsConcat
      <4> QED
        BY <3>7, <4>1, <4>2
    <3>9. Number(ops, RxOps) = Number(modem'["server"], RxOps) + 1
      <4>1. Number(ops, RxOps) = Number(Tail(ops), RxOps) + IF Head(ops) \in RxOps THEN 1 ELSE 0
        BY <1>3, <3>2, NumberTail
      <4> QED
        BY <3>3, <3>5, <4>1
    <3>10. ToCome' = ToCome + 0
      BY <1>3, <1>4, <1>5, <3>8, <3>9
    <3>11. server'.on_going_rx_count = server.on_going_rx_count + 0
      BY <1>1, <2>1, ComeType
    <3> QED
      BY <1>1, <2>1, <3>8, <3>10, <3>11, ServerCounts DEF events
  <2> QED
    BY <1>2, <2>3, <2>4
<1> QED
  BY <1>2, <1>6, <1>7, <1>8 DEF ModemRuns

\* What the server's thread takes off its queue.
LEMMA ServerTook ==
  ASSUME TypeOK, NEW id, Takes("server", id)
  PROVE  /\ \A e \in ToSet(queue["server"]) : e.id # id => e \in ToSet(queue'["server"])
         /\ Head(queue["server"]) \in Events
         /\ Number(queue["server"], RxEvents) =
              Number(queue'["server"], RxEvents) + IF id \in {"server_rx", "failed"} THEN 1 ELSE 0
<1>1. /\ queue["server"] # <<>> /\ Head(queue["server"]).id = id /\ Head(queue["server"]) \in Events
      /\ queue'["server"] = Tail(queue["server"])
      /\ ToSet(queue["server"]) = {Head(queue["server"])} \cup ToSet(queue'["server"])
  BY TakesType DEF Roles
<1>2. queue["server"] \in Seq(Events)
  BY ComeType
<1>3. Number(queue["server"], RxEvents) =
        Number(Tail(queue["server"]), RxEvents) + IF Head(queue["server"]) \in RxEvents THEN 1 ELSE 0
  BY <1>1, <1>2, NumberTail
<1>4. Head(queue["server"]) \in RxEvents <=> id \in {"server_rx", "failed"}
  BY <1>1 DEF RxEvents
<1> QED
  BY <1>1, <1>3, <1>4

LEMMA ServerThreadCounts ==
  ASSUME LendInv, Counted, ServerRuns PROVE Counted'
<1>1. TypeOK /\ TypeOK'
  BY ServerLends DEF LendInv
<1> DEFINE ops == Number(modem["server"], RxOps)
           events == Number(queue["server"], RxEvents)
<1>2. ToCome = ops + events /\ ops \in Nat /\ events \in Nat /\ server.on_going_rx_count \in Nat
  BY <1>1, ComeType DEF ToCome
<1>3. /\ ToCome' = Number(modem'["server"], RxOps) + Number(queue'["server"], RxEvents)
      /\ Number(modem'["server"], RxOps) \in Nat /\ Number(queue'["server"], RxEvents) \in Nat
  BY <1>1, NumberType DEF ToCome, TypeOK, Modems, Roles
<1> HIDE DEF ops, events
<1>4. ASSUME NEW more \in {0, 1}, Takes("server", "ping") \/ Takes("server", "request")
                                  \/ Takes("server", "report"),
             on_going' = on_going, Number(modem'["server"], RxOps) = ops + more,
             server'.on_going_rx_count = server.on_going_rx_count + more
      PROVE  Counted'
  <2>1. /\ \A e \in ToSet(queue["server"]) : e.id = "cmd_done" => e \in ToSet(queue'["server"])
        /\ events = Number(queue'["server"], RxEvents)
    BY <1>1, <1>2, <1>3, <1>4, ServerTook DEF events
  <2>2. more \in Nat
    OBVIOUS
  <2>3. ToCome' = ToCome + more
    BY <1>2, <1>3, <1>4, <2>1, <2>2
  <2> QED
    BY <1>1, <1>4, <2>1, <2>3, ServerCounts
<1>5. ASSUME NEW taken \in BOOLEAN, TakePing(taken)
      PROVE  Counted'
  <2> DEFINE seq == Head(queue["server"]).seq
  <2>1. Takes("server", "ping") /\ on_going' = on_going /\ Answers(AnswerOps(seq), taken)
    BY <1>5 DEF TakePing, Handles
  <2>2. seq \in Nat
    BY <1>1, <2>1, ServerTook DEF Events
  <2> HIDE DEF seq
  <2>3. PICK more \in {0, 1} : /\ Number(modem'["server"], RxOps) = ops + more
                               /\ server'.on_going_rx_count = server.on_going_rx_count + more
    BY <1>1, <2>1, <2>2, AnswersGive DEF ops
  <2> QED
    BY <1>4, <2>1, <2>3
<1>6. ASSUME NEW taken \in BOOLEAN, TakeRequest(taken)
      PROVE  Counted'
  <2>1. /\ Takes("server", "request") \/ Takes("server", "report")
        /\ on_going' = on_going /\ Results(taken)
    BY <1>6 DEF TakeRequest, Handles
  <2>2. PICK more \in {0, 1} : /\ Number(modem'["server"], RxOps) = ops + more
                               /\ server'.on_going_rx_count = server.on_going_rx_count + more
    BY <1>1, <2>1, ResultsGive DEF ops
  <2> QED
    BY <1>4, <2>1, <2>2
<1>7. ASSUME NEW taken \in BOOLEAN, ServerRestarts(taken), UNCHANGED tool
      PROVE  Counted'
  <2> SUFFICES ASSUME on_going'["server"]
               PROVE  Counted'
    BY ServerLeft
  <2>1. Number(modem'["server"], RxOps) = ops + 1 /\ server'.on_going_rx_count = 1
    BY <1>7, RestartGives DEF ops
  <2>2. ToCome' > 0 /\ server'.on_going_rx_count <= ToCome'
    BY <1>2, <1>3, <2>1
  <2> QED
    BY <2>2 DEF Counted
<1>8. ASSUME NEW taken \in BOOLEAN, TakeServerRx(taken)
      PROVE  Counted'
  <2>1. Takes("server", "server_rx") /\ UNCHANGED tool
    BY <1>8 DEF TakeServerRx, Handles
  <2>2. CASE ServerRestarts(taken)
    BY <1>7, <2>1, <2>2
  <2>3. CASE ~ServerRestarts(taken)
    <3> DEFINE n == server.on_going_rx_count
    <3>1. /\ server' = [server EXCEPT !.on_going_rx_count = Fewer(n)] /\ Fewer(n) # 0
          /\ UNCHANGED <<on_going, modem>>
      BY <1>8, <2>3 DEF TakeServerRx
    <3>2. server'.on_going_rx_count = Fewer(n)
      BY <1>1, <3>1 DEF TypeOK, Data
    <3> HIDE DEF n
    <3>3. n \in Nat /\ n = server.on_going_rx_count /\ n # 0
      BY <1>2, <3>1 DEF n, Fewer
    <3>4. Fewer(n) \in Nat /\ Fewer(n) > 0 /\ Fewer(n) + 1 = n
      BY <3>1, <3>3, FewerType
    <3>5. /\ \A e \in ToSet(queue["server"]) : e.id = "cmd_done" => e \in ToSet(queue'["server"])
          /\ events = Number(queue'["server"], RxEvents) + 1
      BY <1>1, <2>1, ServerTook DEF events
    <3>6. ToCome = ToCome' + 1
      BY <1>2, <1>3, <3>1, <3>5 DEF ops
    <3> SUFFICES ASSUME on_going["server"], ~\E e \in ToSet(queue'["server"]) : e.id = "cmd_done"
                 PROVE  ToCome' > 0 /\ server'.on_going_rx_count <= ToCome'
      BY <3>1 DEF Counted
    <3>7. ~\E e \in ToSet(queue["server"]) : e.id = "cmd_done"
      BY <3>5
    <3>8. n <= ToCome
      BY <3>3, <3>7 DEF Counted
    <3>9. ToCome' \in Nat
      BY <1>3
    <3> QED
      BY <3>2, <3>4, <3>6, <3>8, <3>9
  <2> QED
    BY <2>2, <2>3
<1>9. ASSUME CmdDone("server")
      PROVE  Counted'
  <2>1. ~on_going'["server"]
    BY <1>1, <1>9 DEF CmdDone, TypeOK, Flags, Roles
  <2> QED
    BY <2>1, ServerLeft
<1>10. ASSUME NEW fast \in BOOLEAN, NEW taken \in BOOLEAN, TakeFailed(fast, taken)
       PROVE  Counted'
  <2>1. (ServerRestarts(taken) \/ CmdDone("server")) /\ UNCHANGED tool
    BY <1>10 DEF TakeFailed
  <2> QED
    BY <1>7, <1>9, <2>1
<1>11. TakeCmdDone => Counted'
  BY <1>9 DEF TakeCmdDone
<1> QED
  BY <1>5, <1>6, <1>8, <1>10, <1>11 DEF ServerRuns

\* What the client, the scheduler, control and the shells do to the server.
LEMMA OthersCount ==
  ASSUME LendInv, Counted, NEW r \in Roles,
         SchedulerRuns \/ ClientRuns \/ Drop(r) \/ TakeDone(r)
  PROVE  Counted'
<1>1. /\ TypeOK /\ DOMAIN modem = Roles /\ DOMAIN queue = Roles /\ Flags
      /\ queue["server"] \in Seq(Events)
  BY DEF LendInv, TypeOK, Modems, Roles
<1>2. r \in {"client", "server"} /\ "client" \in Roles /\ "server" \in Roles
  BY DEF Roles
<1>3. CASE SchedulerRuns
  <2>1. /\ UNCHANGED <<on_going, server>>
        /\ queue'["server"] = queue["server"] /\ modem'["server"] = modem["server"]
    BY <1>1, <1>2, <1>3 DEF SchedulerRuns, SendTurn, LoseTurn, SendRetx, LoseRetx
  <2> QED
    BY <2>1, ServerLeft
<1>4. CASE ClientRuns
  <2>1. \E id \in EventIds : Takes("client", id)
    BY <1>4 DEF ClientRuns, TakeIntervalsDone, TakeTx, TakeRx, TakeRetx, TakeStored, TakeAck,
                TakeNack, TakeAnswer, TakeResults, Handles, EventIds
  <2>2. queue'["server"] = queue["server"]
    BY <1>1, <1>2, <2>1, TakesType
  <2>3. ASSUME NEW taken \in 0 .. 2, Report(taken)
        PROVE  modem'["server"] = modem["server"] /\ on_going'["server"] = on_going["server"]
    BY <1>1, <1>2, <2>3 DEF Report, CmdDone, Flags
  <2>4. server' = server
    BY <1>4 DEF ClientRuns, TakeIntervalsDone, TakeTx, TakeRx, TakeRetx, TakeStored, TakeAck,
                TakeNack, TakeAnswer, TakeResults
  <2>5. modem'["server"] = modem["server"] /\ on_going'["server"] = on_going["server"]
    <3>1. CASE TakeIntervalsDone \/ TakeTx \/ TakeRetx \/ TakeStored \/ TakeAck \/ TakeAnswer
      BY <3>1 DEF TakeIntervalsDone, TakeTx, TakeRetx, TakeStored, TakeAck, TakeAnswer
    <3>2. ASSUME NEW taken \in 0 .. 2, TakeRx(taken)
          PROVE  modem'["server"] = modem["server"] /\ on_going'["server"] = on_going["server"]
      BY <2>3, <3>2 DEF TakeRx
    <3>3. ASSUME NEW again \in BOOLEAN, NEW over \in BOOLEAN, TakeNack(again, over)
          PROVE  modem'["server"] = modem["server"] /\ on_going' = on_going
      BY <1>1, <1>2, <3>3 DEF TakeNack
    <3>4. CASE TakeResults
      BY <1>1, <1>2, <3>4 DEF TakeResults, CmdDone, Flags
    <3> QED
      BY <1>4, <3>1, <3>2, <3>3, <3>4 DEF ClientRuns
  <2> QED
    BY <2>2, <2>4, <2>5, ServerLeft
<1>5. CASE Drop(r)
  <2>1. ~on_going[r] /\ queue' = [queue EXCEPT ![r] = Tail(@)]
        /\ UNCHANGED <<on_going, server, modem>>
    BY <1>5 DEF Drop
  <2>2. r = "client" => queue'["server"] = queue["server"]
    BY <1>1, <1>2, <2>1
  <2> QED
    BY <1>2, <2>1, <2>2, ServerLeft
<1>6. CASE TakeDone(r)
  <2>1. ~on_going[r] /\ modem' = [modem EXCEPT ![r] = <<>>]
        /\ UNCHANGED <<on_going, server, queue>>
    BY <1>6 DEF TakeDone, LendInv, DoneIsOver
  <2>2. r = "client" => modem'["server"] = modem["server"]
    BY <1>1, <1>2, <2>1
  <2> QED
    BY <1>2, <2>1, <2>2, ServerLeft
<1> QED
  BY <1>3, <1>4, <1>5, <1>6

LEMMA UsersCount ==
  ASSUME LendInv, PingAssumption, Counted, NEW r \in Roles, User \/ ShellGoesOn(r)
  PROVE  Counted'
<1>1. /\ TypeOK /\ DOMAIN modem = Roles /\ DOMAIN queue = Roles /\ Flags
      /\ queue["server"] \in Seq(Events)
  BY DEF LendInv, TypeOK, Modems, Roles
<1>2. TypeOK'
  BY UserLends, ShellLends DEF LendInv
<1>3. "client" \in Roles /\ "server" \in Roles /\ \A o \in Roles : o \in {"client", "server"}
  BY DEF Roles
<1>4. ASSUME NEW useHarq \in BOOLEAN, NEW listed \in BOOLEAN, StartClient(useHarq, listed)
      PROVE  Counted'
  <2>1. /\ on_going'["server"] = on_going["server"] /\ modem'["server"] = modem["server"]
        /\ UNCHANGED <<server, queue>>
    BY <1>1, <1>3, <1>4 DEF StartClient, Flags
  <2> QED
    BY <2>1, ServerLeft
<1>5. ASSUME NEW taken \in BOOLEAN, StartServer(taken)
      PROVE  Counted'
  <2> SUFFICES ASSUME on_going'["server"]
               PROVE  Counted'
    BY ServerLeft
  <2>1. taken
    BY <1>1, <1>3, <1>5 DEF StartServer, Flags
  <2>2. /\ server' = [NoServer EXCEPT !.on_going_rx_count = 1]
        /\ modem'["server"] = <<Op("server_rx", 0)>> /\ queue' = queue
    BY <1>1, <1>3, <1>5, <2>1 DEF StartServer
  <2>3. server'.on_going_rx_count = 1
    BY <2>2 DEF NoServer
  <2>4. Number(modem'["server"], RxOps) = 1
    <3>1. Op("server_rx", 0) \in RxOps
      BY DEF Op, ServerOps, RxOps
    <3>2. Number(<<Op("server_rx", 0)>>, RxOps) = 1
      BY <3>1, NumberSingle
    <3> QED
      BY <2>2, <3>2
  <2>5. Number(queue'["server"], RxEvents) \in Nat
    BY <1>1, <2>2, NumberType
  <2>6. ToCome' > 0 /\ server'.on_going_rx_count <= ToCome'
    BY <2>3, <2>4, <2>5 DEF ToCome
  <2> QED
    BY <2>6 DEF Counted
<1>6. ASSUME NEW o \in Roles, Stop(o)
      PROVE  Counted'
  BY <1>6, ServerLeft DEF Stop
<1>7. ASSUME NEW taken \in 0 .. 2, StopClient(taken)
      PROVE  Counted'
  <2>1. /\ modem'["server"] = modem["server"] /\ on_going'["server"] = on_going["server"]
        /\ UNCHANGED <<server, queue>>
    BY <1>1, <1>3, <1>7 DEF StopClient, Report, CmdDone, Flags
  <2> QED
    BY <2>1, ServerLeft
<1>8. ASSUME NEW id \in {"report", "cmd_done"},
             queue' = [queue EXCEPT !["server"] = Append(@, Event(id, 0))],
             UNCHANGED <<on_going, modem>>
      PROVE  /\ ToSet(queue'["server"]) = ToSet(queue["server"]) \cup {Event(id, 0)}
             /\ ToCome' = ToCome + 0
  <2> DEFINE e == Event(id, 0)
  <2>1. e \in Events /\ e \notin RxEvents
    BY EventType DEF EventIds, RxEvents
  <2>2. queue'["server"] = Append(queue["server"], e)
    BY <1>1, <1>3, <1>8
  <2> HIDE DEF e
  <2>3. ToSet(queue'["server"]) = ToSet(queue["server"]) \cup {e}
    BY <1>1, <2>1, <2>2, HoldsAppend
  <2>4. Number(queue'["server"], RxEvents) = Number(queue["server"], RxEvents) + 0
    <3>1. Number(Append(queue["server"], e), RxEvents) =
            Number(queue["server"], RxEvents) + IF e \in RxEvents THEN 1 ELSE 0
      BY <1>1, <2>1, NumberAppend
    <3> QED
      BY <2>1, <2>2, <3>1
  <2>5. Number(modem["server"], RxOps) \in Nat /\ Number(queue["server"], RxEvents) \in Nat
    BY <1>1, ComeType
  <2>6. ToCome' = ToCome + 0
    BY <1>8, <2>4, <2>5 DEF ToCome
  <2> QED
    BY <2>3, <2>6 DEF e
<1>9. CASE StopServer
  <2>1. /\ queue' = [queue EXCEPT !["server"] = Append(@, Event("report", 0))]
        /\ UNCHANGED <<on_going, server, modem>>
    BY <1>9 DEF StopServer
  <2>2. /\ ToSet(queue'["server"]) = ToSet(queue["server"]) \cup {Event("report", 0)}
        /\ ToCome' = ToCome + 0
    BY <1>8, <2>1
  <2>3. server'.on_going_rx_count = server.on_going_rx_count + 0
    BY <1>1, <2>1, ComeType
  <2> QED
    BY <1>1, <2>1, <2>2, <2>3, ServerCounts
<1>10. CASE StopServerEnds
  <2>1. /\ queue' = [queue EXCEPT !["server"] = Append(@, Event("cmd_done", 0))]
        /\ UNCHANGED <<on_going, modem>>
    BY <1>10 DEF StopServerEnds
  <2>2. Event("cmd_done", 0) \in ToSet(queue'["server"])
    BY <1>8, <2>1
  <2>3. Event("cmd_done", 0).id = "cmd_done"
    BY DEF Event
  <2> QED
    BY <2>2, <2>3 DEF Counted
<1> QED
  BY <1>4, <1>5, <1>6, <1>7, <1>9, <1>10 DEF User, ShellGoesOn

\* The server that is on going listens, or is just about to handle the end of an RX:
\* for any number of pings, commands and troubles and queues of any length.
THEOREM ServerKeepsListening == PingSpec => []ServerListens
<1>1. PingInit => ListenInv
  <2>1. PingInit => LendInv
    BY InitLends
  <2>2. PingInit => Counted
    BY DEF PingInit, Counted, Roles
  <2> QED
    BY <2>1, <2>2 DEF ListenInv
<1>2. ListenInv /\ [PingNext]_vars => ListenInv'
  <2> SUFFICES ASSUME ListenInv, [PingNext]_vars
               PROVE  ListenInv'
    OBVIOUS
  <2>1. LendInv /\ Counted /\ LendInv'
    BY PingAssumption, NextLends DEF ListenInv
  <2>2. ASSUME UNCHANGED vars
        PROVE  Counted'
    BY <2>1, <2>2, ServerLeft DEF vars
  <2>3. ASSUME NEW r \in Roles, Device(r) \/ ModemRuns(r)
        PROVE  Counted'
    BY <2>1, <2>3, PingAssumption, ModemCounts, ServerThreadCounts, OthersCount, UsersCount DEF Device
  <2>4. SchedulerRuns \/ User => Counted'
    <3>1. "client" \in Roles
      BY DEF Roles
    <3> QED
      BY <2>1, <3>1, PingAssumption, OthersCount, UsersCount
  <2>5. Counted'
    BY <2>2, <2>3, <2>4 DEF PingNext
  <2> QED
    BY <2>1, <2>5 DEF ListenInv
<1>3. ListenInv => ServerListens
  <2> SUFFICES ASSUME LendInv, Counted, on_going["server"]
               PROVE  \/ \E i \in DOMAIN modem["server"] : modem["server"][i].op = "server_rx"
                      \/ \E i \in DOMAIN queue["server"] :
                           queue["server"][i].id \in {"server_rx", "failed", "cmd_done"}
    BY DEF ListenInv, ServerListens
  <2>1. TypeOK
    BY DEF LendInv
  <2>2. CASE \E e \in ToSet(queue["server"]) : e.id = "cmd_done"
    BY <2>2 DEF ToSet
  <2>3. CASE ToCome > 0
    <3>1. /\ Number(modem["server"], RxOps) \in Nat /\ Number(queue["server"], RxEvents) \in Nat
          /\ queue["server"] \in Seq(Events) /\ modem["server"] \in Seq(ServerOps)
      BY <2>1, ComeType
    <3>2. Number(modem["server"], RxOps) # 0 \/ Number(queue["server"], RxEvents) # 0
      BY <2>3, <3>1 DEF ToCome
    <3>3. CASE Number(modem["server"], RxOps) # 0
      <4>1. \E i \in DOMAIN modem["server"] : modem["server"][i] \in RxOps
        BY <3>1, <3>3, NumberType
      <4> QED
        BY <4>1 DEF RxOps
    <3>4. CASE Number(queue["server"], RxEvents) # 0
      <4>1. \E i \in DOMAIN queue["server"] : queue["server"][i] \in RxEvents
        BY <3>1, <3>4, NumberType
      <4> QED
        BY <4>1 DEF RxEvents
    <3> QED
      BY <3>2, <3>3, <3>4
  <2> QED
    BY <2>2, <2>3 DEF Counted
<1> QED
  BY <1>1, <1>2, <1>3, PTL DEF PingSpec

--------------------------------------------------------------------------------
(* Where the ping of the client is.                                        *)

TxEvents == {e \in Events : e.id = "tx"}
Unsent == Number(modem["client"], TxOps)
Uncounted == Number(queue["client"], TxEvents)

\* The number of the latest ping that the client's modem was given.
Latest == client.next - 1 + Unsent + Uncounted

\* The numbers that a retransmission, the server or an answer still has.
Left == {n \in Nat :
  \/ \E op \in ToSet(modem["client"]) : op.op = "retx" /\ op.seq = n
  \/ n \in list.retx
  \/ \E op \in ToSet(modem["server"]) : op.op = "answer" /\ op.seq = n
  \/ \E e \in ToSet(queue["server"]) : e.id = "ping" /\ e.seq = n
  \/ \E e \in ToSet(queue["client"]) :
       (e.id = "answer" /\ e.seq = n) \/ (e.id = "nack" /\ harq.seq = n)}

\* No answer overtakes the completion of its ping.
Ordered(events) ==
  \A i, j \in DOMAIN events : i < j /\ events[j].id = "tx" => events[i].id # "answer"

\* The listed operation has the number of the next ping.
NextListed ==
  list.left > 0 =>
    /\ list.seq = client.next
    /\ ~client.intervals_done
    /\ \A e \in ToSet(queue["client"]) : e.id # "intervals_done"

\* Whatever is left of a ping is left of the latest, and nothing is as long as the
\* modem has it to send.
Stepping ==
  on_going["client"] =>
    /\ Unsent + Uncounted <= 1
    /\ \A op \in ToSet(modem["client"]) : op.op = "tx" => op.seq = Latest
    /\ Left \subseteq {Latest} /\ (Unsent > 0 => Left = {})
    /\ Ordered(queue["client"])
    /\ NextListed

StepInv == LendInv /\ Stepping

LEMMA StepTypes ==
  ASSUME TypeOK
  PROVE  /\ Unsent \in Nat /\ Uncounted \in Nat /\ client.next \in Nat /\ harq.seq \in Nat
         /\ list.seq \in Nat /\ list.left \in Nat /\ list.retx \subseteq Nat
         /\ queue["client"] \in Seq(Events) /\ modem["client"] \in Seq(ClientOps)
         /\ queue["server"] \in Seq(Events) /\ modem["server"] \in Seq(ServerOps)
         /\ DOMAIN queue = Roles /\ DOMAIN modem = Roles
<1>1. /\ queue["client"] \in Seq(Events) /\ modem["client"] \in Seq(ClientOps)
      /\ queue["server"] \in Seq(Events) /\ modem["server"] \in Seq(ServerOps)
      /\ DOMAIN queue = Roles /\ DOMAIN modem = Roles
  BY DEF TypeOK, Roles, Modems
<1>2. Unsent \in Nat /\ Uncounted \in Nat
  BY <1>1, NumberType DEF Unsent, Uncounted
<1> QED
  BY <1>1, <1>2 DEF TypeOK, Data

LEMMA StepTypesAfter ==
  ASSUME TypeOK' PROVE Unsent' \in Nat /\ Uncounted' \in Nat
<1>1. queue'["client"] \in Seq(Events) /\ modem'["client"] \in Seq(ClientOps)
  BY DEF TypeOK, Roles, Modems
<1> QED
  BY <1>1, NumberType DEF Unsent, Uncounted

LEMMA OrderedEmpty == Ordered(<<>>)
BY DEF Ordered

LEMMA OrderedTail ==
  ASSUME NEW s \in Seq(Events), s # <<>>, Ordered(s)
  PROVE  Ordered(Tail(s))
<1>1. /\ Len(s) \in Nat \ {0} /\ Tail(s) \in Seq(Events) /\ Len(Tail(s)) = Len(s) - 1
      /\ \A i \in 1 .. Len(Tail(s)) : Tail(s)[i] = s[i + 1]
  BY EmptySeq, LenProperties, HeadTailProperties
<1>2. DOMAIN s = 1 .. Len(s) /\ DOMAIN Tail(s) = 1 .. Len(s) - 1
  BY <1>1, LenProperties
<1> DEFINE t == Tail(s)
<1> HIDE DEF t
<1> SUFFICES ASSUME NEW i \in DOMAIN t, NEW j \in DOMAIN t, i < j, t[j].id = "tx"
             PROVE  t[i].id # "answer"
  BY DEF Ordered, t
<1>3. i + 1 \in DOMAIN s /\ j + 1 \in DOMAIN s /\ i + 1 < j + 1
      /\ t[i] = s[i + 1] /\ t[j] = s[j + 1]
  BY <1>1, <1>2 DEF t
<1> QED
  BY <1>3 DEF Ordered

\* Behind a queue without answers, or without completions to come.
LEMMA OrderedConcat ==
  ASSUME NEW a \in Seq(Events), NEW b \in Seq(Events), Ordered(a),
         \A e \in ToSet(b) : e.id # "answer" \/ b = <<e>>,
         \/ \A e \in ToSet(a) : e.id # "answer"
         \/ \A e \in ToSet(b) : e.id # "tx"
  PROVE  Ordered(a \o b)
<1> DEFINE w == a \o b
<1>1. /\ Len(a) \in Nat /\ Len(b) \in Nat /\ Len(w) = Len(a) + Len(b) /\ w \in Seq(Events)
      /\ \A i \in 1 .. Len(a) + Len(b) : w[i] = IF i <= Len(a) THEN a[i] ELSE b[i - Len(a)]
  BY ConcatProperties, LenProperties
<1>2. DOMAIN a = 1 .. Len(a) /\ DOMAIN b = 1 .. Len(b) /\ DOMAIN w = 1 .. Len(a) + Len(b)
  BY <1>1, LenProperties
<1> HIDE DEF w
<1> SUFFICES ASSUME NEW i \in DOMAIN w, NEW j \in DOMAIN w, i < j, w[j].id = "tx"
             PROVE  w[i].id # "answer"
  BY DEF Ordered, w
<1>3. i \in 1 .. Len(a) + Len(b) /\ j \in 1 .. Len(a) + Len(b)
  BY <1>2
<1>4. CASE j <= Len(a)
  <2>1. i \in DOMAIN a /\ j \in DOMAIN a /\ w[i] = a[i] /\ w[j] = a[j]
    BY <1>1, <1>2, <1>3, <1>4
  <2> QED
    BY <2>1 DEF Ordered
<1>5. CASE j > Len(a)
  <2>1. j - Len(a) \in DOMAIN b /\ w[j] = b[j - Len(a)]
    BY <1>1, <1>2, <1>3, <1>5
  <2>2. b[j - Len(a)] \in ToSet(b)
    BY <2>1 DEF ToSet
  <2>3. \A e \in ToSet(a) : e.id # "answer"
    BY <2>1, <2>2
  <2>4. CASE i <= Len(a)
    <3>1. i \in DOMAIN a /\ w[i] = a[i]
      BY <1>1, <1>2, <1>3, <2>4
    <3>2. a[i] \in ToSet(a)
      BY <3>1 DEF ToSet
    <3> QED
      BY <2>3, <3>1, <3>2
  <2>5. CASE i > Len(a)
    <3>1. i - Len(a) \in DOMAIN b /\ w[i] = b[i - Len(a)]
      BY <1>1, <1>2, <1>3, <2>5
    <3>2. b[i - Len(a)] \in ToSet(b)
      BY <3>1 DEF ToSet
    <3>3. Len(b) # 1
      BY <1>1, <1>2, <2>1, <3>1
    <3>4. b # <<b[i - Len(a)]>>
      BY <3>3
    <3> QED
      BY <3>1, <3>2, <3>4
  <2> QED
    BY <1>1, <1>3, <2>4, <2>5
<1> QED
  BY <1>1, <1>3, <1>4, <1>5

\* What is left has its numbers in Left.
LEMMA LeftHas ==
  ASSUME TypeOK
  PROVE  /\ \A op \in ToSet(modem["client"]) : op.op = "retx" => op.seq \in Left
         /\ list.retx \subseteq Left
         /\ \A op \in ToSet(modem["server"]) : op.op = "answer" => op.seq \in Left
         /\ \A e \in ToSet(queue["server"]) : e.id = "ping" => e.seq \in Left
         /\ \A e \in ToSet(queue["client"]) :
              (e.id = "answer" => e.seq \in Left) /\ (e.id = "nack" => harq.seq \in Left)
<1>1. /\ queue["client"] \in Seq(Events) /\ modem["client"] \in Seq(ClientOps)
      /\ queue["server"] \in Seq(Events) /\ modem["server"] \in Seq(ServerOps)
      /\ harq.seq \in Nat /\ list.retx \subseteq Nat
  BY StepTypes
<1>2. \A op \in ToSet(modem["client"]) : op.seq \in Nat
  BY <1>1, HoldsType DEF ClientOps
<1>3. \A op \in ToSet(modem["server"]) : op.seq \in Nat
  BY <1>1, HoldsType DEF ServerOps
<1>4. /\ \A e \in ToSet(queue["server"]) : e.seq \in Nat
      /\ \A e \in ToSet(queue["client"]) : e.seq \in Nat
  BY <1>1, HoldsType DEF Events
<1> QED
  BY <1>1, <1>2, <1>3, <1>4 DEF Left

LEMMA LeftShrinks ==
  ASSUME NEW N,
         \A op \in ToSet(modem'["client"]) : op.op = "retx" => op.seq \in N,
         list'.retx \subseteq N,
         \A op \in ToSet(modem'["server"]) : op.op = "answer" => op.seq \in N,
         \A e \in ToSet(queue'["server"]) : e.id = "ping" => e.seq \in N,
         \A e \in ToSet(queue'["client"]) :
           (e.id = "answer" => e.seq \in N) /\ (e.id = "nack" => harq'.seq \in N)
  PROVE  Left' \subseteq N
BY DEF Left

\* A step that sends and counts no ping and leaves nothing new of any.
LEMMA Calm ==
  ASSUME TypeOK, Stepping, on_going'["client"] => on_going["client"],
         client'.next = client.next, Unsent' = Unsent, Uncounted' = Uncounted,
         \A op \in ToSet(modem'["client"]) : op.op = "tx" => op \in ToSet(modem["client"]),
         Left' \subseteq Left,
         on_going["client"] /\ Ordered(queue["client"]) => Ordered(queue'["client"]),
         NextListed => NextListed'
  PROVE  Stepping'
<1> SUFFICES ASSUME on_going'["client"]
             PROVE  /\ Unsent' + Uncounted' <= 1
                    /\ \A op \in ToSet(modem'["client"]) : op.op = "tx" => op.seq = Latest'
                    /\ Left' \subseteq {Latest'} /\ (Unsent' > 0 => Left' = {})
                    /\ Ordered(queue'["client"])
                    /\ NextListed'
  BY DEF Stepping
<1>1. /\ Unsent + Uncounted <= 1
      /\ \A op \in ToSet(modem["client"]) : op.op = "tx" => op.seq = Latest
      /\ Left \subseteq {Latest} /\ (Unsent > 0 => Left = {})
      /\ Ordered(queue["client"])
      /\ NextListed
  BY DEF Stepping
<1>2. Latest' = Latest
  BY DEF Latest
<1> QED
  BY <1>1, <1>2

\* A step on the server: its answers and its pings are to what is left.
LEMMA ServerCalm ==
  ASSUME TypeOK, Stepping, UNCHANGED <<client, harq>>, on_going'["client"] = on_going["client"],
         list' = list, modem'["client"] = modem["client"], queue'["client"] = queue["client"],
         \A op \in ToSet(modem'["server"]) : op.op = "answer" => op.seq \in Left,
         \A e \in ToSet(queue'["server"]) : e.id = "ping" => e.seq \in Left
  PROVE  Stepping'
<1>1. /\ \A op \in ToSet(modem["client"]) : op.op = "retx" => op.seq \in Left
      /\ list.retx \subseteq Left
      /\ \A e \in ToSet(queue["client"]) :
           (e.id = "answer" => e.seq \in Left) /\ (e.id = "nack" => harq.seq \in Left)
  BY LeftHas
<1>2. Left' \subseteq Left
  BY <1>1, LeftShrinks
<1>3. Unsent' = Unsent /\ Uncounted' = Uncounted
  BY DEF Unsent, Uncounted
<1>4. NextListed => NextListed'
  BY DEF NextListed
<1>5. Ordered(queue["client"]) => Ordered(queue'["client"])
  OBVIOUS
<1> QED
  BY <1>2, <1>3, <1>4, <1>5, Calm

LEMMA ClientTook ==
  ASSUME TypeOK, NEW id, Takes("client", id)
  PROVE  /\ Head(queue["client"]) \in ToSet(queue["client"]) /\ Head(queue["client"]).id = id
         /\ ToSet(queue'["client"]) \subseteq ToSet(queue["client"])
         /\ queue'["server"] = queue["server"]
         /\ Ordered(queue["client"]) => Ordered(queue'["client"])
         /\ Uncounted = Uncounted' + IF id = "tx" THEN 1 ELSE 0
<1>1. /\ queue["client"] # <<>> /\ Head(queue["client"]).id = id /\ Head(queue["client"]) \in Events
      /\ queue'["client"] = Tail(queue["client"]) /\ queue'["server"] = queue["server"]
      /\ ToSet(queue["client"]) = {Head(queue["client"])} \cup ToSet(queue'["client"])
  BY TakesType DEF Roles
<1>2. queue["client"] \in Seq(Events)
  BY StepTypes
<1>3. Number(queue["client"], TxEvents) =
        Number(Tail(queue["client"]), TxEvents) + IF Head(queue["client"]) \in TxEvents THEN 1 ELSE 0
  BY <1>1, <1>2, NumberTail
<1>4. Head(queue["client"]) \in TxEvents <=> id = "tx"
  BY <1>1 DEF TxEvents
<1>5. Uncounted = Uncounted' + IF id = "tx" THEN 1 ELSE 0
  BY <1>1, <1>3, <1>4 DEF Uncounted
<1>6. Ordered(queue["client"]) => Ordered(queue'["client"])
  BY <1>1, <1>2, OrderedTail
<1> QED
  BY <1>1, <1>5, <1>6

\* A step of the client's thread that counts no ping.
LEMMA ClientCalm ==
  ASSUME TypeOK, TypeOK', Stepping, NEW id, id # "tx", Takes("client", id),
         on_going'["client"] => on_going["client"],
         client'.next = client.next, harq'.seq = harq.seq, modem'["server"] = modem["server"],
         Unsent' = Unsent,
         \A op \in ToSet(modem'["client"]) : op.op \in {"tx", "retx"} => op \in ToSet(modem["client"]),
         list'.retx \subseteq Left, NextListed => NextListed'
  PROVE  Stepping'
<1>1. /\ ToSet(queue'["client"]) \subseteq ToSet(queue["client"])
      /\ queue'["server"] = queue["server"]
      /\ Ordered(queue["client"]) => Ordered(queue'["client"])
  BY ClientTook
<1>2. Uncounted' \in Nat
  BY StepTypesAfter
<1>3. Uncounted' = Uncounted
  <2>1. Uncounted = Uncounted' + 0 /\ Uncounted \in Nat
    BY ClientTook, StepTypes
  <2>2. \A m, n \in Nat : m = n + 0 => n = m
    OBVIOUS
  <2> QED
    BY <1>2, <2>1, <2>2
<1>4. Left' \subseteq Left
  BY <1>1, LeftHas, LeftShrinks
<1> QED
  BY <1>1, <1>3, <1>4, Calm

\* The list and the queue can only lose what NextListed is about.
LEMMA ListedKept ==
  ASSUME NextListed, client'.next = client.next, client'.intervals_done = client.intervals_done,
         list'.left = list.left, list'.seq = list.seq,
         \A e \in ToSet(queue'["client"]) : e.id = "intervals_done" => e \in ToSet(queue["client"])
  PROVE  NextListed'
BY DEF NextListed

LEMMA ReportSteps ==
  ASSUME LendInv, LendInv', Stepping, NEW taken \in 0 .. 2, Report(taken), UNCHANGED <<tool, hitch>>,
         harq' = harq, queue'["server"] = queue["server"],
         ToSet(queue'["client"]) \subseteq ToSet(queue["client"]), Uncounted' = Uncounted,
         Ordered(queue["client"]) => Ordered(queue'["client"])
  PROVE  Stepping'
<1>1. TypeOK /\ TypeOK' /\ "client" \in Roles
  BY DEF LendInv, Roles
<1>2. /\ modem'["server"] = modem["server"] /\ Unsent' = Unsent
      /\ \A op \in ToSet(modem'["client"]) :
           op.op \in {"tx", "retx"} => op \in ToSet(modem["client"])
      /\ list' = [list EXCEPT !.left = 0] /\ client'.next = client.next
      /\ on_going'["client"] => on_going["client"]
  BY <1>1, ReportGives DEF Unsent
<1>3. list'.left = 0 /\ list'.retx = list.retx
  BY <1>1, <1>2 DEF TypeOK, Data
<1>4. NextListed'
  BY <1>3 DEF NextListed
<1>5. Left' \subseteq Left
  BY <1>1, <1>2, <1>3, LeftHas, LeftShrinks
<1> QED
  BY <1>1, <1>2, <1>4, <1>5, Calm

LEMMA TakeTxSteps ==
  ASSUME LendInv, LendInv', Stepping, TakeTx PROVE Stepping'
<1>1. TypeOK /\ TypeOK'
  BY DEF LendInv
<1>2. /\ on_going["client"] /\ Takes("client", "tx") /\ list' = NextPing
      /\ client' = [client EXCEPT !.sent = @ + 1, !.next = @ + 1]
      /\ UNCHANGED <<on_going, harq, modem>>
  BY <1>1 DEF TakeTx, Handles
<1>3. /\ Unsent + Uncounted <= 1
      /\ \A op \in ToSet(modem["client"]) : op.op = "tx" => op.seq = Latest
      /\ Left \subseteq {Latest} /\ (Unsent > 0 => Left = {})
      /\ Ordered(queue["client"])
      /\ NextListed
  BY <1>2 DEF Stepping
<1>4. /\ ToSet(queue'["client"]) \subseteq ToSet(queue["client"])
      /\ queue'["server"] = queue["server"]
      /\ Ordered(queue'["client"])
      /\ Uncounted = Uncounted' + 1
  BY <1>1, <1>2, <1>3, ClientTook
<1>5. /\ Unsent \in Nat /\ Uncounted \in Nat /\ Uncounted' \in Nat /\ client.next \in Nat
      /\ Unsent' = Unsent
  BY <1>1, <1>2, StepTypes, StepTypesAfter DEF Unsent
<1>6. client'.next = client.next + 1 /\ client'.intervals_done = client.intervals_done
  BY <1>1, <1>2 DEF TypeOK, Data
<1>7. Latest' = Latest
  BY <1>4, <1>5, <1>6 DEF Latest
<1>8. /\ list'.retx = list.retx
      /\ list'.left > 0 /\ ~client.intervals_done => list'.seq = client.next + 1
      /\ list'.left = list.left
  BY <1>1, <1>2 DEF NextPing, TypeOK, Data
<1>9. Left' \subseteq Left
  BY <1>1, <1>2, <1>4, <1>8, LeftHas, LeftShrinks
<1>10. NextListed'
  BY <1>3, <1>4, <1>6, <1>8 DEF NextListed
<1> QED
  BY <1>2, <1>3, <1>4, <1>5, <1>7, <1>9, <1>10 DEF Stepping

LEMMA TakeNackSteps ==
  ASSUME LendInv, LendInv', Stepping, NEW again \in BOOLEAN, NEW over \in BOOLEAN,
         TakeNack(again, over)
  PROVE  Stepping'
<1>1. TypeOK /\ TypeOK' /\ "nack" # "tx"
  BY DEF LendInv
<1>2. Takes("client", "nack") /\ UNCHANGED <<on_going, client, server>>
  BY DEF TakeNack
<1>3. harq.seq \in Left
  BY <1>1, <1>2, ClientTook, LeftHas
<1>4. list.retx \subseteq Left
  BY <1>1, LeftHas
<1>5. harq'.seq = harq.seq
  BY <1>1 DEF TakeNack, TypeOK, Data
<1>6. list'.retx \subseteq Left /\ list'.left = list.left /\ list'.seq = list.seq
  <2>1. list' = list \/ list' = [list EXCEPT !.retx = @ \cup {harq.seq}]
    BY DEF TakeNack
  <2> QED
    BY <1>1, <1>3, <1>4, <2>1 DEF TypeOK, Data
<1>7. NextListed => NextListed'
  BY <1>1, <1>2, <1>6, ClientTook, ListedKept
<1>8. /\ modem'["server"] = modem["server"] /\ Unsent' = Unsent
      /\ ToSet(modem'["client"]) \subseteq ToSet(modem["client"])
  <2>1. modem' = modem \/ modem' = [modem EXCEPT !["client"] = Cancelled(modem["client"])]
    BY DEF TakeNack
  <2>2. CASE modem' = modem
    BY <2>2 DEF Unsent
  <2>3. CASE modem' = [modem EXCEPT !["client"] = Cancelled(modem["client"])]
    <3> DEFINE ops == modem["client"]
    <3>1. ops \in Seq(ClientOps) /\ Number(ops, TxOps) \in Nat
      BY <1>1, StepTypes DEF Unsent
    <3>2. /\ modem'["server"] = modem["server"] /\ modem'["client"] = Cancelled(ops)
      BY <1>1, <2>3, StepTypes DEF Roles
    <3> HIDE DEF ops
    <3>3. CASE ops # <<>> /\ Head(ops).op = "rx"
      <4>1. Cancelled(ops) = Tail(ops)
        BY <3>3 DEF Cancelled
      <4>2. Head(ops) \notin TxOps
        BY <3>3 DEF TxOps
      <4>3. /\ Number(ops, TxOps) =
                 Number(Tail(ops), TxOps) + IF Head(ops) \in TxOps THEN 1 ELSE 0
            /\ Tail(ops) \in Seq(ClientOps) /\ ToSet(Tail(ops)) \subseteq ToSet(ops)
        BY <3>1, <3>3, NumberTail, HoldsTail
      <4>4. Number(Tail(ops), TxOps) \in Nat
        BY <4>3, NumberType
      <4>5. Number(Tail(ops), TxOps) = Number(ops, TxOps)
        BY <4>2, <4>3, <4>4
      <4> QED
        BY <3>2, <4>1, <4>3, <4>5 DEF Unsent, ops
    <3>4. CASE ~(ops # <<>> /\ Head(ops).op = "rx")
      <4>1. Cancelled(ops) = ops
        BY <3>4 DEF Cancelled
      <4> QED
        BY <3>2, <4>1 DEF Unsent, ops
    <3> QED
      BY <3>3, <3>4
  <2> QED
    BY <2>1, <2>2, <2>3
<1> QED
  BY <1>1, <1>2, <1>5, <1>6, <1>7, <1>8, ClientCalm

LEMMA ClientSteps ==
  ASSUME LendInv, LendInv', Stepping, ClientRuns PROVE Stepping'
<1>1. TypeOK /\ TypeOK' /\ list.retx \subseteq Left
  BY LeftHas DEF LendInv
<1>2. CASE TakeIntervalsDone
  <2>1. /\ Takes("client", "intervals_done") /\ client' = [client EXCEPT !.intervals_done = TRUE]
        /\ UNCHANGED <<on_going, harq, list, modem>>
    BY <1>2 DEF TakeIntervalsDone
  <2>2. client'.next = client.next
    BY <1>1, <2>1 DEF TypeOK, Data
  <2>3. NextListed => NextListed'
    BY <1>1, <2>1, ClientTook DEF NextListed
  <2>4. Unsent' = Unsent
    BY <2>1 DEF Unsent
  <2> QED
    BY <1>1, <2>1, <2>2, <2>3, <2>4, ClientCalm
<1>3. ASSUME NEW id, id # "tx", Takes("client", id), UNCHANGED <<on_going, client, list, modem>>,
             harq'.seq = harq.seq
      PROVE  Stepping'
  <2>1. NextListed => NextListed'
    BY <1>1, <1>3, ClientTook, ListedKept
  <2>2. Unsent' = Unsent
    BY <1>3 DEF Unsent
  <2> QED
    BY <1>1, <1>3, <2>1, <2>2, ClientCalm
<1>4. CASE TakeRetx \/ TakeStored \/ TakeAck \/ TakeAnswer
  <2>1. /\ \E id \in {"retx", "stored", "ack", "answer"} : Takes("client", id)
        /\ UNCHANGED <<on_going, client, list, modem>>
    BY <1>4 DEF TakeRetx, TakeStored, TakeAck, TakeAnswer, Handles
  <2>2. harq'.seq = harq.seq
    BY <1>1, <1>4 DEF TakeRetx, TakeStored, TakeAck, TakeAnswer, TypeOK, Data
  <2>3. PICK id \in {"retx", "stored", "ack", "answer"} : Takes("client", id)
    BY <2>1
  <2>4. id # "tx"
    OBVIOUS
  <2> QED
    BY <1>3, <2>1, <2>2, <2>3, <2>4
<1>5. ASSUME NEW taken \in 0 .. 2, TakeRx(taken)
      PROVE  Stepping'
  <2>1. Takes("client", "rx") /\ UNCHANGED <<harq, tool, hitch>>
    BY <1>5 DEF TakeRx, Handles
  <2>2. CASE AllSent /\ ~client.requested
    <3>1. Report(taken)
      BY <1>5, <2>2 DEF TakeRx
    <3>2. /\ ToSet(queue'["client"]) \subseteq ToSet(queue["client"])
          /\ queue'["server"] = queue["server"]
          /\ Ordered(queue["client"]) => Ordered(queue'["client"])
          /\ Uncounted = Uncounted' + 0
      BY <1>1, <2>1, ClientTook
    <3>3. Uncounted' = Uncounted
      BY <1>1, <3>2, StepTypesAfter
    <3> QED
      BY <2>1, <3>1, <3>2, <3>3, ReportSteps
  <2>3. CASE ~(AllSent /\ ~client.requested)
    <3>1. UNCHANGED <<on_going, client, list, modem>>
      BY <1>5, <2>3 DEF TakeRx
    <3> QED
      BY <1>3, <2>1, <3>1
  <2> QED
    BY <2>2, <2>3
<1>6. CASE TakeResults
  <2>1. ~on_going'["client"]
    BY <1>1, <1>6 DEF TakeResults, CmdDone, TypeOK, Flags, Roles
  <2> QED
    BY <2>1 DEF Stepping
<1> QED
  BY <1>2, <1>4, <1>5, <1>6, TakeTxSteps, TakeNackSteps DEF ClientRuns

\* Nothing is left of a ping when the next is due.
LEMMA QuietGives ==
  ASSUME TypeOK, Quiet
  PROVE  /\ Unsent = 0 /\ Uncounted = 0 /\ Left = {}
         /\ \A op \in ToSet(modem["client"]) : op.op = "rx"
         /\ \A op \in ToSet(modem["server"]) : op.op # "answer"
         /\ \A e \in ToSet(queue["server"]) : e.id # "ping"
         /\ queue["client"] = <<>> /\ list.retx = {} /\ list.left > 0
<1>1. /\ list.left > 0 /\ list.retx = {} /\ queue["client"] = <<>>
      /\ \A i \in DOMAIN modem["client"] : modem["client"][i].op = "rx"
      /\ \A i \in DOMAIN queue["server"] : queue["server"][i].id # "ping"
      /\ \A i \in DOMAIN modem["server"] : modem["server"][i].op # "answer"
  BY DEF Quiet, Answering
<1>2. /\ \A op \in ToSet(modem["client"]) : op.op = "rx"
      /\ \A op \in ToSet(modem["server"]) : op.op # "answer"
      /\ \A e \in ToSet(queue["server"]) : e.id # "ping"
  BY <1>1 DEF ToSet
<1>3. ToSet(queue["client"]) = {}
  BY <1>1, HoldsEmpty
<1>4. Left = {}
  BY <1>1, <1>2, <1>3 DEF Left
<1>5. Uncounted = 0
  BY <1>1, NumberEmpty DEF Uncounted
<1>6. Unsent = 0
  <2>1. modem["client"] \in Seq(ClientOps)
    BY StepTypes
  <2>2. \A i \in DOMAIN modem["client"] : modem["client"][i] \notin TxOps
    BY <1>1 DEF TxOps
  <2> QED
    BY <2>1, <2>2, NumberType DEF Unsent
<1> QED
  BY <1>1, <1>2, <1>4, <1>5, <1>6

\* The events of the last turn and of a store are no completions and no answers.
LEMMA StoresNothing ==
  ASSUME NEW s \in Seq(Events), \A e \in ToSet(s) : e.id \in {"stored", "intervals_done"}
  PROVE  Number(s, TxEvents) = 0
<1>1. ToSet(s) \cap TxEvents = {}
  BY DEF TxEvents
<1> QED
  BY <1>1, NumberNone

LEMMA SendTurnSteps ==
  ASSUME LendInv, LendInv', Stepping, SendTurn PROVE Stepping'
<1> SUFFICES ASSUME on_going["client"]
             PROVE  /\ Unsent' + Uncounted' <= 1
                    /\ \A op \in ToSet(modem'["client"]) : op.op = "tx" => op.seq = Latest'
                    /\ Left' \subseteq {Latest'} /\ (Unsent' > 0 => Left' = {})
                    /\ Ordered(queue'["client"])
                    /\ NextListed'
  BY DEF Stepping, SendTurn
<1>1. TypeOK /\ Modems /\ DOMAIN queue = Roles /\ "client" \in Roles /\ "server" \in Roles
  BY StepTypes DEF LendInv, TypeOK, Roles
<1>2. /\ Quiet /\ list' = [list EXCEPT !.left = @ - 1]
      /\ modem' = [modem EXCEPT !["client"] = @ \o PingOps(list.seq)]
      /\ queue' = [queue EXCEPT !["client"] = LastTurn]
      /\ UNCHANGED <<on_going, client, harq>>
  BY DEF SendTurn
<1>3. /\ Unsent = 0 /\ Uncounted = 0 /\ Left = {}
      /\ \A op \in ToSet(modem["client"]) : op.op = "rx"
      /\ \A op \in ToSet(modem["server"]) : op.op # "answer"
      /\ \A e \in ToSet(queue["server"]) : e.id # "ping"
      /\ list.retx = {} /\ list.left > 0
  BY <1>1, <1>2, QuietGives
<1>4. NextListed
  BY DEF Stepping
<1>5. /\ list.seq \in Nat /\ list.left \in Nat /\ list.seq = client.next
      /\ client.next \in Nat /\ ~client.intervals_done
  BY <1>1, <1>3, <1>4, StepTypes DEF NextListed
<1>6. /\ PingOps(list.seq) \in Seq(ClientOps) /\ Number(PingOps(list.seq), TxOps) = 1
      /\ ToSet(PingOps(list.seq)) = {Op("tx", list.seq), Op("rx", 0)}
  BY <1>5, PingOpsGive
<1>7. /\ modem'["server"] = modem["server"]
      /\ ToSet(modem'["client"]) = ToSet(modem["client"]) \cup {Op("tx", list.seq), Op("rx", 0)}
      /\ Unsent' = 1
  <2>1. /\ modem'["server"] = modem["server"]
        /\ ToSet(modem'["client"]) = ToSet(modem["client"]) \cup ToSet(PingOps(list.seq))
        /\ Number(modem'["client"], TxOps) =
             Number(modem["client"], TxOps) + Number(PingOps(list.seq), TxOps)
    BY <1>1, <1>2, <1>6, ClientTakes
  <2>2. Unsent' = 1
    BY <1>3, <1>6, <2>1 DEF Unsent
  <2> QED
    BY <1>6, <2>1, <2>2
<1>8. queue'["client"] = LastTurn /\ queue'["server"] = queue["server"]
  BY <1>1, <1>2
<1>9. LastTurn \in Seq(Events) /\ \A e \in ToSet(LastTurn) : e.id = "intervals_done"
  BY StoredType
<1>10. Uncounted' = 0
  BY <1>8, <1>9, StoresNothing DEF Uncounted
<1>11. Latest' = list.seq
  BY <1>2, <1>5, <1>7, <1>10 DEF Latest
<1>12. \A op \in ToSet(modem'["client"]) : (op.op = "tx" => op.seq = list.seq) /\ op.op # "retx"
  BY <1>3, <1>7 DEF Op
<1>13. list'.retx = {} /\ list'.seq = list.seq /\ list'.left = list.left - 1
  BY <1>1, <1>2, <1>3 DEF TypeOK, Data
<1>14. Left' \subseteq {}
  BY <1>3, <1>7, <1>8, <1>9, <1>12, <1>13, LeftShrinks
<1>15. Ordered(queue'["client"])
  <2>1. \A i \in DOMAIN LastTurn : LastTurn[i].id = "intervals_done"
    BY <1>9 DEF ToSet
  <2> QED
    BY <1>8, <2>1 DEF Ordered
<1>16. NextListed'
  <2> SUFFICES ASSUME list'.left > 0
               PROVE  /\ list'.seq = client'.next /\ ~client'.intervals_done
                      /\ \A e \in ToSet(queue'["client"]) : e.id # "intervals_done"
    BY DEF NextListed
  <2>1. list.left # 1
    BY <1>5, <1>13
  <2>2. ToSet(queue'["client"]) = {}
    BY <1>8, <2>1, StoredType, HoldsEmpty
  <2> QED
    BY <1>2, <1>5, <1>13, <2>2
<1> QED
  BY <1>7, <1>10, <1>11, <1>12, <1>14, <1>15, <1>16

LEMMA LoseTurnSteps ==
  ASSUME LendInv, LendInv', Stepping, LoseTurn PROVE Stepping'
<1>1. TypeOK /\ DOMAIN queue = Roles /\ "client" \in Roles /\ "server" \in Roles
  BY StepTypes DEF LendInv, Roles
<1>2. /\ Quiet /\ list' = [list EXCEPT !.left = @ - 1]
      /\ queue' = [queue EXCEPT !["client"] = LastTurn \o Stored]
      /\ UNCHANGED <<on_going, client, modem>>
  BY DEF LoseTurn
<1>3. /\ Unsent = 0 /\ Uncounted = 0 /\ Left = {}
      /\ \A op \in ToSet(modem["client"]) : op.op = "rx"
      /\ \A op \in ToSet(modem["server"]) : op.op # "answer"
      /\ \A e \in ToSet(queue["server"]) : e.id # "ping"
      /\ list.retx = {} /\ list.left > 0 /\ list.left \in Nat
  BY <1>1, <1>2, QuietGives, StepTypes
<1> DEFINE s == LastTurn \o Stored
<1>4. queue'["client"] = s /\ queue'["server"] = queue["server"]
  BY <1>1, <1>2
<1>5. /\ LastTurn \in Seq(Events) /\ Stored \in Seq(Events)
      /\ \A e \in ToSet(LastTurn) : e.id = "intervals_done"
      /\ \A e \in ToSet(Stored) : e.id = "stored"
  BY StoredType
<1>6. s \in Seq(Events) /\ ToSet(s) = ToSet(LastTurn) \cup ToSet(Stored)
  BY <1>5, HoldsConcat
<1>7. list.left # 1 => ToSet(s) = ToSet(Stored)
  BY <1>6, StoredType, HoldsEmpty
<1> HIDE DEF s
<1>8. \A e \in ToSet(s) : e.id \in {"stored", "intervals_done"}
  BY <1>5, <1>6
<1>9. Uncounted' = Uncounted /\ Unsent' = Unsent
  BY <1>2, <1>3, <1>4, <1>6, <1>8, StoresNothing DEF Uncounted, Unsent
<1>10. list'.retx = {} /\ list'.seq = list.seq /\ list'.left = list.left - 1
  BY <1>1, <1>2, <1>3 DEF TypeOK, Data
<1>11. Left' \subseteq Left
  BY <1>2, <1>3, <1>4, <1>8, <1>10, LeftShrinks
<1>12. Ordered(queue'["client"])
  <2>1. \A i \in DOMAIN s : s[i].id \in {"stored", "intervals_done"}
    BY <1>8 DEF ToSet
  <2> QED
    BY <1>4, <2>1 DEF Ordered
<1>13. NextListed => NextListed'
  <2> SUFFICES ASSUME NextListed, list'.left > 0
               PROVE  /\ list'.seq = client'.next /\ ~client'.intervals_done
                      /\ \A e \in ToSet(queue'["client"]) : e.id # "intervals_done"
    BY DEF NextListed
  <2>1. list.left # 1
    BY <1>3, <1>10
  <2>2. \A e \in ToSet(queue'["client"]) : e.id # "intervals_done"
    BY <1>4, <1>5, <1>7, <2>1
  <2> QED
    BY <1>2, <1>3, <1>10, <2>2 DEF NextListed
<1> QED
  BY <1>1, <1>2, <1>9, <1>11, <1>12, <1>13, Calm

LEMMA SendRetxSteps ==
  ASSUME LendInv, LendInv', Stepping, NEW seq \in list.retx, SendRetx(seq) PROVE Stepping'
<1>1. TypeOK /\ DOMAIN modem = Roles /\ "client" \in Roles /\ "server" \in Roles
  BY StepTypes DEF LendInv, Roles
<1>2. seq \in Nat /\ seq \in Left /\ list.retx \subseteq Left /\ modem["client"] \in Seq(ClientOps)
  BY <1>1, StepTypes, LeftHas
<1>3. /\ list' = [list EXCEPT !.retx = @ \ {seq}]
      /\ modem' = [modem EXCEPT !["client"] = RetxOps(seq) \o @]
      /\ UNCHANGED <<on_going, client, harq, queue>>
  BY DEF SendRetx
<1>4. /\ RetxOps(seq) \in Seq(ClientOps) /\ Number(RetxOps(seq), TxOps) = 0
      /\ ToSet(RetxOps(seq)) = {Op("retx", seq), Op("rx", 0)}
  BY <1>2, PingOpsGive
<1> DEFINE s == RetxOps(seq) \o modem["client"]
<1>5. modem'["client"] = s /\ modem'["server"] = modem["server"]
  BY <1>1, <1>3
<1>6. /\ ToSet(s) = ToSet(RetxOps(seq)) \cup ToSet(modem["client"])
      /\ Number(s, TxOps) = Number(RetxOps(seq), TxOps) + Number(modem["client"], TxOps)
  BY <1>2, <1>4, HoldsConcat, NumberConcat
<1> HIDE DEF s
<1>7. \A op \in ToSet(s) : \/ op \in ToSet(modem["client"])
                           \/ op.op = "retx" /\ op.seq = seq
                           \/ op.op = "rx"
  BY <1>4, <1>6 DEF Op
<1>8. Unsent' = Unsent /\ Uncounted' = Uncounted
  <2>1. Unsent \in Nat /\ Unsent' = 0 + Unsent
    BY <1>1, <1>4, <1>5, <1>6, StepTypes DEF Unsent
  <2> QED
    BY <1>3, <2>1 DEF Uncounted
<1>9. list'.retx \subseteq list.retx /\ list'.left = list.left /\ list'.seq = list.seq
  BY <1>1, <1>3 DEF TypeOK, Data
<1>10. Left' \subseteq Left
  BY <1>1, <1>2, <1>3, <1>5, <1>7, <1>9, LeftHas, LeftShrinks
<1>11. NextListed => NextListed'
  BY <1>3, <1>9, ListedKept
<1>12. \A op \in ToSet(modem'["client"]) : op.op = "tx" => op \in ToSet(modem["client"])
  BY <1>5, <1>7
<1> QED
  BY <1>1, <1>3, <1>8, <1>10, <1>11, <1>12, Calm

LEMMA LoseRetxSteps ==
  ASSUME LendInv, LendInv', Stepping, NEW seq \in list.retx, NEW late \in BOOLEAN,
         LoseRetx(seq, late)
  PROVE  Stepping'
<1>1. /\ TypeOK /\ DOMAIN queue = Roles /\ "client" \in Roles /\ "server" \in Roles
      /\ queue["client"] \in Seq(Events)
  BY StepTypes DEF LendInv, Roles
<1>2. /\ list' = [list EXCEPT !.retx = @ \ {seq}]
      /\ queue' = [queue EXCEPT !["client"] = IF late THEN @ ELSE @ \o Stored]
      /\ UNCHANGED <<on_going, client, harq, modem>>
  BY DEF LoseRetx
<1>3. list'.retx \subseteq list.retx /\ list'.left = list.left /\ list'.seq = list.seq
  BY <1>1, <1>2 DEF TypeOK, Data
<1>4. Stored \in Seq(Events) /\ \A e \in ToSet(Stored) : e.id = "stored"
  BY StoredType
<1>5. Unsent' = Unsent
  BY <1>2 DEF Unsent
<1>6. /\ queue'["server"] = queue["server"] /\ Uncounted' = Uncounted
      /\ \A e \in ToSet(queue'["client"]) : e \in ToSet(queue["client"]) \/ e.id = "stored"
      /\ Ordered(queue["client"]) => Ordered(queue'["client"])
  <2>1. CASE late
    <3>1. queue'["client"] = queue["client"] /\ queue'["server"] = queue["server"]
      BY <1>1, <1>2, <2>1
    <3> QED
      BY <3>1 DEF Uncounted
  <2>2. CASE ~late
    <3> DEFINE s == queue["client"] \o Stored
    <3>1. queue'["client"] = s /\ queue'["server"] = queue["server"]
      BY <1>1, <1>2, <2>2
    <3>2. /\ ToSet(s) = ToSet(queue["client"]) \cup ToSet(Stored)
          /\ Number(s, TxEvents) = Number(queue["client"], TxEvents) + Number(Stored, TxEvents)
      BY <1>1, <1>4, HoldsConcat, NumberConcat
    <3>3. Ordered(queue["client"]) => Ordered(s)
      BY <1>1, <1>4, OrderedConcat
    <3> HIDE DEF s
    <3>4. Number(Stored, TxEvents) = 0
      BY <1>4, StoresNothing
    <3>5. Uncounted \in Nat /\ Uncounted' = Uncounted + 0
      BY <1>1, <3>1, <3>2, <3>4, StepTypes DEF Uncounted
    <3>6. Uncounted' = Uncounted
      BY <3>5
    <3> QED
      BY <1>4, <3>1, <3>2, <3>3, <3>6
  <2> QED
    BY <2>1, <2>2
<1>7. Left' \subseteq Left
  BY <1>1, <1>2, <1>3, <1>6, LeftHas, LeftShrinks
<1>8. NextListed => NextListed'
  BY <1>2, <1>3, <1>6, ListedKept
<1> QED
  BY <1>1, <1>2, <1>5, <1>6, <1>7, <1>8, Calm

LEMMA SchedulerSteps ==
  ASSUME LendInv, LendInv', Stepping, SchedulerRuns PROVE Stepping'
BY SendTurnSteps, LoseTurnSteps, SendRetxSteps, LoseRetxSteps DEF SchedulerRuns

\* Arithmetic of the two steps of a ping: from the modem to the queue.
LEMMA NothingMore == \A m, n \in Nat : m = n + 0 => n = m
OBVIOUS

LEMMA SentMoves ==
  ASSUME NEW u \in Nat, NEW v \in Nat, NEW c \in Nat, u + c <= 1, u = v + 1
  PROVE  /\ u > 0 /\ v = 0 /\ c = 0 /\ v + (c + 1) <= 1
         /\ \A n \in Nat : n - 1 + v + (c + 1) = n - 1 + u + c
OBVIOUS

LEMMA ClientSendSteps ==
  ASSUME LendInv, LendInv', Stepping, NEW fate \in {"heard", "garbled", "lost"},
         NEW feedback \in BOOLEAN, Transmit("client", fate, feedback)
  PROVE  Stepping'
<1>1. /\ TypeOK /\ TypeOK' /\ queue["client"] \in Seq(Events) /\ modem["client"] \in Seq(ClientOps)
      /\ queue["server"] \in Seq(Events) /\ modem["server"] \in Seq(ServerOps)
      /\ Unsent \in Nat /\ Uncounted \in Nat /\ "client" \in Roles /\ client.next \in Nat
  BY StepTypes DEF LendInv, Roles
<1> DEFINE op == Head(modem["client"])
<1>2. /\ modem["client"] # <<>> /\ op \in ClientOps /\ op.op \in {"tx", "retx", "request"}
      /\ modem'["client"] = Tail(modem["client"])
      /\ fate = "heard" =>
           /\ modem["server"] # <<>> /\ modem'["server"] = Tail(modem["server"])
           /\ queue'["server"] = queue["server"] \o Received(op)
      /\ fate # "heard" => modem'["server"] = modem["server"] /\ queue'["server"] = queue["server"]
      /\ harq' = harq \/ (op.op # "request" /\ harq' = [harq EXCEPT !.seq = op.seq])
      /\ UNCHANGED <<on_going, client, list, server, tool>>
  BY <1>1, ClientSends
<1>3. PICK ans \in {<<>>, <<Feedback(fate)>>} :
        /\ queue'["client"] = Put("client", Sent(op) \o ans)
        /\ ans # <<>> => op.op # "request" /\ harq' = [harq EXCEPT !.seq = op.seq]
  BY <1>1, ClientSends
<1> HIDE DEF op
<1> SUFFICES ASSUME on_going["client"]
             PROVE  Stepping'
  BY <1>2 DEF Stepping
<1>4. /\ Unsent + Uncounted <= 1
      /\ \A o \in ToSet(modem["client"]) : o.op = "tx" => o.seq = Latest
      /\ Left \subseteq {Latest} /\ (Unsent > 0 => Left = {})
      /\ Ordered(queue["client"])
      /\ NextListed
  BY DEF Stepping
<1> DEFINE s == Sent(op) \o ans
<1>5. /\ s \in Seq(Events) /\ Number(s, TxEvents) = (IF op.op = "tx" THEN 1 ELSE 0)
      /\ \A e \in ToSet(s) : e.id \in {"tx", "retx", "stored", "ack", "nack"}
      /\ \A e \in ToSet(s) : e.id = "nack" => ans # <<>>
  <2>1. /\ Sent(op) \in Seq(Events)
        /\ ToSet(Sent(op)) \subseteq {Event("tx", 0), Event("retx", 0), Event("stored", 0)}
        /\ Number(Sent(op), TxEvents) = IF op.op = "tx" THEN 1 ELSE 0
    BY <1>1, <1>2, SentType DEF TxEvents
  <2>2. /\ Feedback(fate) \in Events /\ Feedback(fate).id \in {"ack", "nack"}
        /\ Feedback(fate) \notin TxEvents
    BY DEF Feedback, Event, Events, EventIds, TxEvents
  <2>3. /\ ans \in Seq(Events) /\ Number(ans, TxEvents) = 0
        /\ \A e \in ToSet(ans) : e.id \in {"ack", "nack"} /\ ans # <<>>
    <3>1. CASE ans = <<>>
      BY <3>1, HoldsEmpty, NumberEmpty
    <3>2. CASE ans = <<Feedback(fate)>>
      BY <2>2, <3>2, HoldsSingle, NumberSingle
    <3> QED
      BY <3>1, <3>2
  <2>4. s \in Seq(Events) /\ ToSet(s) = ToSet(Sent(op)) \cup ToSet(ans)
    BY <2>1, <2>3, HoldsConcat
  <2>5. Number(s, TxEvents) = Number(Sent(op), TxEvents) + Number(ans, TxEvents)
    BY <2>1, <2>3, NumberConcat
  <2> HIDE DEF s
  <2>6. \A e \in ToSet(Sent(op)) : e.id \in {"tx", "retx", "stored"}
    BY <2>1 DEF Event
  <2>7. \A e \in ToSet(s) : e.id \in {"tx", "retx", "stored", "ack", "nack"}
                            /\ (e.id = "nack" => ans # <<>>)
    BY <2>3, <2>4, <2>6
  <2>8. Number(s, TxEvents) = (IF op.op = "tx" THEN 1 ELSE 0)
    BY <2>1, <2>3, <2>5
  <2> QED
    BY <2>4, <2>7, <2>8
<1>6. queue'["client"] = queue["client"] \o s
  <2>1. tool["client"]
    BY <1>1 DEF LendInv, ToolAgrees
  <2> QED
    BY <1>3, <2>1 DEF Put
<1> HIDE DEF s
<1>7. /\ ToSet(queue'["client"]) = ToSet(queue["client"]) \cup ToSet(s)
      /\ op.op = "tx" => Uncounted' = Uncounted + 1
      /\ op.op # "tx" => Uncounted' = Uncounted
  <2>1. ToSet(queue'["client"]) = ToSet(queue["client"]) \cup ToSet(s)
    BY <1>1, <1>5, <1>6, HoldsConcat
  <2>2. Uncounted' = Uncounted + Number(s, TxEvents)
    BY <1>1, <1>5, <1>6, NumberConcat DEF Uncounted
  <2>3. op.op = "tx" => Number(s, TxEvents) = 1
    BY <1>5
  <2>4. op.op # "tx" => Number(s, TxEvents) = 0
    BY <1>5
  <2> QED
    BY <1>1, <2>1, <2>2, <2>3, <2>4
<1>8. /\ ToSet(modem["client"]) = {op} \cup ToSet(modem'["client"])
      /\ op.op = "tx" => Unsent = Unsent' + 1
      /\ op.op # "tx" => Unsent' = Unsent
      /\ Unsent' \in Nat
  <2>1. ToSet(modem["client"]) = {op} \cup ToSet(modem'["client"])
    BY <1>1, <1>2, HoldsTail DEF op
  <2>2. op \in TxOps <=> op.op = "tx"
    BY <1>2 DEF TxOps
  <2>3. Unsent = Unsent' + IF op \in TxOps THEN 1 ELSE 0
    <3>1. Number(modem["client"], TxOps) =
            Number(Tail(modem["client"]), TxOps) + IF Head(modem["client"]) \in TxOps THEN 1 ELSE 0
      BY <1>1, <1>2, NumberTail
    <3> QED
      BY <1>2, <3>1 DEF Unsent, op
  <2>4. Unsent' \in Nat
    BY <1>1, StepTypesAfter
  <2>5. op.op = "tx" => Unsent = Unsent' + 1
    BY <2>2, <2>3
  <2>6. op.op # "tx" => Unsent' = Unsent
    <3>1. op.op # "tx" => Unsent = Unsent' + 0
      BY <2>2, <2>3
    <3> QED
      BY <1>1, <2>4, <3>1, NothingMore
  <2> QED
    BY <2>1, <2>4, <2>5, <2>6
<1>9. ASSUME NEW N, Left \subseteq N, op.op \in {"tx", "retx"} => op.seq \in N
      PROVE  Left' \subseteq N
  <2>1. ToSet(modem'["server"]) \subseteq ToSet(modem["server"])
    BY <1>1, <1>2, HoldsTail
  <2>2. \A e \in ToSet(queue'["server"]) :
          e.id = "ping" => e \in ToSet(queue["server"]) \/ e.seq \in N
    <3>1. CASE fate # "heard"
      BY <1>2, <3>1
    <3>2. CASE fate = "heard"
      <4> DEFINE b == Event("server_rx", 0)
      <4>1. op.seq \in Nat
        BY <1>2 DEF ClientOps
      <4>2. /\ op.op \in {"tx", "retx"} => Received(op) = <<Event("ping", op.seq), b>>
            /\ op.op = "request" => Received(op) = <<Event("request", 0), b>>
            /\ Received(op) \in Seq(Events)
        BY <1>1, <1>2, SentType
      <4>3. /\ b \in Events /\ b.id = "server_rx"
            /\ Event("ping", op.seq) \in Events /\ Event("ping", op.seq).seq = op.seq
            /\ Event("request", 0) \in Events /\ Event("request", 0).id = "request"
        BY <4>1, EventType DEF EventIds
      <4> HIDE DEF b
      <4>4. /\ op.op \in {"tx", "retx"} => ToSet(Received(op)) = {Event("ping", op.seq), b}
            /\ op.op = "request" => ToSet(Received(op)) = {Event("request", 0), b}
        BY <4>2, <4>3, PairGives
      <4>5. ToSet(queue'["server"]) = ToSet(queue["server"]) \cup ToSet(Received(op))
        <5>1. Received(op) \in Seq(Events) /\ queue'["server"] = queue["server"] \o Received(op)
          BY <1>2, <3>2, <4>2
        <5> QED
          BY <1>1, <5>1, HoldsConcat
      <4>6. \A e \in ToSet(Received(op)) : e.id = "ping" => e.seq \in N
        BY <1>2, <1>9, <4>3, <4>4
      <4> QED
        BY <4>5, <4>6
    <3> QED
      BY <3>1, <3>2
  <2>3. harq.seq \in N \/ op.seq \in N => harq' = harq \/ harq'.seq \in N
    BY <1>1, <1>2, <1>9 DEF TypeOK, Data
  <2>4. \A e \in ToSet(queue'["client"]) :
          (e.id = "answer" => e.seq \in N) /\ (e.id = "nack" => harq'.seq \in N)
    <3>1. ans # <<>> => harq'.seq \in N
      BY <1>1, <1>2, <1>3, <1>9 DEF TypeOK, Data
    <3> SUFFICES ASSUME NEW e \in ToSet(queue'["client"])
                 PROVE  (e.id = "answer" => e.seq \in N) /\ (e.id = "nack" => harq'.seq \in N)
      OBVIOUS
    <3>2. CASE e \in ToSet(s)
      BY <1>5, <3>1, <3>2
    <3>3. CASE e \in ToSet(queue["client"])
      <4>1. /\ e.id = "answer" => e.seq \in N
            /\ e.id = "nack" => harq.seq \in N
        BY <1>1, <1>9, <3>3, LeftHas
      <4> QED
        BY <2>3, <4>1
    <3> QED
      BY <1>7, <3>2, <3>3
  <2> QED
    BY <1>1, <1>2, <1>8, <1>9, <2>1, <2>2, <2>4, LeftHas, LeftShrinks
<1>10. NextListed'
  BY <1>2, <1>4, <1>5, <1>7, ListedKept
<1>11. Ordered(queue'["client"])
  <2>1. CASE op.op = "tx"
    <3>1. Left = {}
      BY <1>1, <1>4, <1>8, <2>1, SentMoves
    <3>2. \A e \in ToSet(queue["client"]) : e.id # "answer"
      BY <1>1, <3>1, LeftHas
    <3> QED
      BY <1>1, <1>4, <1>5, <1>6, <3>2, OrderedConcat
  <2>2. CASE op.op # "tx"
    <3>1. ToSet(s) \cap TxEvents = {} /\ ToSet(s) \subseteq Events
      BY <1>5, <2>2, NumberNone, HoldsType
    <3>2. \A e \in ToSet(s) : e.id # "tx"
      BY <3>1 DEF TxEvents
    <3> QED
      BY <1>1, <1>4, <1>5, <1>6, <3>2, OrderedConcat
  <2> QED
    BY <2>1, <2>2
<1>12. Latest' = Latest /\ Unsent' + Uncounted' <= 1
  <2>1. client' = client
    BY <1>2
  <2>2. CASE op.op = "tx"
    <3>1. Uncounted' = Uncounted + 1 /\ Unsent = Unsent' + 1
      BY <1>7, <1>8, <2>2
    <3>2. /\ Unsent' + (Uncounted + 1) <= 1
          /\ client.next - 1 + Unsent' + (Uncounted + 1) = client.next - 1 + Unsent + Uncounted
      <4> DEFINE u == Unsent
                 v == Unsent'
                 c == Uncounted
                 n == client.next
      <4>1. u \in Nat /\ v \in Nat /\ c \in Nat /\ n \in Nat /\ u + c <= 1 /\ u = v + 1
        BY <1>1, <1>4, <1>8, <3>1
      <4> HIDE DEF u, v, c, n
      <4>2. v + (c + 1) <= 1 /\ n - 1 + v + (c + 1) = n - 1 + u + c
        BY <4>1
      <4> QED
        BY <4>2 DEF u, v, c, n
    <3> QED
      BY <2>1, <3>1, <3>2 DEF Latest
  <2>3. CASE op.op # "tx"
    BY <1>1, <1>4, <1>7, <1>8, <2>1, <2>3 DEF Latest
  <2> QED
    BY <2>2, <2>3
<1>13. Left' \subseteq {Latest'} /\ (Unsent' > 0 => Left' = {})
  <2>1. CASE op.op = "tx"
    <3>1. op.seq = Latest
      BY <1>4, <1>8, <2>1
    <3>2. Left' \subseteq {Latest}
      BY <1>4, <1>9, <3>1
    <3>3. Unsent' = 0
      BY <1>1, <1>4, <1>8, <2>1, SentMoves
    <3> QED
      BY <1>12, <3>2, <3>3
  <2>2. CASE op.op # "tx"
    <3>1. op.op = "retx" => op.seq \in Left
      BY <1>1, <1>8, LeftHas
    <3>2. Left' \subseteq Left
      BY <1>9, <2>2, <3>1
    <3>3. Unsent' = Unsent
      BY <1>1, <1>8, <2>2
    <3> QED
      BY <1>4, <1>12, <3>2, <3>3
  <2> QED
    BY <2>1, <2>2
<1>14. \A o \in ToSet(modem'["client"]) : o.op = "tx" => o.seq = Latest'
  BY <1>4, <1>8, <1>12
<1> QED
  BY <1>10, <1>11, <1>12, <1>13, <1>14 DEF Stepping

LEMMA ServerSendSteps ==
  ASSUME LendInv, LendInv', Stepping, NEW fate \in {"heard", "garbled", "lost"},
         NEW feedback \in BOOLEAN, Transmit("server", fate, feedback)
  PROVE  Stepping'
<1>1. /\ TypeOK /\ queue["client"] \in Seq(Events) /\ modem["server"] \in Seq(ServerOps)
      /\ Uncounted \in Nat
  BY StepTypes DEF LendInv
<1> DEFINE op == Head(modem["server"])
<1>2. /\ modem["server"] # <<>> /\ op \in ServerOps /\ op.op \in {"answer", "results"}
      /\ modem'["server"] = Tail(modem["server"]) /\ modem'["client"] = modem["client"]
      /\ queue'["server"] = queue["server"]
      /\ \/ queue'["client"] = queue["client"]
         \/ queue'["client"] = queue["client"] \o Received(op)
      /\ UNCHANGED <<on_going, client, harq, list>>
  BY <1>1, ServerSends
<1>3. /\ ToSet(modem'["server"]) \subseteq ToSet(modem["server"])
      /\ op.op = "answer" => op.seq \in Left
  BY <1>1, <1>2, HoldsTail, LeftHas
<1> HIDE DEF op
<1>4. PICK e \in Events : /\ Received(op) = <<e>> /\ e.id \in {"answer", "results"}
                          /\ e.id = "answer" => e.seq \in Left
  <2>1. op.seq \in Nat
    BY <1>2 DEF ServerOps
  <2>2. /\ Event("answer", op.seq) \in Events /\ Event("results", 0) \in Events
        /\ Event("answer", op.seq).seq = op.seq
        /\ Event("answer", op.seq).id = "answer" /\ Event("results", 0).id = "results"
    BY <2>1, EventType DEF EventIds
  <2>3. /\ op.op = "answer" => Received(op) = <<Event("answer", op.seq)>>
        /\ op.op = "results" => Received(op) = <<Event("results", 0)>>
    BY <1>1, <1>2, SentType
  <2> QED
    BY <1>2, <1>3, <2>2, <2>3
<1>5. /\ Uncounted' = Uncounted
      /\ \A x \in ToSet(queue'["client"]) : x \in ToSet(queue["client"]) \/ x = e
      /\ Ordered(queue["client"]) => Ordered(queue'["client"])
  <2>1. CASE queue'["client"] = queue["client"]
    BY <2>1 DEF Uncounted
  <2>2. CASE queue'["client"] = queue["client"] \o Received(op)
    <3> DEFINE b == <<e>>
    <3>1. b \in Seq(Events) /\ ToSet(b) = {e} /\ Number(b, TxEvents) = 0
      <4>1. e \notin TxEvents
        BY <1>4 DEF TxEvents
      <4> QED
        BY <4>1, HoldsSingle, NumberSingle
    <3>2. \A x \in ToSet(b) : x.id # "tx" /\ b = <<x>>
      BY <1>4, <3>1
    <3>3. queue'["client"] = queue["client"] \o b
      BY <1>4, <2>2
    <3> HIDE DEF b
    <3>4. /\ ToSet(queue'["client"]) = ToSet(queue["client"]) \cup {e}
          /\ Uncounted' = Uncounted + 0
      BY <1>1, <3>1, <3>3, HoldsConcat, NumberConcat DEF Uncounted
    <3>5. Uncounted' = Uncounted
      BY <1>1, <3>4
    <3>6. Ordered(queue["client"]) => Ordered(queue'["client"])
      BY <1>1, <3>1, <3>2, <3>3, OrderedConcat
    <3> QED
      BY <3>4, <3>5, <3>6
  <2> QED
    BY <1>2, <2>1, <2>2
<1>6. Unsent' = Unsent
  BY <1>2 DEF Unsent
<1>7. Left' \subseteq Left
  BY <1>1, <1>2, <1>3, <1>4, <1>5, LeftHas, LeftShrinks
<1>8. NextListed => NextListed'
  BY <1>2, <1>4, <1>5, ListedKept
<1> QED
  BY <1>1, <1>2, <1>5, <1>6, <1>7, <1>8, Calm

LEMMA RxEndsSteps ==
  ASSUME LendInv, LendInv', Stepping, NEW r \in Roles, NEW failed \in BOOLEAN, RxEnds(r, failed)
  PROVE  Stepping'
<1>1. /\ TypeOK /\ TypeOK' /\ queue["client"] \in Seq(Events) /\ modem["server"] \in Seq(ServerOps)
      /\ modem["client"] \in Seq(ClientOps) /\ queue["server"] \in Seq(Events)
      /\ Uncounted \in Nat /\ Unsent \in Nat
      /\ DOMAIN modem = Roles /\ DOMAIN queue = Roles
      /\ "client" \in Roles /\ "server" \in Roles /\ r \in {"client", "server"}
  BY StepTypes DEF LendInv, Roles
<1> DEFINE e == Event(IF failed THEN "failed" ELSE Current(r).op, 0)
<1>2. /\ Listens(r) /\ UNCHANGED <<on_going, client, harq, list>> /\ (failed => r = "server")
      /\ modem' = [modem EXCEPT ![r] = Tail(@)]
      /\ queue' = [queue EXCEPT ![r] = Put(r, <<e>>)]
  BY DEF RxEnds
<1>3. /\ modem[r] # <<>> /\ Current(r) \in ClientOps \cup ServerOps
      /\ Current(r).op \in {"rx", "results_rx", "server_rx"}
      /\ ToSet(modem[r]) = {Current(r)} \cup ToSet(Tail(modem[r]))
  <2>1. modem[r] # <<>> /\ Current(r).op \notin Sends
    BY <1>2 DEF Listens
  <2>2. Current(r) \in ClientOps \cup ServerOps /\ ToSet(modem[r]) = {Current(r)} \cup ToSet(Tail(modem[r]))
    BY <1>1, <2>1, HeadOfModem
  <2>3. Current(r).op \in {"rx", "results_rx", "server_rx"}
    BY <2>1, <2>2 DEF ClientOps, ServerOps, Sends
  <2> QED
    BY <2>1, <2>2, <2>3
<1>4. e \in Events /\ e.id \in {"failed", "rx", "results_rx", "server_rx"}
  <2> DEFINE id == IF failed THEN "failed" ELSE Current(r).op
  <2>1. id \in {"failed", "rx", "results_rx", "server_rx"}
    BY <1>3
  <2> HIDE DEF id
  <2>2. id \in EventIds
    BY <2>1 DEF EventIds
  <2>3. Event(id, 0) \in Events /\ Event(id, 0).id = id
    BY <2>2, EventType
  <2> QED
    BY <2>1, <2>3 DEF id
<1> HIDE DEF e
<1> DEFINE w == <<e>>
<1>5. w \in Seq(Events) /\ ToSet(w) = {e} /\ Number(w, TxEvents) = 0
  <2>1. e \notin TxEvents
    BY <1>4 DEF TxEvents
  <2> QED
    BY <1>4, <2>1, HoldsSingle, NumberSingle
<1>6. /\ modem'[r] = Tail(modem[r]) /\ queue'[r] = Put(r, w)
      /\ \A o \in Roles \ {r} : modem'[o] = modem[o] /\ queue'[o] = queue[o]
      /\ ToSet(modem'[r]) \subseteq ToSet(modem[r])
  BY <1>1, <1>2, <1>3
<1> HIDE DEF w
<1>7. ToSet(queue'[r]) \subseteq ToSet(queue[r]) \cup {e}
  BY <1>1, <1>5, <1>6, PutType
<1>8. CASE r = "server"
  <2>1. modem'["client"] = modem["client"] /\ queue'["client"] = queue["client"]
    BY <1>1, <1>6, <1>8
  <2>2. /\ \A op \in ToSet(modem'["server"]) : op.op = "answer" => op.seq \in Left
        /\ \A x \in ToSet(queue'["server"]) : x.id = "ping" => x.seq \in Left
    BY <1>1, <1>4, <1>6, <1>7, <1>8, LeftHas
  <2> QED
    BY <1>1, <1>2, <2>1, <2>2, ServerCalm
<1>9. CASE r = "client"
  <2>1. modem'["server"] = modem["server"] /\ queue'["server"] = queue["server"]
    BY <1>1, <1>6, <1>9
  <2>2. Unsent' = Unsent
    <3>1. Head(modem["client"]) \notin TxOps
      BY <1>3, <1>9 DEF Current, TxOps
    <3>2. modem["client"] # <<>> /\ modem'["client"] = Tail(modem["client"])
      BY <1>3, <1>6, <1>9
    <3>3. Number(modem["client"], TxOps) =
            Number(Tail(modem["client"]), TxOps) + IF Head(modem["client"]) \in TxOps THEN 1 ELSE 0
      BY <1>1, <3>2, NumberTail
    <3>4. Unsent = Unsent' + 0
      BY <3>1, <3>2, <3>3 DEF Unsent
    <3>5. Unsent' \in Nat
      BY <1>1, StepTypesAfter
    <3> QED
      BY <1>1, <3>4, <3>5, NothingMore
  <2>3. /\ Uncounted' = Uncounted
        /\ Ordered(queue["client"]) => Ordered(queue'["client"])
    <3>1. CASE tool["client"]
      <4>1. queue'["client"] = queue["client"] \o w
        BY <1>6, <1>9, <3>1 DEF Put
      <4>2. Uncounted' = Uncounted + 0
        BY <1>1, <1>5, <4>1, NumberConcat DEF Uncounted
      <4>3. Uncounted' = Uncounted
        BY <1>1, <4>2
      <4>4. \A x \in ToSet(w) : x.id # "tx" /\ x.id # "answer"
        BY <1>4, <1>5
      <4> QED
        BY <1>1, <1>5, <4>1, <4>3, <4>4, OrderedConcat
    <3>2. CASE ~tool["client"]
      <4>1. queue'["client"] = queue["client"]
        BY <1>6, <1>9, <3>2 DEF Put
      <4> QED
        BY <4>1 DEF Uncounted
    <3> QED
      BY <3>1, <3>2
  <2>4. Left' \subseteq Left
    BY <1>1, <1>2, <1>4, <1>6, <1>7, <1>9, <2>1, LeftHas, LeftShrinks
  <2>5. NextListed => NextListed'
    BY <1>2, <1>4, <1>7, <1>9, ListedKept
  <2>6. \A op \in ToSet(modem'["client"]) : op.op = "tx" => op \in ToSet(modem["client"])
    BY <1>6, <1>9
  <2> QED
    BY <1>1, <1>2, <2>2, <2>3, <2>4, <2>5, <2>6, Calm
<1> QED
  BY <1>1, <1>8, <1>9

LEMMA ModemSteps ==
  ASSUME LendInv, LendInv', Stepping, NEW r \in Roles, ModemRuns(r) PROVE Stepping'
<1>1. r \in {"client", "server"}
  BY DEF Roles
<1> QED
  BY <1>1, ClientSendSteps, ServerSendSteps, RxEndsSteps DEF ModemRuns

LEMMA ServerThreadSteps ==
  ASSUME LendInv, LendInv', Stepping, ServerRuns PROVE Stepping'
<1>1. /\ TypeOK /\ TypeOK' /\ DOMAIN queue = Roles /\ DOMAIN modem = Roles /\ Flags
      /\ "client" \in Roles /\ "server" \in Roles /\ server.on_going_rx_count \in Nat
      /\ queue["server"] \in Seq(Events)
  BY StepTypes, ComeType DEF LendInv, TypeOK, Roles
<1>2. PICK id : Takes("server", id)
  BY DEF ServerRuns, TakePing, TakeRequest, TakeServerRx, TakeFailed, TakeCmdDone, Handles
<1>3. /\ queue'["client"] = queue["client"]
      /\ ToSet(queue'["server"]) \subseteq ToSet(queue["server"])
      /\ Head(queue["server"]) \in ToSet(queue["server"]) /\ Head(queue["server"]) \in Events
  BY <1>1, <1>2, TakesType
<1>4. /\ \A op \in ToSet(modem["server"]) : op.op = "answer" => op.seq \in Left
      /\ \A e \in ToSet(queue["server"]) : e.id = "ping" => e.seq \in Left
  BY <1>1, LeftHas
<1>5. ASSUME UNCHANGED <<client, harq, list>>, on_going'["client"] = on_going["client"],
             modem'["client"] = modem["client"],
             \A op \in ToSet(modem'["server"]) : op.op = "answer" => op.seq \in Left
      PROVE  Stepping'
  BY <1>1, <1>3, <1>4, <1>5, ServerCalm
<1>6. ASSUME NEW taken \in BOOLEAN, TakePing(taken)
      PROVE  Stepping'
  <2> DEFINE seq == Head(queue["server"]).seq
  <2>1. /\ Takes("server", "ping") /\ Answers(AnswerOps(seq), taken)
        /\ UNCHANGED <<on_going, client, harq, list>>
    BY <1>6 DEF TakePing, Handles
  <2>2. seq \in Nat /\ seq \in Left
    BY <1>3, <1>4, <2>1 DEF Takes, Events
  <2> HIDE DEF seq
  <2>3. /\ modem'["client"] = modem["client"]
        /\ ToSet(modem'["server"]) \subseteq
             ToSet(modem["server"]) \cup {Op("answer", seq), Op("server_rx", 0)}
    BY <1>1, <2>1, <2>2, AnswersGive
  <2>4. \A op \in ToSet(modem'["server"]) : op.op = "answer" => op.seq \in Left
    BY <1>4, <2>2, <2>3 DEF Op
  <2> QED
    BY <1>5, <2>1, <2>3, <2>4
<1>7. ASSUME NEW taken \in BOOLEAN, TakeRequest(taken)
      PROVE  Stepping'
  <2>1. Results(taken) /\ UNCHANGED <<on_going, client, harq, list>>
    BY <1>7 DEF TakeRequest
  <2>2. /\ modem'["client"] = modem["client"]
        /\ ToSet(modem'["server"]) \subseteq
             ToSet(modem["server"]) \cup {Op("results", 0), Op("server_rx", 0)}
    BY <1>1, <2>1, ResultsGive
  <2>3. \A op \in ToSet(modem'["server"]) : op.op = "answer" => op.seq \in Left
    BY <1>4, <2>2 DEF Op
  <2> QED
    BY <1>5, <2>1, <2>2, <2>3
<1>8. ASSUME NEW taken \in BOOLEAN, ServerRestarts(taken), UNCHANGED <<client, harq, list, tool>>
      PROVE  Stepping'
  <2>1. /\ modem'["client"] = modem["client"] /\ on_going'["client"] = on_going["client"]
        /\ ToSet(modem'["server"]) \subseteq ToSet(modem["server"]) \cup {Op("server_rx", 0)}
    BY <1>8, RestartGives
  <2>2. \A op \in ToSet(modem'["server"]) : op.op = "answer" => op.seq \in Left
    BY <1>4, <2>1 DEF Op
  <2> QED
    BY <1>5, <1>8, <2>1, <2>2
<1>9. ASSUME UNCHANGED <<client, harq, list, modem>>, CmdDone("server") \/ on_going' = on_going
      PROVE  Stepping'
  <2>1. on_going'["client"] = on_going["client"]
    BY <1>1, <1>9 DEF CmdDone, Flags
  <2> QED
    BY <1>4, <1>5, <1>9, <2>1
<1>10. ASSUME NEW taken \in BOOLEAN, TakeServerRx(taken)
       PROVE  Stepping'
  <2>1. UNCHANGED <<client, harq, list, tool>>
    BY <1>10 DEF TakeServerRx
  <2>2. ServerRestarts(taken) \/ UNCHANGED <<on_going, modem>>
    BY <1>10 DEF TakeServerRx
  <2> QED
    BY <1>8, <1>9, <2>1, <2>2
<1>11. ASSUME NEW fast \in BOOLEAN, NEW taken \in BOOLEAN, TakeFailed(fast, taken)
       PROVE  Stepping'
  <2>1. UNCHANGED <<client, harq, list, tool>>
    BY <1>11 DEF TakeFailed
  <2>2. ServerRestarts(taken) \/ (CmdDone("server") /\ UNCHANGED modem)
    BY <1>11 DEF TakeFailed
  <2> QED
    BY <1>8, <1>9, <2>1, <2>2
<1>12. CASE TakeCmdDone
  BY <1>9, <1>12 DEF TakeCmdDone
<1> QED
  BY <1>6, <1>7, <1>10, <1>11, <1>12 DEF ServerRuns

LEMMA ControlSteps ==
  ASSUME LendInv, LendInv', Stepping, NEW r \in Roles, Drop(r) \/ TakeDone(r) PROVE Stepping'
<1>1. /\ TypeOK /\ DOMAIN queue = Roles /\ DOMAIN modem = Roles /\ queue \in [Roles -> Seq(Events)]
      /\ "client" \in Roles /\ "server" \in Roles /\ r \in {"client", "server"}
  BY StepTypes DEF LendInv, TypeOK, Roles
<1>2. /\ \A op \in ToSet(modem["server"]) : op.op = "answer" => op.seq \in Left
      /\ \A e \in ToSet(queue["server"]) : e.id = "ping" => e.seq \in Left
  BY <1>1, LeftHas
<1>3. ~on_going[r] /\ on_going' = on_going /\ UNCHANGED <<client, harq, list>>
  BY DEF Drop, TakeDone, LendInv, DoneIsOver
<1>4. CASE r = "client"
  BY <1>3, <1>4 DEF Stepping
<1>5. CASE r = "server"
  <2>1. CASE Drop(r)
    <3>1. queue[r] # <<>> /\ queue' = [queue EXCEPT ![r] = Tail(@)] /\ modem' = modem
      BY <2>1 DEF Drop
    <3>2. /\ queue'["client"] = queue["client"]
          /\ ToSet(queue'["server"]) \subseteq ToSet(queue["server"])
      BY <1>1, <1>5, <3>1, TakesGives
    <3> QED
      BY <1>1, <1>2, <1>3, <3>1, <3>2, ServerCalm
  <2>2. CASE TakeDone(r)
    <3>1. modem' = [modem EXCEPT ![r] = <<>>] /\ queue' = queue
      BY <2>2 DEF TakeDone
    <3>2. modem'["client"] = modem["client"] /\ ToSet(modem'["server"]) = {}
      BY <1>1, <1>5, <3>1, HoldsEmpty
    <3> QED
      BY <1>1, <1>2, <1>3, <3>1, <3>2, ServerCalm
  <2> QED
    BY <2>1, <2>2
<1> QED
  BY <1>1, <1>4, <1>5

LEMMA ShellSteps ==
  ASSUME LendInv, LendInv', Stepping, NEW r \in Roles, ShellGoesOn(r) PROVE Stepping'
<1>1. /\ TypeOK /\ TypeOK' /\ DOMAIN queue = Roles /\ "client" \in Roles /\ "server" \in Roles
      /\ queue["server"] \in Seq(Events)
  BY StepTypes DEF LendInv, Roles
<1>2. /\ \A op \in ToSet(modem["server"]) : op.op = "answer" => op.seq \in Left
      /\ \A e \in ToSet(queue["server"]) : e.id = "ping" => e.seq \in Left
  BY <1>1, LeftHas
<1>3. ASSUME NEW taken \in 0 .. 2, StopClient(taken)
      PROVE  Stepping'
  <2>1. UNCHANGED <<harq, queue, tool, hitch>>
    BY <1>3 DEF StopClient
  <2>2. CASE client.requested
    <3>1. UNCHANGED <<on_going, client, list, modem>>
      BY <1>3, <2>2 DEF StopClient
    <3> QED
      BY <1>1, <1>2, <2>1, <3>1, ServerCalm
  <2>3. CASE ~client.requested
    <3>1. Report(taken)
      BY <1>3, <2>3 DEF StopClient
    <3>2. Uncounted' = Uncounted
      BY <2>1 DEF Uncounted
    <3> QED
      BY <2>1, <3>1, <3>2, ReportSteps
  <2> QED
    BY <2>2, <2>3
<1>4. ASSUME NEW id \in {"report", "cmd_done"},
             queue' = [queue EXCEPT !["server"] = Append(@, Event(id, 0))],
             UNCHANGED <<on_going, client, harq, list, modem>>
      PROVE  Stepping'
  <2>1. Event(id, 0) \in Events /\ Event(id, 0).id # "ping"
    BY EventType DEF EventIds
  <2>2. /\ queue'["client"] = queue["client"]
        /\ queue'["server"] = Append(queue["server"], Event(id, 0))
    BY <1>1, <1>4
  <2>3. ToSet(queue'["server"]) = ToSet(queue["server"]) \cup {Event(id, 0)}
    BY <1>1, <2>1, <2>2, HoldsAppend
  <2> QED
    BY <1>1, <1>2, <1>4, <2>1, <2>2, <2>3, ServerCalm
<1>5. CASE StopServer \/ StopServerEnds
  <2>1. /\ UNCHANGED <<on_going, client, harq, list, modem>>
        /\ \E id \in {"report", "cmd_done"} :
             queue' = [queue EXCEPT !["server"] = Append(@, Event(id, 0))]
    BY <1>5 DEF StopServer, StopServerEnds
  <2> QED
    BY <1>4, <2>1
<1> QED
  BY <1>3, <1>5 DEF ShellGoesOn

LEMMA UserSteps ==
  ASSUME LendInv, LendInv', Stepping, User PROVE Stepping'
<1>1. /\ TypeOK /\ TypeOK' /\ DOMAIN queue = Roles /\ DOMAIN modem = Roles /\ Flags
      /\ "client" \in Roles /\ "server" \in Roles
  BY StepTypes DEF LendInv, TypeOK, Roles
<1>2. /\ \A op \in ToSet(modem["server"]) : op.op = "answer" => op.seq \in Left
      /\ \A e \in ToSet(queue["server"]) : e.id = "ping" => e.seq \in Left
  BY <1>1, LeftHas
<1>3. ASSUME NEW useHarq \in BOOLEAN, NEW listed \in BOOLEAN, StartClient(useHarq, listed)
      PROVE  Stepping'
  <2>1. /\ queue["client"] = <<>> /\ ~Answering /\ list.retx = {}
        /\ client' = [NoClient EXCEPT !.harq = useHarq, !.next = 1]
        /\ list' = [list EXCEPT !.left = IF listed THEN Pings ELSE 0, !.seq = 1]
        /\ modem' = [modem EXCEPT !["client"] = <<>>] /\ queue' = queue
    BY <1>3 DEF StartClient, StartPing, Shell
  <2>2. modem'["client"] = <<>> /\ modem'["server"] = modem["server"] /\ queue'["client"] = <<>>
    BY <1>1, <2>1
  <2>3. /\ Unsent' = 0 /\ Uncounted' = 0
        /\ ToSet(modem'["client"]) = {} /\ ToSet(queue'["client"]) = {}
    BY <2>2, NumberEmpty, HoldsEmpty DEF Unsent, Uncounted
  <2>4. list'.retx = {} /\ list'.seq = 1 /\ client'.next = 1 /\ client'.intervals_done = FALSE
    BY <1>1, <2>1 DEF TypeOK, Data, NoClient
  <2>5. /\ \A op \in ToSet(modem["server"]) : op.op # "answer"
        /\ \A e \in ToSet(queue["server"]) : e.id # "ping"
    BY <2>1 DEF Answering, ToSet
  <2>6. Left' \subseteq {}
    BY <2>1, <2>2, <2>3, <2>4, <2>5, LeftShrinks
  <2>7. NextListed'
    BY <2>3, <2>4 DEF NextListed
  <2>8. Ordered(queue'["client"])
    BY <2>2, OrderedEmpty
  <2> QED
    BY <2>3, <2>6, <2>7, <2>8 DEF Stepping
<1>4. ASSUME NEW taken \in BOOLEAN, StartServer(taken)
      PROVE  Stepping'
  <2>1. /\ on_going' = [on_going EXCEPT !["server"] = taken] /\ UNCHANGED <<client, harq, list, queue>>
        /\ modem' = [modem EXCEPT !["server"] = IF taken THEN <<Op("server_rx", 0)>> ELSE <<>>]
    BY <1>4 DEF StartServer
  <2>2. on_going'["client"] = on_going["client"] /\ modem'["client"] = modem["client"]
    BY <1>1, <2>1 DEF Flags
  <2>3. \A op \in ToSet(modem'["server"]) : op.op # "answer"
    <3>1. Op("server_rx", 0).op # "answer"
      BY DEF Op
    <3>2. modem'["server"] = <<Op("server_rx", 0)>> \/ modem'["server"] = <<>>
      BY <1>1, <2>1
    <3> QED
      BY <3>1, <3>2, HoldsSingle, HoldsEmpty
  <2> QED
    BY <1>1, <1>2, <2>1, <2>2, <2>3, ServerCalm
<1>5. ASSUME NEW o \in Roles, Stop(o)
      PROVE  Stepping'
  <2>1. UNCHANGED <<on_going, client, harq, list, modem, queue>>
    BY <1>5 DEF Stop
  <2> QED
    BY <1>1, <1>2, <2>1, ServerCalm
<1> QED
  BY <1>3, <1>4, <1>5 DEF User

\* The answers the client takes are to its latest ping, for any number of pings,
\* commands and troubles and queues of any length.
THEOREM AnswersAreToTheLatest == PingSpec => []InStep
<1>1. PingInit => StepInv
  <2>1. PingInit => LendInv
    BY InitLends
  <2>2. PingInit => Stepping
    BY DEF PingInit, Stepping, Roles
  <2> QED
    BY <2>1, <2>2 DEF StepInv
<1>2. StepInv /\ [PingNext]_vars => StepInv'
  <2> SUFFICES ASSUME StepInv, [PingNext]_vars
               PROVE  StepInv'
    OBVIOUS
  <2>1. LendInv /\ Stepping /\ LendInv'
    BY PingAssumption, NextLends DEF StepInv
  <2>2. ASSUME UNCHANGED vars
        PROVE  Stepping'
    <3>1. UNCHANGED <<on_going, client, harq, list, modem, queue>>
      BY <2>2 DEF vars
    <3>2. TypeOK
      BY <2>1 DEF LendInv
    <3> QED
      BY <2>1, <3>1, <3>2, LeftHas, ServerCalm
  <2>3. ASSUME NEW r \in Roles, Device(r) \/ ModemRuns(r)
        PROVE  Stepping'
    BY <2>1, <2>3, ModemSteps, ServerThreadSteps, ClientSteps, ControlSteps, ShellSteps DEF Device
  <2>4. Stepping'
    BY <2>1, <2>2, <2>3, UserSteps, SchedulerSteps DEF PingNext
  <2> QED
    BY <2>1, <2>4 DEF StepInv
<1>3. StepInv => InStep
  <2> SUFFICES ASSUME LendInv, Stepping, on_going["client"], queue["client"] # <<>>,
                      Head(queue["client"]).id = "answer"
               PROVE  Head(queue["client"]).seq = client.next - 1
    BY DEF StepInv, InStep
  <2>1. /\ Left \subseteq {Latest} /\ (Unsent > 0 => Left = {}) /\ Ordered(queue["client"])
    BY DEF Stepping
  <2>2. /\ queue["client"] \in Seq(Events) /\ Unsent \in Nat /\ client.next \in Nat
    BY StepTypes DEF LendInv
  <2> DEFINE s == queue["client"]
  <2>3. Head(s) \in ToSet(s)
    BY <2>2, HoldsTail
  <2>4. Head(s).seq \in Left
    BY <2>3, LeftHas DEF LendInv
  <2>5. Unsent = 0 /\ Head(s).seq = Latest
    BY <2>1, <2>2, <2>4
  <2>6. \A i \in DOMAIN s : s[i] \notin TxEvents
    <3>1. /\ Len(s) \in Nat \ {0} /\ DOMAIN s = 1 .. Len(s) /\ Head(s) = s[1]
      BY <2>2, EmptySeq, LenProperties, HeadTailProperties
    <3> SUFFICES ASSUME NEW i \in DOMAIN s, s[i].id = "tx"
                 PROVE  FALSE
      BY DEF TxEvents
    <3> HIDE DEF s
    <3>2. 1 \in DOMAIN s /\ s[1].id = "answer" /\ i # 1
      BY <3>1 DEF s
    <3>3. 1 < i
      BY <3>1, <3>2
    <3> QED
      BY <2>1, <3>2, <3>3 DEF Ordered, s
  <2>7. Uncounted = 0
    BY <2>2, <2>6, NumberType DEF Uncounted
  <2>8. Latest = client.next - 1
    BY <2>2, <2>5, <2>7 DEF Latest
  <2> QED
    BY <2>5, <2>8
<1> QED
  BY <1>1, <1>2, <1>3, PTL DEF PingSpec
================================================================================
