------------------------------- MODULE PerfProofs -------------------------------
(***************************************************************************)
(* The perf tool, for any number of HARQ processes, window, handles and    *)
(* bounds: control lends its modem exactly to a perf (LendInv), and, on    *)
(* that, a client always has something that drives it and a server an RX   *)
(* or its results (ClientRun and ServerRun, together Runs). From these and *)
(* from what the TXs of a client are told apart by (ApartInv), its TXs     *)
(* stay apart, when there are handles enough (HandlesReach).               *)
(***************************************************************************)
EXTENDS Perf, SeqFacts

--------------------------------------------------------------------------------
(* Types.                                                                  *)

Rxs == [op : {"server_rx"}, until : Int, heard : {"nothing", "header", "data"}, lost : BOOLEAN]
RxEvents == {Event("server_rx"), RxFailed(TRUE), RxFailed(FALSE)}

ClientData == [requested : BOOLEAN, handle : Nat \ {0}, starting : Nat, middle : Int]
ServerData == [sent : BOOLEAN, count : Nat, enabled : Nat]
USE DEF ClientData, ServerData

\* What the tool remembers.
Remembers ==
  /\ perf \in [on_going : BOOLEAN, role : {"client", "server"}, use_harq : BOOLEAN, usable : Nat,
               started : Nat, duration : Int]
  /\ client \in ClientData
  /\ server \in ServerData
  /\ tool \in BOOLEAN /\ done \in BOOLEAN /\ timer \in BOOLEAN /\ hitch \in BOOLEAN /\ now \in Nat

Lists ==
  /\ modem \in Seq(ToSet(modem)) /\ queue \in Seq(ToSet(queue))
  /\ \A op \in ToSet(modem) : op.op = "server_rx" => op \in Rxs
  /\ \A event \in ToSet(queue) : event.id \in {"server_rx", "server_rx_failed"} => event \in RxEvents

\* A perf is over when control is told, and has the modem until then.
LendInv == Remembers /\ ToolAgrees /\ (done => ~perf.on_going)

\* The RX for the results is to come.
Awaited ==
  \/ \E op \in ToSet(modem) : op.op = "results_rx"
  \/ \E event \in ToSet(queue) : event.id = "results_rx"

\* What drives a client, and the shell and a lost round that excuse it.
Driven ==
  \/ \E op \in ToSet(modem) : op.op = "tx" /\ op.handle \in {client.starting, client.middle}
  \/ \E event \in ToSet(queue) :
       event.id = "tx" /\ event.handle \in {client.starting, client.middle}
  \/ \E event \in ToSet(queue) : event.id = "timer"
  \/ timer \/ hitch \/ shell # "idle" \/ Awaited

ClientOnly ==
  /\ \A op \in ToSet(modem) : op.op \in {"tx", "request", "results_rx"}
  /\ \A event \in ToSet(queue) : event.id \in {"tx", "feedback", "timer", "results_rx"}

\* A client on going: only its own operations and events are about, something drives
\* it, and results it has requested are awaited.
ClientRun ==
  /\ ClientOnly /\ Driven
  /\ client.requested => Awaited
  /\ shell # "report"

\* The RX that a server may count on, and its results.
ToCome == Number(modem, Rxs) + Number(queue, RxEvents)
Sending ==
  \/ \E op \in ToSet(modem) : op.op = "results"
  \/ \E event \in ToSet(queue) : event.id = "results"
Ended == \E event \in ToSet(queue) : event.id = "cmd_done"

\* A server on going counts no RX that is not to come, and has one or sends results
\* unless it is about to end.
ServerRun ==
  /\ server.sent => Sending
  /\ Ended \/ (server.count <= ToCome /\ (ToCome >= 1 \/ Sending))

Runs ==
  /\ Lists
  /\ perf.on_going /\ perf.role = "client" => ClientRun
  /\ perf.on_going /\ perf.role = "server" => ServerRun

PerfInv == LendInv /\ Runs

--------------------------------------------------------------------------------
(* Handles, and what a round of the client leaves.                          *)

\* dect_phy_perf_time_secs_left() gives a number.
LEMMA SecsLeftType == ASSUME Remembers PROVE SecsLeft \in Int
BY DEF Remembers, SecsLeft, Infinite

\* A handle that is wrapped is one of the handles.
LEMMA WrappedType ==
  ASSUME PerfAssumption, NEW h \in Nat \ {0}
  PROVE  Wrapped(h) \in 1 .. LastHandle
BY DEF Wrapped, PerfAssumption

\* Every TX of a round has one of the handles, the first the wrapped one.
LEMMA RoundHandleType ==
  ASSUME PerfAssumption, Remembers, NEW i \in Nat
  PROVE  /\ RoundHandle(i) \in 1 .. LastHandle
         /\ RoundHandle(1) = Wrapped(client.handle)
<1> DEFINE h == Wrapped(client.handle)
<1>1. h \in 1 .. LastHandle /\ LastHandle \in Nat \ {0}
  BY WrappedType DEF Remembers, PerfAssumption
<1>2. (h + i - 2) % LastHandle \in 0 .. LastHandle - 1
  BY <1>1
<1>3. (h - 1) % LastHandle = h - 1
  BY <1>1
<1>4. h + 1 - 2 = h - 1 /\ h - 1 + 1 = h
  BY <1>1
<1>5. RoundHandle(i) = ((h + i - 2) % LastHandle) + 1 /\ RoundHandle(1) = ((h + 1 - 2) % LastHandle) + 1
  BY DEF RoundHandle
<1> HIDE DEF h
<1>6. RoundHandle(1) = h
  BY <1>3, <1>4, <1>5
<1>7. RoundHandle(i) \in 1 .. LastHandle
  BY <1>1, <1>2, <1>5
<1> QED
  BY <1>6, <1>7 DEF h

\* A round leaves a handle to go on with.
LEMMA NextHandleType ==
  ASSUME PerfAssumption, Remembers, NEW sent \in Nat, NEW window \in Nat
  PROVE  NextHandle(sent, window) \in Nat \ {0}
<1>1. RoundHandle(sent) + 1 \in Nat \ {0}
  BY RoundHandleType DEF PerfAssumption
<1>2. Wrapped(RoundHandle(sent) + 1) \in Nat \ {0} /\ Wrapped(client.handle) \in Nat \ {0}
  BY <1>1, WrappedType DEF Remembers, PerfAssumption
<1> QED
  BY <1>1, <1>2 DEF NextHandle

\* A list of TXs: no RX of a server is among them.
LEMMA TxsListed ==
  ASSUME NEW n \in Nat, NEW t, t = [i \in 1 .. n |-> t[i]], \A i \in 1 .. n : t[i].op = "tx"
  PROVE  /\ IsList(t) /\ \A op \in ToSet(t) : op.op = "tx"
         /\ Number(t, Rxs) = 0
         /\ n # 0 => t[1] \in ToSet(t)
<1>1. DOMAIN t = 1 .. n
  OBVIOUS
<1>2. t \in [1 .. n -> ToSet(t)]
  BY <1>1 DEF ToSet
<1>3. IsList(t)
  BY <1>2, SeqDef DEF IsList
<1>4. \A op \in ToSet(t) : op.op = "tx"
  BY <1>1 DEF ToSet
<1>5. ToSet(t) \cap Rxs = {}
  BY <1>4 DEF Rxs
<1>6. Number(t, Rxs) = 0
  BY <1>3, <1>5, ListNumber
<1> QED
  BY <1>1, <1>3, <1>4, <1>6 DEF ToSet

\* What the modem took of a round is added to what it does.
LEMMA TxsAdded ==
  ASSUME NEW s, IsList(s), NEW n \in Nat, NEW t, t = [i \in 1 .. n |-> t[i]],
         \A i \in 1 .. n : t[i].op = "tx"
  PROVE  /\ IsList(s \o t) /\ ToSet(s) \subseteq ToSet(s \o t)
         /\ \A op \in ToSet(s \o t) : op \in ToSet(s) \/ op.op = "tx"
         /\ Number(s \o t, Rxs) = Number(s, Rxs)
         /\ n # 0 => t[1] \in ToSet(s \o t)
<1>1. /\ IsList(t) /\ \A op \in ToSet(t) : op.op = "tx"
      /\ Number(t, Rxs) = 0 /\ (n # 0 => t[1] \in ToSet(t))
  BY TxsListed
<1>2. /\ IsList(s \o t) /\ ToSet(s \o t) = ToSet(s) \cup ToSet(t)
      /\ Number(s \o t, Rxs) = Number(s, Rxs) + Number(t, Rxs)
  BY <1>1, ListConcat
<1>3. Number(s, Rxs) \in Nat
  BY ListNumber
<1>4. Number(s \o t, Rxs) = Number(s, Rxs)
  BY <1>1, <1>2, <1>3
<1> QED
  BY <1>1, <1>2, <1>4

\* A round leaves a client that something drives.
RoundDone ==
  /\ client' \in [requested : {client.requested}, handle : Nat \ {0}, starting : Nat, middle : Int]
  /\ IsList(modem') /\ ToSet(modem) \subseteq ToSet(modem')
  /\ \A op \in ToSet(modem') : op \in ToSet(modem) \/ op.op = "tx"
  /\ Number(modem', Rxs) = Number(modem, Rxs)
  /\ timer' \in BOOLEAN /\ (timer => timer') /\ hitch' \in BOOLEAN /\ (hitch => hitch')
  /\ \/ timer' \/ hitch' \/ shell # "idle"
     \/ \E op \in ToSet(modem') : op.op = "tx" /\ op.handle = client'.starting

\* dect_phy_perf_client_tx_no_harq().
LEMMA PlainRound ==
  ASSUME PerfAssumption, Remembers, Lists, NEW sent \in Nat, TxNoHarq(sent)
  PROVE  RoundDone
<1>1. PICK txs : txs = [i \in 1 .. sent |-> Tx(RoundHandle(i), Nobody)]
  OBVIOUS
<1>2. /\ client' = [client EXCEPT !.starting = Wrapped(client.handle), !.handle = NextHandle(sent, Window)]
      /\ modem' = modem \o txs /\ timer' = timer
      /\ hitch' = (hitch \/ (sent = 0 /\ shell = "idle"))
  BY <1>1 DEF TxNoHarq, Refused
<1>3. Wrapped(client.handle) \in Nat /\ NextHandle(sent, Window) \in Nat \ {0}
  <2>1. Wrapped(client.handle) \in Nat
    BY WrappedType DEF PerfAssumption, Remembers
  <2>2. Window \in Nat
    BY DEF PerfAssumption
  <2> QED
    BY <2>1, <2>2, NextHandleType
<1>4. client' \in [requested : {client.requested}, handle : Nat \ {0}, starting : Nat, middle : Int]
      /\ client'.starting = Wrapped(client.handle)
  BY <1>2, <1>3 DEF Remembers
<1>5. txs = [i \in 1 .. sent |-> txs[i]] /\ \A i \in 1 .. sent : txs[i].op = "tx"
  BY <1>1 DEF Tx
<1>6. IsList(modem)
  BY DEF Lists, IsList
<1>7. /\ IsList(modem') /\ ToSet(modem) \subseteq ToSet(modem')
      /\ \A op \in ToSet(modem') : op \in ToSet(modem) \/ op.op = "tx"
      /\ Number(modem', Rxs) = Number(modem, Rxs)
      /\ sent # 0 => txs[1] \in ToSet(modem')
  BY <1>2, <1>5, <1>6, TxsAdded
<1>8. sent # 0 => txs[1].op = "tx" /\ txs[1].handle = Wrapped(client.handle)
  BY <1>1, RoundHandleType DEF Tx
<1>9. sent # 0 => \E op \in ToSet(modem') : op.op = "tx" /\ op.handle = client'.starting
  BY <1>4, <1>7, <1>8
<1> QED
  BY <1>2, <1>4, <1>7, <1>9 DEF RoundDone, Remembers

\* dect_phy_perf_client_tx_with_harq(), with free processes and without.
LEMMA HarqRound ==
  ASSUME PerfAssumption, Remembers, Lists, NEW sent \in Nat, TxWithHarq(sent)
  PROVE  RoundDone
<1>0. IsList(modem)
  BY DEF Lists, IsList
<1>1. CASE FreeProcesses = <<>>
  <2>1. timer' = TRUE /\ client' = client /\ modem' = modem /\ hitch' = hitch
    BY <1>1 DEF TxWithHarq, WindowFull
  <2>2. client' \in [requested : {client.requested}, handle : Nat \ {0}, starting : Nat, middle : Int]
    BY <2>1 DEF Remembers
  <2> QED
    BY <1>0, <2>1, <2>2 DEF RoundDone, Remembers
<1>2. CASE FreeProcesses # <<>>
  <2> DEFINE last == NextHandle(sent, Len(FreeProcesses))
  <2>1. PICK txs : txs = [i \in 1 .. sent |-> Tx(RoundHandle(i), FreeProcesses[i])]
    OBVIOUS
  <2>2. /\ client' = [client EXCEPT !.starting = Wrapped(client.handle), !.handle = last,
                                    !.middle = (client.handle + last - 1) \div 2]
        /\ modem' = modem \o txs /\ timer' = timer
        /\ hitch' = (hitch \/ (sent = 0 /\ shell = "idle"))
    BY <1>2, <2>1 DEF TxWithHarq, Refused
  <2>3. last \in Nat \ {0} /\ Wrapped(client.handle) \in Nat /\ client.handle \in Nat
    <3>1. Wrapped(client.handle) \in Nat \ {0} /\ client.handle \in Nat
      BY WrappedType DEF PerfAssumption, Remembers
    <3>2. RoundHandle(sent) + 1 \in Nat \ {0} /\ Wrapped(RoundHandle(sent) + 1) \in Nat \ {0}
      BY RoundHandleType, WrappedType DEF PerfAssumption
    <3> QED
      BY <3>1, <3>2 DEF NextHandle
  <2> HIDE DEF last
  <2>4. (client.handle + last - 1) \div 2 \in Int
    BY <2>3
  <2>5. client' \in [requested : {client.requested}, handle : Nat \ {0}, starting : Nat, middle : Int]
        /\ client'.starting = Wrapped(client.handle)
    BY <2>2, <2>3, <2>4 DEF Remembers
  <2>6. txs = [i \in 1 .. sent |-> txs[i]] /\ \A i \in 1 .. sent : txs[i].op = "tx"
    BY <2>1 DEF Tx
  <2>7. /\ IsList(modem') /\ ToSet(modem) \subseteq ToSet(modem')
        /\ \A op \in ToSet(modem') : op \in ToSet(modem) \/ op.op = "tx"
        /\ Number(modem', Rxs) = Number(modem, Rxs)
        /\ sent # 0 => txs[1] \in ToSet(modem')
    BY <1>0, <2>2, <2>6, TxsAdded
  <2>8. sent # 0 => txs[1].op = "tx" /\ txs[1].handle = Wrapped(client.handle)
    BY <2>1, RoundHandleType DEF Tx
  <2>9. sent # 0 => \E op \in ToSet(modem') : op.op = "tx" /\ op.handle = client'.starting
    BY <2>5, <2>7, <2>8
  <2> QED
    BY <2>2, <2>5, <2>7, <2>9 DEF RoundDone, Remembers
<1> QED
  BY <1>1, <1>2

\* A round of either kind.
LEMMA RoundDrives ==
  ASSUME PerfAssumption, Remembers, Lists, NEW sent \in Nat, ClientTx(sent) \/ TxWithHarq(sent)
  PROVE  RoundDone
BY PlainRound, HarqRound DEF ClientTx

--------------------------------------------------------------------------------
(* Who has the modem, and since when.                                       *)

\* dect_phy_perf_cmd_done() tells control of a perf that was on going.
LEMMA CmdDoneLends ==
  ASSUME LendInv, CmdDone, UNCHANGED <<client, timer, tool, hitch, now>>,
         server' \in ServerData
  PROVE  LendInv'
BY DEF LendInv, Remembers, ToolAgrees, CmdDone

\* The stop of a client sets its duration.
LEMMA NoTimeLends ==
  ASSUME LendInv, NoTime, UNCHANGED <<timer, tool, hitch, now, server>>,
         client' \in ClientData
  PROVE  LendInv'
BY DEF LendInv, Remembers, ToolAgrees, NoTime

\* A round leaves the perf on.
LEMMA RoundLends ==
  ASSUME LendInv, RoundDone, UNCHANGED <<perf, server, tool, done, now>>
  PROVE  LendInv'
BY DEF LendInv, Remembers, ToolAgrees, RoundDone

\* A server goes on, or is over when the modem takes no RX.
LEMMA RxStartLends ==
  ASSUME LendInv, NEW duration, NEW taken \in BOOLEAN, NEW data, NEW ops,
         data \in ServerData,
         RxStart(duration, taken, data, ops),
         perf' \in [on_going : {perf.on_going /\ taken},
           role : {"client", "server"}, use_harq : BOOLEAN, usable : Nat, started : Nat, duration : Int],
         client' \in ClientData,
         UNCHANGED <<timer, tool, done, now>>
  PROVE  LendInv'
<1>1. server' \in ServerData /\ hitch' \in BOOLEAN
  <2>1. CASE taken
    <3>1. server' = [data EXCEPT !.count = @ + 1, !.enabled = now] /\ hitch' = hitch
      BY <2>1 DEF RxStart
    <3>2. now \in Nat /\ hitch \in BOOLEAN
      BY DEF LendInv, Remembers
    <3>3. server' \in ServerData
      <4>1. PICK m \in Nat : m = data.count + 1
        OBVIOUS
      <4>2. [data EXCEPT !.count = m, !.enabled = now] \in ServerData
        BY <3>2
      <4> QED
        BY <3>1, <4>1, <4>2, Zenon
    <3> QED
      BY <3>1, <3>2, <3>3
  <2>2. CASE ~taken
    BY <2>2 DEF RxStart, LendInv, Remembers
  <2> QED
    BY <2>1, <2>2
<1>2. Remembers'
  BY <1>1 DEF LendInv, Remembers
<1>3. CASE taken
  BY <1>2, <1>3 DEF RxStart, LendInv, Remembers, ToolAgrees
<1>4. CASE ~taken
  BY <1>2, <1>4 DEF RxStart, LendInv, Remembers, ToolAgrees
<1> QED
  BY <1>3, <1>4

\* One counted RX less is a state of the server.
LEMMA FewerType == ASSUME Remembers PROVE Fewer \in ServerData
BY DEF Remembers, Fewer

\* The results are requested, or the perf is over and control is told.
LEMMA RequestLends ==
  ASSUME LendInv, NEW taken, UNCHANGED <<timer, tool, hitch, now, server>>,
         Request(taken, UNCHANGED <<perf, done>>) \/ Request(taken, NoTime)
  PROVE  LendInv'
<1>1. client' \in ClientData
  BY DEF Request, LendInv, Remembers
<1>2. CASE taken = 2
  <2>1. CASE UNCHANGED <<perf, done>>
    BY <1>1, <2>1 DEF LendInv, Remembers, ToolAgrees
  <2>2. CASE NoTime
    BY <1>1, <2>2, NoTimeLends
  <2> QED
    BY <1>2, <2>1, <2>2 DEF Request
<1>3. CASE taken # 2
  <2>1. CmdDone /\ UNCHANGED client
    BY <1>3 DEF Request
  <2>2. server' \in ServerData
    BY DEF LendInv, Remembers
  <2> QED
    BY <2>1, <2>2, CmdDoneLends
<1> QED
  BY <1>2, <1>3

\* The same, of a client that may have requested them before.
LEMMA ReportLends ==
  ASSUME LendInv, NEW taken, UNCHANGED <<timer, tool, hitch, now, server>>,
         Report(taken, UNCHANGED <<perf, done>>) \/ Report(taken, NoTime)
  PROVE  LendInv'
<1>1. CASE client.requested
  <2>1. UNCHANGED <<perf, done, client>> \/ (NoTime /\ UNCHANGED client)
    BY <1>1 DEF Report
  <2>2. client' \in ClientData
    BY <2>1 DEF LendInv, Remembers
  <2>3. CASE NoTime
    BY <2>2, <2>3, NoTimeLends
  <2>4. CASE UNCHANGED <<perf, done>>
    BY <2>2, <2>4 DEF LendInv, Remembers, ToolAgrees
  <2> QED
    BY <2>1, <2>3, <2>4
<1>2. CASE ~client.requested
  <2>1. Request(taken, UNCHANGED <<perf, done>>) \/ Request(taken, NoTime)
    BY <1>2 DEF Report
  <2> QED
    BY <2>1, RequestLends
<1> QED
  BY <1>1, <1>2

\* The server goes on, or is over without a word: hitch.
LEMMA RestartLends ==
  ASSUME LendInv, NEW taken \in BOOLEAN, perf.on_going, Restart(taken),
         UNCHANGED <<client, timer, tool, done, now>>
  PROVE  LendInv'
<1>1. SecsLeft \in Int /\ Fewer \in ServerData
  BY SecsLeftType, FewerType DEF LendInv
<1>2. perf' \in [on_going : {perf.on_going /\ taken}, role : {"client", "server"}, use_harq : BOOLEAN,
                 usable : Nat, started : Nat, duration : Int]
  BY <1>1 DEF Restart, LendInv, Remembers
<1>3. client' \in ClientData
  BY DEF LendInv, Remembers
<1> QED
  BY <1>1, <1>2, <1>3, RxStartLends DEF Restart

\* The same, after it has sent its results.
LEMMA RestartAfterResultsLends ==
  ASSUME LendInv, NEW taken \in BOOLEAN, perf.on_going, RestartAfterResults(taken),
         UNCHANGED <<timer, tool, done, now>>
  PROVE  LendInv'
<1>1. SecsLeft \in Int /\ NoServer \in ServerData
  BY SecsLeftType DEF LendInv, NoServer
<1>2. perf' \in [on_going : {perf.on_going /\ taken}, role : {"client", "server"}, use_harq : BOOLEAN,
                 usable : Nat, started : Nat, duration : Int]
  BY <1>1 DEF RestartAfterResults, LendInv, Remembers
<1>3. client' \in ClientData
  BY DEF RestartAfterResults, NoClient
<1> QED
  BY <1>1, <1>2, <1>3, RxStartLends DEF RestartAfterResults

\* Nothing happens to the run.
LEMMA LendKept ==
  ASSUME LendInv, UNCHANGED <<perf, client, server, tool, done, hitch, now>>, timer' \in BOOLEAN
  PROVE  LendInv'
BY DEF LendInv, Remembers, ToolAgrees

\* Who has the modem, and since when, through the client's thread.
LEMMA ClientRunsLends ==
  ASSUME PerfAssumption, LendInv, Lists, ClientRuns
  PROVE  LendInv'
<1>0. timer \in BOOLEAN /\ server \in ServerData /\ Rounds \subseteq Nat
  BY DEF LendInv, Remembers, Rounds
<1>1. ASSUME NEW sent \in Rounds, NEW taken \in 0 .. 2, TakeTx(sent, taken)
      PROVE  LendInv'
  <2>1. CASE TimeIsOver
    <3>1. Report(taken, UNCHANGED <<perf, done>>) /\ UNCHANGED <<timer, tool, hitch, now, server>>
      BY <1>1, <2>1 DEF TakeTx
    <3> QED
      BY <3>1, ReportLends
  <2>2. CASE ~TimeIsOver /\ Drives(Head(queue).handle)
    <3>1. ClientTx(sent) /\ UNCHANGED <<perf, server, tool, done, now>>
      BY <1>1, <2>2 DEF TakeTx
    <3>2. RoundDone
      BY <1>0, <3>1, RoundDrives DEF LendInv
    <3> QED
      BY <3>1, <3>2, RoundLends
  <2>3. CASE ~TimeIsOver /\ ~Drives(Head(queue).handle)
    BY <1>0, <1>1, <2>3, LendKept DEF TakeTx
  <2> QED
    BY <2>1, <2>2, <2>3
<1>2. ASSUME NEW sent \in Rounds, TakeTimer(sent)
      PROVE  LendInv'
  <2>1. CASE perf.role = "client"
    <3>1. TxWithHarq(sent) /\ UNCHANGED <<perf, server, tool, done, now>>
      BY <1>2, <2>1 DEF TakeTimer, users
    <3>2. RoundDone
      BY <1>0, <3>1, RoundDrives DEF LendInv
    <3> QED
      BY <3>1, <3>2, RoundLends
  <2>2. CASE perf.role # "client"
    BY <1>2, <2>2 DEF TakeTimer, users, LendInv, Remembers, ToolAgrees
  <2> QED
    BY <2>1, <2>2
<1>3. ASSUME NEW taken \in 0 .. 2, TakeTimeout(taken)
      PROVE  LendInv'
  <2>1. CASE perf.role = "client"
    <3>1. Report(taken, NoTime) /\ UNCHANGED <<timer, tool, hitch, now, server>>
      BY <1>3, <2>1 DEF TakeTimeout
    <3> QED
      BY <3>1, ReportLends
  <2>2. CASE perf.role # "client"
    <3>1. server' = Fewer /\ UNCHANGED <<perf, client, timer, tool, done, hitch, now>>
      BY <1>3, <2>2 DEF TakeTimeout
    <3>2. Fewer \in ServerData
      BY FewerType DEF LendInv
    <3> QED
      BY <3>1, <3>2 DEF LendInv, Remembers, ToolAgrees
  <2> QED
    BY <2>1, <2>2
<1>4. ASSUME NEW reset \in BOOLEAN, TakeFeedback(reset)
      PROVE  LendInv'
  BY <1>0, <1>4, LendKept DEF TakeFeedback, users, bounds
<1>5. CASE TakeResultsRx
  BY <1>0, <1>5, CmdDoneLends DEF TakeResultsRx, bounds
<1> QED
  BY <1>1, <1>2, <1>3, <1>4, <1>5 DEF ClientRuns

\* The perf thread, at the events of a server.
LEMMA ServerRunsLends ==
  ASSUME LendInv, ServerRuns
  PROVE  LendInv'
<1>0. timer \in BOOLEAN /\ server \in ServerData
      /\ Fewer \in ServerData
  BY FewerType DEF LendInv, Remembers
<1>1. ASSUME NEW taken \in BOOLEAN, TakeServerRx(taken)
      PROVE  LendInv'
  <2>1. CASE SecsLeft = 0
    <3>1. CmdDone /\ server' = Fewer /\ UNCHANGED <<client, timer, tool, hitch, now>>
      BY <1>1, <2>1 DEF TakeServerRx
    <3> QED
      BY <1>0, <3>1, CmdDoneLends
  <2>2. CASE SecsLeft # 0 /\ (~server.sent /\ perf.role = "server" /\ NoneCounted)
    <3>1. Restart(taken) /\ UNCHANGED <<client, timer, tool, done, now>> /\ perf.on_going
      BY <1>1, <2>2 DEF TakeServerRx, Handles
    <3> QED
      BY <3>1, RestartLends
  <2>3. CASE SecsLeft # 0 /\ ~(~server.sent /\ perf.role = "server" /\ NoneCounted)
    <3>1. server' = Fewer /\ UNCHANGED <<perf, client, timer, tool, done, hitch, now>>
      BY <1>1, <2>3 DEF TakeServerRx
    <3> QED
      BY <1>0, <3>1 DEF LendInv, Remembers, ToolAgrees
  <2> QED
    BY <2>1, <2>2, <2>3
<1>2. ASSUME NEW taken \in BOOLEAN, TakeReport(taken)
      PROVE  LendInv'
  <2>1. server' \in ServerData
    BY <1>2 DEF TakeReport, NoServer
  <2>2. UNCHANGED <<perf, client, timer, tool, done, hitch, now>>
    BY <1>2 DEF TakeReport, users
  <2> QED
    BY <2>1, <2>2 DEF LendInv, Remembers, ToolAgrees
<1>3. ASSUME NEW taken \in BOOLEAN, TakeResultsSent(taken)
      PROVE  LendInv'
  <2>1. CASE SecsLeft = 0
    <3>1. CmdDone /\ UNCHANGED <<client, timer, tool, hitch, now>>
          /\ server' \in ServerData
      BY <1>0, <1>3, <2>1 DEF TakeResultsSent
    <3> QED
      BY <3>1, CmdDoneLends
  <2>2. CASE SecsLeft # 0
    <3>1. RestartAfterResults(taken) /\ UNCHANGED <<timer, tool, done, now>> /\ perf.on_going
      BY <1>3, <2>2 DEF TakeResultsSent, Handles
    <3> QED
      BY <3>1, RestartAfterResultsLends
  <2> QED
    BY <2>1, <2>2
<1>4. ASSUME NEW fast \in BOOLEAN, NEW taken \in BOOLEAN, TakeServerRxFailed(fast, taken)
      PROVE  LendInv'
  <2>1. CASE perf.role = "server" /\ Fewer.count = 0 /\ ~fast
    <3>1. Restart(taken) /\ UNCHANGED <<client, timer, tool, done, now>> /\ perf.on_going
      BY <1>4, <2>1 DEF TakeServerRxFailed, Handles
    <3> QED
      BY <3>1, RestartLends
  <2>2. CASE ~(perf.role = "server" /\ Fewer.count = 0 /\ ~fast)
    <3>1. CmdDone /\ server' = Fewer /\ UNCHANGED <<client, timer, tool, hitch, now>>
      BY <1>4, <2>2 DEF TakeServerRxFailed
    <3> QED
      BY <1>0, <3>1, CmdDoneLends
  <2> QED
    BY <2>1, <2>2
<1>5. ASSUME NEW known \in BOOLEAN, TakeRequest(known)
      PROVE  LendInv'
  BY <1>0, <1>5, LendKept DEF TakeRequest, users, bounds
<1>6. CASE TakeCmdDone
  BY <1>0, <1>6, CmdDoneLends DEF TakeCmdDone, bounds
<1> QED
  BY <1>1, <1>2, <1>3, <1>4, <1>5, <1>6 DEF ServerRuns

\* The modem, the other device, timers and time.
LEMMA OthersLend ==
  ASSUME LendInv, ModemRuns \/ Air \/ TimerExpires \/ Tick \/ Drop \/ \E p \in 1 .. Processes : Age(p)
  PROVE  LendInv'
<1>0. timer \in BOOLEAN /\ server \in ServerData
  BY DEF LendInv, Remembers
<1>1. CASE ModemRuns
  <2>1. UNCHANGED <<perf, client, server, tool, done, hitch, now, timer>>
    BY <1>1 DEF ModemRuns, TxEnds, OtherEnds, RxEnds, users, bounds
  <2> QED
    BY <1>0, <2>1, LendKept
<1>2. ASSUME NEW i \in DOMAIN modem, HearRequest(i)
      PROVE  LendInv'
  BY <1>0, <1>2, LendKept DEF HearRequest, users, bounds
<1>3. ASSUME NEW i \in DOMAIN modem, NEW taken \in BOOLEAN, Header(i, taken)
      PROVE  LendInv'
  <2> DEFINE data == IF perf.on_going THEN server ELSE NoServer
             ops == [modem EXCEPT ![i].heard = "header"]
  <2>1. perf' \in [on_going : {perf.on_going /\ taken}, role : {"client", "server"}, use_harq : BOOLEAN,
                   usable : Nat, started : Nat, duration : Int]
    BY <1>3 DEF Header, LendInv, Remembers
  <2>2. client' \in ClientData
        /\ UNCHANGED <<timer, tool, done, now>>
    BY <1>3 DEF Header, LendInv, Remembers, users
  <2>3. data \in ServerData
    BY <1>0 DEF NoServer
  <2>4. RxStart(perf.duration, taken, data, ops)
    BY <1>3 DEF Header
  <2> HIDE DEF data, ops
  <2> QED
    BY <2>1, <2>2, <2>3, <2>4, RxStartLends
<1>4. CASE TimerExpires
  BY <1>4, LendKept DEF TimerExpires, users, bounds
<1>5. CASE Tick
  BY <1>5 DEF Tick, users, LendInv, Remembers, ToolAgrees
<1>6. CASE Drop
  BY <1>0, <1>6, LendKept DEF Drop, users, bounds
<1>7. ASSUME NEW p \in 1 .. Processes, Age(p)
      PROVE  LendInv'
  BY <1>0, <1>7, LendKept DEF Age, users, bounds
<1> QED
  BY <1>1, <1>2, <1>3, <1>4, <1>5, <1>6, <1>7 DEF Air

\* Control and the shell.
LEMMA ControlLends ==
  ASSUME PerfAssumption, LendInv, TakeDone \/ User \/ ShellGoesOn
  PROVE  LendInv'
<1>0. timer \in BOOLEAN /\ server \in ServerData
      /\ client \in ClientData
      /\ Fewer \in ServerData /\ Rounds \subseteq Nat
  BY FewerType DEF LendInv, Remembers, Rounds
<1>1. CASE TakeDone
  BY <1>1 DEF TakeDone, bounds, LendInv, Remembers, ToolAgrees
<1>2. ASSUME NEW useHarq \in BOOLEAN, NEW usable \in 0 .. Processes, NEW duration \in Durations,
             NEW sent \in Rounds, StartClient(useHarq, usable, duration, sent)
      PROVE  LendInv'
  <2>0. sent \in Nat /\ duration \in Int /\ usable \in Nat /\ now \in Nat
    BY <1>0 DEF Durations, LendInv, Remembers
  <2>1. /\ perf' = [on_going |-> TRUE, role |-> "client", use_harq |-> useHarq, usable |-> usable,
                    started |-> now, duration |-> duration]
        /\ tool' = TRUE /\ ~done /\ UNCHANGED <<done, now>> /\ server' = NoServer
    BY <1>2 DEF StartClient, Start, Shell
  <2>2. client' \in ClientData
    <3>1. PICK s \in Nat, m \in Int : client' = [NoClient EXCEPT !.handle = sent + 1, !.starting = s, !.middle = m]
      <4> DEFINE window == IF useHarq THEN usable ELSE Window
                 s == IF window = 0 THEN 0 ELSE 1
                 m == IF useHarq /\ window # 0 THEN (sent + 1) \div 2 ELSE 0
      <4>1. (sent + 1) \div 2 \in Int
        BY <2>0
      <4>2. s \in Nat /\ m \in Int
        BY <4>1
      <4>3. client' = [NoClient EXCEPT !.handle = sent + 1, !.starting = s, !.middle = m]
        BY <1>2 DEF StartClient
      <4> HIDE DEF s, m
      <4> QED
        BY <4>2, <4>3
    <3>2. sent + 1 \in Nat \ {0}
      BY <2>0
    <3> QED
      BY <3>1, <3>2 DEF NoClient
  <2>3. timer' \in BOOLEAN /\ hitch' \in BOOLEAN
    BY <1>0, <1>2 DEF StartClient
  <2>4. perf' \in [on_going : {TRUE}, role : {"client", "server"}, use_harq : BOOLEAN, usable : Nat,
                   started : Nat, duration : Int]
    BY <2>0, <2>1
  <2>5. server' \in ServerData
    BY <2>1 DEF NoServer
  <2> QED
    BY <2>0, <2>1, <2>2, <2>3, <2>4, <2>5 DEF LendInv, Remembers, ToolAgrees
<1>3. ASSUME NEW useHarq \in BOOLEAN, NEW duration \in Durations \cup {Infinite},
             StartServer(useHarq, duration)
      PROVE  LendInv'
  <2>0. duration \in Int /\ now \in Nat
    BY DEF Durations, Infinite, LendInv, Remembers
  <2>1. /\ perf' = [on_going |-> TRUE, role |-> "server", use_harq |-> useHarq, usable |-> 0,
                    started |-> now, duration |-> duration]
        /\ tool' = TRUE /\ ~done /\ UNCHANGED <<done, now, timer>> /\ client' = NoClient /\ hitch' = FALSE
        /\ server' = [NoServer EXCEPT !.count = 1, !.enabled = now]
    BY <1>3 DEF StartServer, Start, Shell
  <2>2. perf' \in [on_going : {TRUE}, role : {"client", "server"}, use_harq : BOOLEAN, usable : Nat,
                   started : Nat, duration : Int]
    BY <2>0, <2>1
  <2>3. server' \in ServerData
    BY <2>0, <2>1 DEF NoServer
  <2>4. client' \in ClientData
    BY <2>1 DEF NoClient
  <2> QED
    BY <1>0, <2>0, <2>1, <2>2, <2>3, <2>4 DEF LendInv, Remembers, ToolAgrees
<1>4. CASE StartFails
  <2>1. perf' = NoPerf /\ client' = NoClient /\ server' = NoServer /\ tool' = TRUE /\ done' = TRUE
        /\ hitch' = FALSE /\ UNCHANGED <<timer, now>>
    BY <1>4 DEF StartFails
  <2>2. perf' \in [on_going : {FALSE}, role : {"client", "server"}, use_harq : BOOLEAN, usable : Nat,
                   started : Nat, duration : Int]
    BY <2>1 DEF NoPerf
  <2>3. server' \in ServerData
        /\ client' \in ClientData
    BY <2>1 DEF NoClient, NoServer
  <2> QED
    BY <1>0, <2>1, <2>2, <2>3 DEF LendInv, Remembers, ToolAgrees
<1>5. CASE Stop
  BY <1>5 DEF Stop, LendInv, Remembers, ToolAgrees
<1>6. CASE StopClient
  <2>1. UNCHANGED <<perf, done>> \/ NoTime
    BY <1>6 DEF StopClient
  <2>2. UNCHANGED <<client, server, timer, tool, bounds, hitch>>
    BY <1>6 DEF StopClient
  <2>3. CASE NoTime
    BY <1>0, <2>2, <2>3, NoTimeLends DEF bounds
  <2>4. CASE UNCHANGED <<perf, done>>
    BY <1>0, <2>2, <2>4, LendKept DEF bounds
  <2> QED
    BY <2>1, <2>3, <2>4
<1>7. ASSUME NEW taken \in 0 .. 2, StopRequests(taken)
      PROVE  LendInv'
  BY <1>7, RequestLends DEF StopRequests
<1>8. CASE StopServer
  BY <1>0, <1>8, LendKept DEF StopServer, bounds, Shell
<1>9. CASE StopServerEnds
  <2>1. server' = Fewer /\ UNCHANGED <<perf, client, timer, tool, done, hitch, now>>
    BY <1>9 DEF StopServerEnds, bounds
  <2> QED
    BY <1>0, <2>1 DEF LendInv, Remembers, ToolAgrees
<1> QED
  BY <1>1, <1>2, <1>3, <1>4, <1>5, <1>6, <1>7, <1>8, <1>9 DEF User, ShellGoesOn

\* LendInv is inductive, given the types of the lists.
LEMMA LendStep ==
  ASSUME PerfAssumption, LendInv, Lists, [PerfNext]_vars
  PROVE  LendInv'
<1>1. CASE PerfNext
  BY <1>1, ClientRunsLends, ServerRunsLends, OthersLend, ControlLends DEF PerfNext, Threads
<1>2. CASE UNCHANGED vars
  BY <1>2 DEF vars, users, bounds, LendInv, Remembers, ToolAgrees
<1> QED
  BY <1>1, <1>2

--------------------------------------------------------------------------------
(* What the lists of the modem and of the queue come to.                    *)

\* What events and operations are of.
LEMMA Ids ==
  /\ \A id : Event(id).id = id /\ Other(id).op = id
  /\ \A h : Completed(h).id = "tx" /\ Feedback(h).id = "feedback"
  /\ \A b \in BOOLEAN : RxFailed(b).id = "server_rx_failed" /\ RxFailed(b) \in RxEvents
  /\ \A event \in RxEvents : event.id \in {"server_rx", "server_rx_failed"}
  /\ \A op \in Rxs : op.op = "server_rx"
<1>1. /\ \A id : Event(id).id = id /\ Other(id).op = id
      /\ \A h : Completed(h).id = "tx" /\ Feedback(h).id = "feedback"
      /\ \A b \in BOOLEAN : RxFailed(b).id = "server_rx_failed"
  BY DEF Event, Other, Completed, Feedback, RxFailed
<1>2. \A b \in BOOLEAN : RxFailed(b) \in RxEvents
  BY DEF RxEvents
<1>3. \A event \in RxEvents : event.id \in {"server_rx", "server_rx_failed"}
  BY <1>1 DEF RxEvents
<1>4. \A op \in Rxs : op.op = "server_rx"
  BY DEF Rxs
<1> QED
  BY <1>1, <1>2, <1>3, <1>4

\* The RX and its events are told by their ids.
LEMMA IsRx ==
  ASSUME Lists
  PROVE  /\ \A op \in ToSet(modem) : op \in Rxs <=> op.op = "server_rx"
         /\ \A event \in ToSet(queue) :
              event \in RxEvents <=> event.id \in {"server_rx", "server_rx_failed"}
         /\ Number(modem, Rxs) \in Nat /\ Number(queue, RxEvents) \in Nat /\ ToCome \in Nat
<1>1. Number(modem, Rxs) \in Nat /\ Number(queue, RxEvents) \in Nat
  BY ListNumber DEF Lists, IsList
<1> QED
  BY <1>1, Ids DEF Lists, ToCome

\* The lists keep their types when what comes in is no RX or a proper one.
LEMMA ListsHold ==
  ASSUME Lists, IsList(modem'), IsList(queue'),
         \A op \in ToSet(modem') : op \in ToSet(modem) \/ op.op # "server_rx" \/ op \in Rxs,
         \A event \in ToSet(queue') : \/ event \in ToSet(queue)
                                      \/ event.id \notin {"server_rx", "server_rx_failed"}
                                      \/ event \in RxEvents
  PROVE  Lists'
BY DEF Lists, IsList

\* An event is taken from the queue.
LEMMA Took ==
  ASSUME Lists, queue # <<>>
  PROVE  /\ IsList(modem) /\ IsList(queue) /\ IsList(Tail(queue))
         /\ ToSet(queue) = {Head(queue)} \cup ToSet(Tail(queue))
         /\ Number(Tail(queue), RxEvents) \in Nat
         /\ Number(queue, RxEvents) = Number(Tail(queue), RxEvents) +
              IF Head(queue).id \in {"server_rx", "server_rx_failed"} THEN 1 ELSE 0
<1>1. IsList(modem) /\ IsList(queue)
  BY DEF Lists, IsList
<1>2. /\ IsList(Tail(queue)) /\ ToSet(queue) = {Head(queue)} \cup ToSet(Tail(queue))
      /\ Number(queue, RxEvents) = Number(Tail(queue), RxEvents) + IF Head(queue) \in RxEvents THEN 1 ELSE 0
  BY <1>1, ListTail
<1>3. Number(Tail(queue), RxEvents) \in Nat
  BY <1>2, ListNumber
<1>4. Head(queue) \in ToSet(queue)
  BY <1>2
<1>5. Head(queue) \in RxEvents <=> Head(queue).id \in {"server_rx", "server_rx_failed"}
  BY <1>4, IsRx
<1> QED
  BY <1>1, <1>2, <1>3, <1>5

\* An operation is over.
LEMMA Removed ==
  ASSUME Lists, NEW i \in DOMAIN modem
  PROVE  /\ IsList(RemoveAt(modem, i)) /\ modem[i] \in ToSet(modem)
         /\ ToSet(modem) = {modem[i]} \cup ToSet(RemoveAt(modem, i))
         /\ Number(RemoveAt(modem, i), Rxs) \in Nat
         /\ Number(modem, Rxs) = Number(RemoveAt(modem, i), Rxs) +
              IF modem[i].op = "server_rx" THEN 1 ELSE 0
<1>1. IsList(modem)
  BY DEF Lists, IsList
<1>2. /\ IsList(RemoveAt(modem, i)) /\ modem[i] \in ToSet(modem)
      /\ ToSet(modem) = {modem[i]} \cup ToSet(RemoveAt(modem, i))
      /\ Number(modem, Rxs) = Number(RemoveAt(modem, i), Rxs) + IF modem[i] \in Rxs THEN 1 ELSE 0
  BY <1>1, ListRemove
<1>3. Number(RemoveAt(modem, i), Rxs) \in Nat
  BY <1>2, ListNumber
<1>4. modem[i] \in Rxs <=> modem[i].op = "server_rx"
  BY <1>2, IsRx
<1> QED
  BY <1>2, <1>3, <1>4

\* What the server relies on is still there.
LEMMA ServerGoesOn ==
  ASSUME ServerRun, server.count \in Nat, ToCome \in Nat,
         server'.sent => server.sent, server'.count \in Nat, server'.count <= server.count,
         ToCome' \in Nat, ToCome' >= ToCome, Sending => Sending', Ended => Ended'
  PROVE  ServerRun'
BY DEF ServerRun

\* The modem takes the TX of a request and the RX for the results, or less.
LEMMA Requested ==
  ASSUME NEW s, IsList(s), NEW taken \in 0 .. 2
  PROVE  LET t == s \o SubSeq(<<Other("request"), Other("results_rx")>>, 1, taken) IN
         /\ IsList(t) /\ ToSet(s) \subseteq ToSet(t)
         /\ \A op \in ToSet(t) : op \in ToSet(s) \/ op.op \in {"request", "results_rx"}
         /\ Number(t, Rxs) = Number(s, Rxs)
         /\ taken = 2 => \E op \in ToSet(t) : op.op = "results_rx"
<1> DEFINE r == SubSeq(<<Other("request"), Other("results_rx")>>, 1, taken)
<1>2. /\ ToSet(r) \subseteq {Other("request"), Other("results_rx")} /\ IsList(r)
      /\ taken = 2 => Other("results_rx") \in ToSet(r)
  <2> DEFINE x == Other("request")
             y == Other("results_rx")
  <2> HIDE DEF x, y
  <2>1. \A i \in 1 .. taken : <<x, y>>[i] \in {x, y}
    OBVIOUS
  <2>2. /\ SubSeq(<<x, y>>, 1, taken) \in Seq({x, y})
        /\ \A i \in 1 .. taken : SubSeq(<<x, y>>, 1, taken)[i] = <<x, y>>[i]
        /\ Len(SubSeq(<<x, y>>, 1, taken)) = taken
    BY <2>1, SubSeqProperties
  <2>3. r \in Seq({x, y}) /\ (\A i \in 1 .. taken : r[i] = <<x, y>>[i]) /\ Len(r) = taken
    BY <2>2 DEF x, y
  <2> HIDE DEF r
  <2>4. ToSet(r) \subseteq {x, y} /\ IsList(r)
    BY <2>3, HoldsType, ListOf
  <2>5. taken = 2 => y \in ToSet(r)
    <3>1. DOMAIN r = 1 .. taken
      BY <2>3, LenProperties
    <3>2. taken = 2 => 2 \in DOMAIN r /\ r[2] = y
      BY <2>3, <3>1
    <3> QED
      BY <3>2 DEF ToSet
  <2> QED
    BY <2>4, <2>5 DEF x, y
<1> HIDE DEF r
<1>3. /\ IsList(s \o r) /\ ToSet(s \o r) = ToSet(s) \cup ToSet(r)
      /\ Number(s \o r, Rxs) = Number(s, Rxs) + Number(r, Rxs)
  BY <1>2, ListConcat
<1>4. \A op \in ToSet(r) : op.op \in {"request", "results_rx"}
  BY <1>2, Ids
<1>5. Number(r, Rxs) = 0
  <2>1. ToSet(r) \cap Rxs = {}
    BY <1>4, Ids
  <2> QED
    BY <1>2, <2>1, ListNumber
<1>6. Number(s, Rxs) \in Nat
  BY ListNumber
<1>7. Number(s \o r, Rxs) = Number(s, Rxs)
  BY <1>3, <1>5, <1>6
<1>8. taken = 2 => Other("results_rx").op = "results_rx"
  BY Ids
<1> QED
  BY <1>2, <1>3, <1>4, <1>7, <1>8 DEF r

--------------------------------------------------------------------------------
(* The client's events.                                                     *)

\* What the role of the device says of its run is kept when the perf is over, or the
\* run goes on.
LEMMA Over ==
  ASSUME Lists', ~perf'.on_going
  PROVE  Runs'
BY DEF Runs

\* Of a server whose data stay, it is enough that no RX and no result gets lost.
LEMMA ServerSame ==
  ASSUME Remembers, Lists, Lists', perf.on_going /\ perf.role = "server" => ServerRun, server' = server,
         Number(modem', Rxs) + Number(queue', RxEvents) >= ToCome, Sending => Sending', Ended => Ended',
         perf'.on_going => perf.on_going, perf'.role = perf.role
  PROVE  perf'.on_going /\ perf'.role = "server" => ServerRun'
<1>1. server.count \in Nat /\ ToCome \in Nat
  BY IsRx DEF Remembers
<1>2. ToCome' \in Nat
  <2>1. Number(modem', Rxs) \in Nat /\ Number(queue', RxEvents) \in Nat
    BY ListNumber DEF Lists, IsList
  <2> QED
    BY <2>1 DEF ToCome
<1>3. ToCome' >= ToCome
  BY DEF ToCome
<1> QED
  BY <1>1, <1>2, <1>3, ServerGoesOn

\* A client that requests its results awaits them, or it is over.
LEMMA RequestRuns ==
  ASSUME PerfInv, NEW taken \in 0 .. 2,
         Request(taken, UNCHANGED <<perf, done>>) \/ Request(taken, NoTime),
         IsList(queue'), ToSet(queue') \subseteq ToSet(queue),
         \A event \in ToSet(queue) : event.id \notin {"results", "cmd_done"} \/ event \in ToSet(queue'),
         Number(queue', RxEvents) = Number(queue, RxEvents),
         server' = server, shell' \in {shell, "idle"}
  PROVE  Runs'
<1>1. /\ IsList(modem') /\ ToSet(modem) \subseteq ToSet(modem')
      /\ \A op \in ToSet(modem') : op \in ToSet(modem) \/ op.op \in {"request", "results_rx"}
      /\ Number(modem', Rxs) = Number(modem, Rxs)
      /\ taken = 2 => \E op \in ToSet(modem') : op.op = "results_rx"
  <2>1. modem' = modem \o SubSeq(<<Other("request"), Other("results_rx")>>, 1, taken)
    BY DEF Request
  <2>2. IsList(modem)
    BY DEF PerfInv, Runs, Lists, IsList
  <2> QED
    BY <2>1, <2>2, Requested
<1>2. Lists'
  BY <1>1, ListsHold DEF PerfInv, Runs
<1>3. perf'.role = perf.role /\ (perf'.on_going => perf.on_going)
  BY DEF Request, CmdDone, NoTime, PerfInv, LendInv, Remembers
<1>4. perf'.on_going /\ perf'.role = "server" => ServerRun'
  <2>1. Number(modem', Rxs) + Number(queue', RxEvents) >= ToCome
    BY <1>1, IsRx DEF PerfInv, Runs, ToCome
  <2>2. (Sending => Sending') /\ (Ended => Ended')
    BY <1>1 DEF Sending, Ended
  <2> QED
    BY <1>2, <1>3, <2>1, <2>2, ServerSame DEF PerfInv, LendInv, Runs
<1>5. perf'.on_going /\ perf'.role = "client" => ClientRun'
  <2> SUFFICES ASSUME perf'.on_going, perf'.role = "client"
               PROVE  ClientRun'
    OBVIOUS
  <2>1. ClientRun
    BY <1>3 DEF PerfInv, Runs
  <2>2. taken = 2
    BY DEF Request, CmdDone, PerfInv, LendInv, Remembers
  <2>3. Awaited'
    BY <1>1, <2>2 DEF Awaited
  <2>4. ClientOnly'
    BY <1>1, <2>1 DEF ClientRun, ClientOnly
  <2> QED
    BY <2>1, <2>3, <2>4 DEF ClientRun, Driven
<1> QED
  BY <1>2, <1>4, <1>5 DEF Runs

\* Of the client's events, one that is no result has been taken.
LEMMA ReportRuns ==
  ASSUME PerfInv, NEW taken \in 0 .. 2, perf.on_going,
         Report(taken, UNCHANGED <<perf, done>>) \/ Report(taken, NoTime),
         queue # <<>>, Head(queue).id \in {"tx", "timer"}, queue' = Tail(queue),
         server' = server, shell' = shell
  PROVE  Runs'
<1>1. /\ IsList(modem) /\ IsList(queue') /\ ToSet(queue) = {Head(queue)} \cup ToSet(queue')
      /\ Number(queue', RxEvents) = Number(queue, RxEvents)
  BY Took, IsRx DEF PerfInv, Runs
<1>2. CASE ~client.requested
  <2>1. Request(taken, UNCHANGED <<perf, done>>) \/ Request(taken, NoTime)
    BY <1>2 DEF Report
  <2> QED
    BY <1>1, <2>1, RequestRuns
<1>3. CASE client.requested
  <2>1. UNCHANGED <<client, modem>> /\ (UNCHANGED <<perf, done>> \/ NoTime)
    BY <1>3 DEF Report
  <2>2. perf'.role = perf.role /\ (perf'.on_going => perf.on_going)
    BY <2>1 DEF NoTime, PerfInv, LendInv, Remembers
  <2>3. Lists'
    <3>1. IsList(modem')
      BY <1>1, <2>1
    <3> QED
      BY <1>1, <2>1, <3>1, ListsHold DEF PerfInv, Runs
  <2>4. perf'.on_going /\ perf'.role = "server" => ServerRun'
    <3>1. Number(modem', Rxs) + Number(queue', RxEvents) >= ToCome
      BY <1>1, <2>1, IsRx DEF PerfInv, Runs, ToCome
    <3>2. (Sending => Sending') /\ (Ended => Ended')
      BY <1>1, <2>1 DEF Sending, Ended
    <3> QED
      BY <2>2, <2>3, <3>1, <3>2, ServerSame DEF PerfInv, LendInv, Runs
  <2>5. perf'.on_going /\ perf'.role = "client" => ClientRun'
    <3> SUFFICES ASSUME perf'.on_going, perf'.role = "client"
                 PROVE  ClientRun'
      OBVIOUS
    <3>1. ClientRun
      BY <2>2 DEF PerfInv, Runs
    <3>2. Awaited'
      BY <1>1, <1>3, <2>1, <3>1 DEF Awaited, ClientRun
    <3>3. ClientOnly'
      BY <1>1, <2>1, <3>1 DEF ClientRun, ClientOnly
    <3> QED
      BY <3>1, <3>2, <3>3 DEF ClientRun, Driven
  <2> QED
    BY <2>3, <2>4, <2>5 DEF Runs
<1> QED
  BY <1>2, <1>3

\* A round, after an event that is no result.
LEMMA RoundRuns ==
  ASSUME PerfInv, RoundDone, queue # <<>>, Head(queue).id \in {"tx", "timer"}, queue' = Tail(queue),
         UNCHANGED <<perf, server, shell>>
  PROVE  Runs'
<1>1. /\ IsList(queue') /\ ToSet(queue) = {Head(queue)} \cup ToSet(queue')
      /\ Number(queue', RxEvents) = Number(queue, RxEvents)
  BY Took, IsRx DEF PerfInv, Runs
<1>2. /\ IsList(modem') /\ ToSet(modem) \subseteq ToSet(modem')
      /\ \A op \in ToSet(modem') : op \in ToSet(modem) \/ op.op = "tx"
      /\ Number(modem', Rxs) = Number(modem, Rxs)
      /\ client'.requested = client.requested
      /\ \/ timer' \/ hitch' \/ shell # "idle"
         \/ \E op \in ToSet(modem') : op.op = "tx" /\ op.handle = client'.starting
  BY DEF RoundDone
<1>3. Lists'
  BY <1>1, <1>2, ListsHold DEF PerfInv, Runs
<1>4. perf'.on_going /\ perf'.role = "server" => ServerRun'
  <2>1. Number(modem', Rxs) + Number(queue', RxEvents) >= ToCome
    BY <1>1, <1>2, IsRx DEF PerfInv, Runs, ToCome
  <2>2. (Sending => Sending') /\ (Ended => Ended')
    BY <1>1, <1>2 DEF Sending, Ended
  <2> QED
    BY <1>3, <2>1, <2>2, ServerSame DEF PerfInv, LendInv, Runs
<1>5. perf'.on_going /\ perf'.role = "client" => ClientRun'
  <2> SUFFICES ASSUME perf.on_going, perf.role = "client"
               PROVE  ClientRun'
    OBVIOUS
  <2>1. ClientRun
    BY DEF PerfInv, Runs
  <2>2. ClientOnly'
    BY <1>1, <1>2, <2>1 DEF ClientRun, ClientOnly
  <2>3. client'.requested => Awaited'
    BY <1>1, <1>2, <2>1 DEF ClientRun, Awaited
  <2>4. Driven'
    BY <1>2 DEF Driven
  <2> QED
    BY <2>1, <2>2, <2>3, <2>4 DEF ClientRun
<1> QED
  BY <1>3, <1>4, <1>5 DEF Runs

\* An event that drives nothing, and is nothing the server relies on.
LEMMA OtherEventRuns ==
  ASSUME PerfInv, queue # <<>>, queue' = Tail(queue),
         Head(queue).id \notin {"timer", "results_rx", "server_rx", "server_rx_failed", "results", "cmd_done"},
         Head(queue).id = "tx" => Head(queue).handle \notin {client.starting, client.middle},
         UNCHANGED <<perf, client, server, shell, timer, modem, hitch>>
  PROVE  Runs'
<1>1. /\ IsList(modem) /\ IsList(queue') /\ ToSet(queue) = {Head(queue)} \cup ToSet(queue')
      /\ Number(queue', RxEvents) = Number(queue, RxEvents)
  BY Took, IsRx DEF PerfInv, Runs
<1>2. Lists'
  <2>1. IsList(modem')
    BY <1>1
  <2> QED
    BY <1>1, <2>1, ListsHold DEF PerfInv, Runs
<1>3. perf'.on_going /\ perf'.role = "server" => ServerRun'
  <2>1. Number(modem', Rxs) + Number(queue', RxEvents) >= ToCome
    BY <1>1, IsRx DEF PerfInv, Runs, ToCome
  <2>2. (Sending => Sending') /\ (Ended => Ended')
    BY <1>1 DEF Sending, Ended
  <2> QED
    BY <1>2, <2>1, <2>2, ServerSame DEF PerfInv, LendInv, Runs
<1>4. perf'.on_going /\ perf'.role = "client" => ClientRun'
  <2> SUFFICES ASSUME perf.on_going, perf.role = "client"
               PROVE  ClientRun'
    OBVIOUS
  <2>1. ClientRun
    BY DEF PerfInv, Runs
  <2>2. ClientOnly'
    BY <1>1, <2>1 DEF ClientRun, ClientOnly
  <2>3. (Awaited => Awaited') /\ (Driven => Driven')
    <3>1. Awaited => Awaited'
      BY <1>1 DEF Awaited
    <3> QED
      BY <1>1, <3>1 DEF Driven
  <2> QED
    BY <2>1, <2>2, <2>3 DEF ClientRun
<1> QED
  BY <1>2, <1>3, <1>4 DEF Runs

\* An event is taken, and perhaps one that is no RX is put behind the others.
LEMMA Replaced ==
  ASSUME Lists, queue # <<>>, NEW id, id \notin {"server_rx", "server_rx_failed"},
         queue' = Tail(queue) \/ queue' = Append(Tail(queue), Event(id))
  PROVE  /\ IsList(queue') /\ ToSet(Tail(queue)) \subseteq ToSet(queue')
         /\ ToSet(queue') \subseteq ToSet(Tail(queue)) \cup {Event(id)}
         /\ Number(queue', RxEvents) = Number(Tail(queue), RxEvents)
<1>1. IsList(Tail(queue)) /\ Number(Tail(queue), RxEvents) \in Nat
  BY Took
<1>2. CASE queue' = Tail(queue)
  BY <1>1, <1>2
<1>3. CASE queue' = Append(Tail(queue), Event(id))
  <2>1. Event(id) \notin RxEvents
    BY Ids
  <2>2. /\ IsList(Append(Tail(queue), Event(id)))
        /\ ToSet(Append(Tail(queue), Event(id))) = ToSet(Tail(queue)) \cup {Event(id)}
        /\ Number(Append(Tail(queue), Event(id)), RxEvents) = Number(Tail(queue), RxEvents) +
             IF Event(id) \in RxEvents THEN 1 ELSE 0
    BY <1>1, ListAppend
  <2>3. Number(Append(Tail(queue), Event(id)), RxEvents) = Number(Tail(queue), RxEvents)
    BY <1>1, <2>1, <2>2
  <2> QED
    BY <1>3, <2>2, <2>3
<1> QED
  BY <1>2, <1>3

\* The types of the lists, when only that changed.
LEMMA ReplacedLists ==
  ASSUME Lists, queue # <<>>, NEW id, id \notin {"server_rx", "server_rx_failed"},
         queue' = Tail(queue) \/ queue' = Append(Tail(queue), Event(id)), modem' = modem
  PROVE  Lists'
<1>1. IsList(modem') /\ ToSet(Tail(queue)) \subseteq ToSet(queue)
  BY Took
<1>2. IsList(queue') /\ ToSet(queue') \subseteq ToSet(Tail(queue)) \cup {Event(id)}
  BY Replaced
<1> QED
  BY <1>1, <1>2, Ids, ListsHold

\* The types of the lists, when an event is just taken.
LEMMA TakenLists ==
  ASSUME Lists, queue # <<>>, queue' = Tail(queue), modem' = modem
  PROVE  Lists'
<1>1. PICK id : id \notin {"server_rx", "server_rx_failed"}
  <2>1. "report" \notin {"server_rx", "server_rx_failed"}
    OBVIOUS
  <2> QED
    BY <2>1
<1> QED
  BY <1>1, ReplacedLists

\* The perf thread, at the events of a client: the run goes on or is over.
LEMMA ClientRunsOn ==
  ASSUME PerfAssumption, PerfInv, ClientRuns
  PROVE  Runs'
<1>0. Rounds \subseteq Nat
  BY DEF Rounds
<1>1. ASSUME NEW sent \in Rounds, NEW taken \in 0 .. 2, TakeTx(sent, taken)
      PROVE  Runs'
  <2>0. perf.on_going /\ queue # <<>> /\ Head(queue).id = "tx" /\ queue' = Tail(queue)
        /\ UNCHANGED <<server, shell>>
    BY <1>1 DEF TakeTx, Handles, Takes
  <2>1. CASE TimeIsOver
    <3>1. Report(taken, UNCHANGED <<perf, done>>)
      BY <1>1, <2>1 DEF TakeTx
    <3> QED
      BY <2>0, <3>1, ReportRuns
  <2>2. CASE ~TimeIsOver /\ Drives(Head(queue).handle)
    <3>1. ClientTx(sent) /\ UNCHANGED perf
      BY <1>1, <2>2 DEF TakeTx
    <3>2. RoundDone
      BY <1>0, <3>1, RoundDrives DEF PerfInv, LendInv, Runs
    <3> QED
      BY <2>0, <3>1, <3>2, RoundRuns
  <2>3. CASE ~TimeIsOver /\ ~Drives(Head(queue).handle)
    <3>1. UNCHANGED <<perf, client, timer, modem, hitch>>
      BY <1>1, <2>3 DEF TakeTx
    <3>2. Head(queue).handle \notin {client.starting, client.middle}
      BY <2>3 DEF Drives
    <3> QED
      BY <2>0, <3>1, <3>2, OtherEventRuns
  <2> QED
    BY <2>1, <2>2, <2>3
<1>2. ASSUME NEW sent \in Rounds, TakeTimer(sent)
      PROVE  Runs'
  <2>0. perf.on_going /\ queue # <<>> /\ Head(queue).id = "timer" /\ queue' = Tail(queue)
        /\ UNCHANGED <<perf, server, shell>>
    BY <1>2 DEF TakeTimer, Handles, Takes, users
  <2>1. CASE perf.role = "client"
    <3>1. RoundDone
      BY <1>0, <1>2, <2>1, RoundDrives DEF PerfInv, LendInv, Runs, TakeTimer
    <3> QED
      BY <2>0, <3>1, RoundRuns
  <2>2. CASE perf.role # "client"
    <3>1. modem' = modem
      BY <1>2, <2>2 DEF TakeTimer
    <3>2. /\ ToSet(queue) = {Head(queue)} \cup ToSet(queue')
          /\ Number(queue', RxEvents) = Number(queue, RxEvents)
      BY <2>0, Took, IsRx DEF PerfInv, Runs
    <3>3. Lists'
      BY <2>0, <3>1, TakenLists DEF PerfInv, Runs
    <3>4. perf'.on_going /\ perf'.role = "server" => ServerRun'
      <4>1. Number(modem', Rxs) + Number(queue', RxEvents) >= ToCome
        BY <3>1, <3>2, IsRx DEF PerfInv, Runs, ToCome
      <4>2. (Sending => Sending') /\ (Ended => Ended')
        BY <2>0, <3>1, <3>2 DEF Sending, Ended
      <4> QED
        BY <2>0, <3>3, <4>1, <4>2, ServerSame DEF PerfInv, LendInv, Runs
    <3> QED
      BY <2>0, <2>2, <3>3, <3>4 DEF Runs
  <2> QED
    BY <2>1, <2>2
<1>3. ASSUME NEW taken \in 0 .. 2, TakeTimeout(taken)
      PROVE  Runs'
  <2>0. perf.on_going /\ queue # <<>> /\ Head(queue).id = "timer" /\ shell' = shell
    BY <1>3 DEF TakeTimeout, Handles, Takes
  <2>1. CASE perf.role = "client"
    <3>1. Report(taken, NoTime) /\ queue' = Tail(queue) /\ UNCHANGED server
      BY <1>3, <2>1 DEF TakeTimeout
    <3> QED
      BY <2>0, <3>1, ReportRuns
  <2>2. CASE perf.role # "client"
    <3> DEFINE more == <<Event("report"), Event("cmd_done")>>
    <3>1. queue' = Tail(queue) \o more /\ server' = Fewer /\ UNCHANGED <<perf, modem>>
      BY <1>3, <2>2 DEF TakeTimeout
    <3>2. IsList(modem) /\ IsList(Tail(queue)) /\ ToSet(queue) = {Head(queue)} \cup ToSet(Tail(queue))
      BY <2>0, Took DEF PerfInv, Runs
    <3>3. ToSet(more) = {Event("report"), Event("cmd_done")} /\ IsList(more)
      <4>1. PICK x, y : x = Event("report") /\ y = Event("cmd_done")
        OBVIOUS
      <4>2. ToSet(<<x, y>>) = {x, y} /\ <<x, y>> \in Seq({x, y})
        BY DEF ToSet
      <4> QED
        BY <4>1, <4>2 DEF IsList
    <3> HIDE DEF more
    <3>4. IsList(queue') /\ ToSet(queue') = ToSet(Tail(queue)) \cup ToSet(more)
      BY <3>1, <3>2, <3>3, ListConcat
    <3>5. Lists'
      <4>1. IsList(modem') /\ ToSet(modem') = ToSet(modem)
        BY <3>1, <3>2
      <4>2. \A event \in ToSet(queue') : event \in ToSet(queue) \/ event.id \in {"report", "cmd_done"}
        BY <3>2, <3>3, <3>4, Ids
      <4> QED
        BY <3>4, <4>1, <4>2, ListsHold DEF PerfInv, Runs
    <3>6. Ended'
      BY <3>3, <3>4, Ids DEF Ended
    <3>7. perf'.on_going /\ perf'.role = "server" => ServerRun'
      <4> SUFFICES ASSUME perf.on_going, perf.role = "server"
                   PROVE  ServerRun'
        BY <3>1
      <4>1. server.sent => Sending
        BY DEF PerfInv, Runs, ServerRun
      <4>2. Sending => Sending'
        BY <2>0, <3>1, <3>2, <3>4 DEF Sending
      <4>3. server'.sent = server.sent
        BY <3>1 DEF Fewer, PerfInv, LendInv, Remembers
      <4> QED
        BY <3>6, <4>1, <4>2, <4>3 DEF ServerRun
    <3> QED
      BY <2>2, <3>1, <3>5, <3>7 DEF Runs
  <2> QED
    BY <2>1, <2>2
<1>4. ASSUME NEW reset \in BOOLEAN, TakeFeedback(reset)
      PROVE  Runs'
  <2>1. /\ queue # <<>> /\ Head(queue).id = "feedback" /\ queue' = Tail(queue)
        /\ UNCHANGED <<perf, client, server, shell, timer, modem, hitch>>
    BY <1>4 DEF TakeFeedback, Takes, users
  <2> QED
    BY <2>1, OtherEventRuns
<1>5. CASE TakeResultsRx
  <2>1. queue # <<>> /\ queue' = Tail(queue) /\ modem' = modem /\ ~perf'.on_going
    BY <1>5 DEF TakeResultsRx, Handles, Takes, CmdDone, PerfInv, LendInv, Remembers
  <2>2. Lists'
    BY <2>1, TakenLists DEF PerfInv, Runs
  <2> QED
    BY <2>1, <2>2, Over
<1> QED
  BY <1>1, <1>2, <1>3, <1>4, <1>5 DEF ClientRuns

--------------------------------------------------------------------------------
(* The server's events.                                                     *)

\* A server's RX is started: there is one more.
LEMMA Started ==
  ASSUME Lists, Remembers, NEW duration, NEW taken \in BOOLEAN, NEW data,
         RxStart(duration, taken, data, modem)
  PROVE  /\ IsList(modem') /\ ToSet(modem) \subseteq ToSet(modem')
         /\ \A op \in ToSet(modem') : op \in ToSet(modem) \/ op \in Rxs
         /\ Number(modem', Rxs) = Number(modem, Rxs) + IF taken THEN 1 ELSE 0
<1>1. IsList(modem) /\ Number(modem, Rxs) \in Nat
  BY IsRx DEF Lists, IsList
<1>2. CASE ~taken
  BY <1>1, <1>2 DEF RxStart
<1>3. CASE taken
  <2>1. PICK rx : rx = ServerRx(now + (IF duration = 0 THEN 0 ELSE 1), Receives(modem))
    OBVIOUS
  <2>2. rx \in Rxs
    <3>1. Receives(modem) \in BOOLEAN
      BY DEF Receives
    <3>2. now + (IF duration = 0 THEN 0 ELSE 1) \in Int
      BY DEF Remembers
    <3> QED
      BY <2>1, <3>1, <3>2 DEF ServerRx, Rxs
  <2>3. modem' = Append(modem, rx)
    BY <1>3, <2>1 DEF RxStart
  <2>4. /\ IsList(Append(modem, rx)) /\ ToSet(Append(modem, rx)) = ToSet(modem) \cup {rx}
        /\ Number(Append(modem, rx), Rxs) = Number(modem, Rxs) + IF rx \in Rxs THEN 1 ELSE 0
    BY <1>1, ListAppend
  <2> QED
    BY <1>3, <2>2, <2>3, <2>4
<1> QED
  BY <1>2, <1>3

\* One counted RX less.
LEMMA FewerCount ==
  ASSUME Remembers
  PROVE  /\ Fewer.sent = server.sent
         /\ Fewer.count = IF server.count = 0 THEN 0 ELSE server.count - 1
BY DEF Fewer, Remembers

\* A server that restarts its RX has the new one to come instead of the one taken.
LEMMA RestartRuns ==
  ASSUME PerfInv, perf.on_going, perf.role = "server", queue # <<>>,
         Head(queue).id \in {"server_rx", "server_rx_failed"}, queue' = Tail(queue),
         NEW taken \in BOOLEAN, Restart(taken)
  PROVE  Runs'
<1>0. Lists /\ Remembers
  BY DEF PerfInv, LendInv, Runs
<1>1. /\ IsList(queue') /\ ToSet(queue) = {Head(queue)} \cup ToSet(queue')
      /\ Number(queue', RxEvents) \in Nat
      /\ Number(queue, RxEvents) = Number(queue', RxEvents) + 1
  BY <1>0, Took
<1>2. /\ IsList(modem') /\ ToSet(modem) \subseteq ToSet(modem')
      /\ \A op \in ToSet(modem') : op \in ToSet(modem) \/ op \in Rxs
      /\ Number(modem', Rxs) = Number(modem, Rxs) + IF taken THEN 1 ELSE 0
  BY <1>0, Started DEF Restart
<1>3. Lists'
  BY <1>0, <1>1, <1>2, ListsHold
<1>4. perf'.role = "server" /\ (perf'.on_going => taken)
  BY <1>0 DEF Restart, Remembers
<1>5. ASSUME taken
      PROVE  ServerRun'
  <2>1. server'.sent = server.sent /\ server'.count = Fewer.count + 1
    <3>1. Fewer \in ServerData /\ Fewer.sent = server.sent
      BY <1>0, FewerType, FewerCount
    <3>2. server' = [Fewer EXCEPT !.count = @ + 1, !.enabled = now]
      BY <1>5 DEF Restart, RxStart
    <3> HIDE DEF Fewer
    <3> QED
      BY <3>1, <3>2
  <2>2. server.count \in Nat /\ Number(modem, Rxs) \in Nat
    BY <1>0, IsRx DEF Remembers
  <2>3. ToCome' = ToCome /\ ToCome \in Nat /\ ToCome >= 1
    BY <1>1, <1>2, <1>5, <2>2 DEF ToCome
  <2>4. (Sending => Sending') /\ (Ended => Ended')
    BY <1>1, <1>2 DEF Sending, Ended
  <2>5. ServerRun
    BY DEF PerfInv, Runs
  <2>6. server'.sent => Sending'
    BY <2>1, <2>4, <2>5 DEF ServerRun
  <2>7. CASE Ended
    BY <2>4, <2>6, <2>7 DEF ServerRun
  <2>8. CASE ~Ended
    <3>1. server.count <= ToCome
      BY <2>5, <2>8 DEF ServerRun
    <3>2. server'.count = IF server.count = 0 THEN 1 ELSE server.count
      BY <1>0, <2>1, <2>2, FewerCount
    <3>3. server'.count <= ToCome' /\ ToCome' >= 1
      BY <2>2, <2>3, <3>1, <3>2
    <3> QED
      BY <2>6, <3>3 DEF ServerRun
  <2> QED
    BY <2>7, <2>8
<1> QED
  BY <1>3, <1>4, <1>5 DEF Runs

\* PERF_OP_RX_COMPLETED: another RX is counted, the results are to be sent, or it restarts.
LEMMA TakeServerRxRuns ==
  ASSUME PerfInv, NEW taken \in BOOLEAN, TakeServerRx(taken)
  PROVE  Runs'
<1>0. Lists /\ Remembers /\ perf.on_going /\ queue # <<>> /\ Head(queue).id = "server_rx" /\ shell' = shell
  BY DEF PerfInv, LendInv, Runs, TakeServerRx, Handles, Takes
<1>1. CASE SecsLeft = 0
  <2>1. queue' = Append(Tail(queue), Event("report")) /\ modem' = modem /\ ~perf'.on_going
    BY <1>0, <1>1 DEF TakeServerRx, CmdDone, Remembers
  <2>2. Lists'
    BY <1>0, <2>1, ReplacedLists
  <2> QED
    BY <2>1, <2>2, Over
<1>2. CASE SecsLeft # 0 /\ (~server.sent /\ perf.role = "server" /\ NoneCounted)
  <2>1. Restart(taken) /\ queue' = Tail(queue)
    BY <1>2 DEF TakeServerRx
  <2> QED
    BY <1>0, <1>2, <2>1, RestartRuns
<1>3. CASE SecsLeft # 0 /\ ~(~server.sent /\ perf.role = "server" /\ NoneCounted)
  <2>1. server' = Fewer /\ queue' = Tail(queue) /\ UNCHANGED <<perf, modem>>
    BY <1>3 DEF TakeServerRx
  <2>2. /\ IsList(modem) /\ ToSet(queue) = {Head(queue)} \cup ToSet(queue')
        /\ Number(queue', RxEvents) \in Nat
        /\ Number(queue, RxEvents) = Number(queue', RxEvents) + 1
    BY <1>0, <2>1, Took
  <2>3. Lists'
    BY <1>0, <2>1, TakenLists
  <2>4. ~(perf.role = "client")
    BY <1>0, <2>2 DEF PerfInv, Runs, ClientRun, ClientOnly
  <2>5. ASSUME perf.role = "server"
        PROVE  ServerRun'
    <3>1. server'.sent = server.sent /\ server'.count = IF server.count = 0 THEN 0 ELSE server.count - 1
      BY <1>0, <2>1, FewerCount
    <3>2. server.count \in Nat /\ Number(modem, Rxs) \in Nat
      BY <1>0, IsRx DEF Remembers
    <3>3. ToCome' + 1 = ToCome /\ ToCome' \in Nat
      BY <2>1, <2>2, <3>2 DEF ToCome
    <3>4. (Sending => Sending') /\ (Ended => Ended')
      BY <1>0, <2>1, <2>2 DEF Sending, Ended
    <3>5. ServerRun
      BY <1>0, <2>5 DEF PerfInv, Runs
    <3>6. server'.sent => Sending'
      BY <3>1, <3>4, <3>5 DEF ServerRun
    <3>7. CASE Ended
      BY <3>4, <3>6, <3>7 DEF ServerRun
    <3>8. CASE ~Ended
      <4>1. server.count <= ToCome
        BY <3>5, <3>8 DEF ServerRun
      <4>2. server'.count <= ToCome'
        BY <3>1, <3>2, <3>3, <4>1
      <4>3. server.sent \/ server'.count # 0
        BY <1>3, <2>1, <2>5 DEF NoneCounted
      <4>4. Sending' \/ ToCome' >= 1
        <5>1. CASE server.sent
          BY <3>4, <3>5, <5>1 DEF ServerRun
        <5>2. CASE server'.count # 0
          BY <3>1, <3>2, <3>3, <4>2, <5>2
        <5> QED
          BY <4>3, <5>1, <5>2
      <4> QED
        BY <3>6, <4>2, <4>4 DEF ServerRun
    <3> QED
      BY <3>7, <3>8
  <2> QED
    BY <2>1, <2>3, <2>4, <2>5 DEF Runs
<1> QED
  BY <1>1, <1>2, <1>3

\* A failed RX: the end, or a restart.
LEMMA TakeServerRxFailedRuns ==
  ASSUME PerfInv, NEW fast \in BOOLEAN, NEW taken \in BOOLEAN, TakeServerRxFailed(fast, taken)
  PROVE  Runs'
<1>0. /\ Lists /\ Remembers /\ perf.on_going /\ queue # <<>> /\ Head(queue).id = "server_rx_failed"
      /\ queue' = Tail(queue)
  BY DEF PerfInv, LendInv, Runs, TakeServerRxFailed, Handles, Takes
<1>1. CASE perf.role = "server" /\ Fewer.count = 0 /\ ~fast
  <2>1. Restart(taken)
    BY <1>1 DEF TakeServerRxFailed
  <2> QED
    BY <1>0, <1>1, <2>1, RestartRuns
<1>2. CASE ~(perf.role = "server" /\ Fewer.count = 0 /\ ~fast)
  <2>1. modem' = modem /\ ~perf'.on_going
    BY <1>0, <1>2 DEF TakeServerRxFailed, CmdDone, Remembers
  <2>2. Lists'
    BY <1>0, <2>1, TakenLists
  <2> QED
    BY <2>1, <2>2, Over
<1> QED
  BY <1>1, <1>2

\* The request of a client: its report is queued.
LEMMA TakeRequestRuns ==
  ASSUME PerfInv, NEW known \in BOOLEAN, TakeRequest(known)
  PROVE  Runs'
<1>0. /\ Lists /\ Remembers /\ queue # <<>> /\ Head(queue).id = "requested"
      /\ UNCHANGED <<perf, server, modem>>
      /\ queue' = Append(Tail(queue), Event("report")) \/ queue' = Tail(queue)
  BY DEF PerfInv, LendInv, Runs, TakeRequest, Handles, Takes
<1>1. /\ IsList(modem) /\ ToSet(queue) = {Head(queue)} \cup ToSet(Tail(queue))
      /\ Number(queue, RxEvents) = Number(Tail(queue), RxEvents) /\ Number(Tail(queue), RxEvents) \in Nat
  BY <1>0, Took
<1>2. ToSet(Tail(queue)) \subseteq ToSet(queue') /\ Number(queue', RxEvents) = Number(Tail(queue), RxEvents)
  <2>1. CASE queue' = Append(Tail(queue), Event("report"))
    BY <1>0, <2>1, Replaced
  <2>2. CASE queue' = Tail(queue)
    BY <2>2
  <2> QED
    BY <1>0, <2>1, <2>2
<1>3. Lists'
  BY <1>0, ReplacedLists
<1>4. ~(perf.on_going /\ perf.role = "client")
  BY <1>0, <1>1 DEF PerfInv, Runs, ClientRun, ClientOnly
<1>5. perf'.on_going /\ perf'.role = "server" => ServerRun'
  <2>1. Number(modem', Rxs) + Number(queue', RxEvents) >= ToCome
    BY <1>0, <1>1, <1>2, IsRx DEF ToCome
  <2>2. (Sending => Sending') /\ (Ended => Ended')
    BY <1>0, <1>1, <1>2 DEF Sending, Ended
  <2> QED
    BY <1>0, <1>3, <2>1, <2>2, ServerSame DEF PerfInv, Runs
<1> QED
  BY <1>0, <1>3, <1>4, <1>5 DEF Runs

\* The results are sent: the server starts over, or it is over.
LEMMA TakeResultsSentRuns ==
  ASSUME PerfInv, NEW taken \in BOOLEAN, TakeResultsSent(taken)
  PROVE  Runs'
<1>0. /\ Lists /\ Remembers /\ perf.on_going /\ queue # <<>> /\ Head(queue).id = "results"
      /\ queue' = Tail(queue)
  BY DEF PerfInv, LendInv, Runs, TakeResultsSent, Handles, Takes
<1>1. CASE SecsLeft = 0
  <2>1. modem' = modem /\ ~perf'.on_going
    BY <1>0, <1>1 DEF TakeResultsSent, CmdDone, Remembers
  <2>2. Lists'
    BY <1>0, <2>1, TakenLists
  <2> QED
    BY <2>1, <2>2, Over
<1>2. CASE SecsLeft # 0
  <2>1. RestartAfterResults(taken)
    BY <1>2 DEF TakeResultsSent
  <2>2. /\ IsList(queue') /\ ToSet(queue) = {Head(queue)} \cup ToSet(queue')
        /\ Number(queue', RxEvents) \in Nat
    BY <1>0, Took
  <2>3. /\ IsList(modem') /\ ToSet(modem) \subseteq ToSet(modem')
        /\ \A op \in ToSet(modem') : op \in ToSet(modem) \/ op \in Rxs
        /\ Number(modem', Rxs) = Number(modem, Rxs) + IF taken THEN 1 ELSE 0
    BY <1>0, <2>1, Started DEF RestartAfterResults
  <2>4. Lists'
    BY <1>0, <2>2, <2>3, ListsHold
  <2>5. perf'.role = perf.role /\ (perf'.on_going => taken)
    BY <1>0, <2>1 DEF RestartAfterResults, Remembers
  <2>6. perf.role # "client"
    BY <1>0, <2>2 DEF PerfInv, Runs, ClientRun, ClientOnly
  <2>7. ASSUME taken
        PROVE  ServerRun'
    <3>1. ~server'.sent /\ server'.count = 1
      <4>1. server' = [NoServer EXCEPT !.count = NoServer.count + 1, !.enabled = now]
        BY <2>1, <2>7 DEF RestartAfterResults, RxStart
      <4>2. NoServer.count + 1 = 1
        BY DEF NoServer
      <4>3. PICK m : m = 1 /\ server' = [NoServer EXCEPT !.count = m, !.enabled = now]
        BY <4>1, <4>2, Zenon
      <4> QED
        BY <4>3 DEF NoServer
    <3>2. ToCome' >= 1
      BY <1>0, <2>2, <2>3, <2>7, IsRx DEF ToCome
    <3> QED
      BY <3>1, <3>2 DEF ServerRun
  <2> QED
    BY <2>4, <2>5, <2>6, <2>7 DEF Runs
<1> QED
  BY <1>1, <1>2

\* RX is cancelled, so all of it is still to end, and nothing is counted any more.
LEMMA TakeReportRuns ==
  ASSUME PerfInv, NEW taken \in BOOLEAN, TakeReport(taken)
  PROVE  Runs'
<1> DEFINE tx == IF taken THEN <<Other("results")>> ELSE <<>>
<1>0. /\ Lists /\ Remembers /\ queue # <<>> /\ Head(queue).id = "report" /\ queue' = Tail(queue)
      /\ perf' = perf /\ server'.sent = taken /\ server'.count = 0
  BY DEF PerfInv, LendInv, Runs, TakeReport, Takes, NoServer
<1>1. /\ IsList(modem) /\ IsList(queue') /\ ToSet(queue) = {Head(queue)} \cup ToSet(queue')
      /\ Number(queue, RxEvents) = Number(queue', RxEvents) /\ Number(queue', RxEvents) \in Nat
  BY <1>0, Took
<1>2. PICK ops : ops = [i \in DOMAIN modem |-> Cancelled(modem[i])] /\ modem' = ops \o tx
  BY DEF TakeReport
<1>3. \A i \in DOMAIN modem : ops[i] = Cancelled(modem[i]) /\ modem[i] \in ToSet(modem)
  BY <1>2 DEF ToSet
<1>4. DOMAIN ops = DOMAIN modem /\ ops = [i \in DOMAIN modem |-> ops[i]]
  BY <1>2
<1>5. ASSUME NEW i \in DOMAIN modem
      PROVE  /\ modem[i] \in Rxs <=> ops[i] \in Rxs
             /\ ops[i].op = "server_rx" => ops[i] \in Rxs
             /\ modem[i].op = "results" => ops[i] = modem[i]
  <2>1. CASE modem[i].op = "server_rx"
    <3>1. modem[i] \in Rxs
      BY <1>0, <1>3, <2>1 DEF Lists
    <3>2. ops[i] = [modem[i] EXCEPT !.lost = TRUE]
      BY <1>3, <2>1 DEF Cancelled
    <3>3. ops[i] \in Rxs
      BY <3>1, <3>2 DEF Rxs
    <3> QED
      BY <2>1, <3>1, <3>3
  <2>2. CASE modem[i].op # "server_rx"
    <3>1. ops[i] = modem[i]
      BY <1>3, <2>2 DEF Cancelled
    <3> QED
      BY <2>2, <3>1, Ids
  <2> QED
    BY <2>1, <2>2
<1>6. IsList(ops) /\ Number(ops, Rxs) = Number(modem, Rxs)
  <2>1. \A i \in DOMAIN modem : modem[i] \in Rxs <=> ops[i] \in Rxs
    BY <1>5
  <2> QED
    BY <1>1, <1>4, <2>1, ListEach
<1>7. /\ IsList(tx) /\ ToSet(tx) \subseteq {Other("results")} /\ Number(tx, Rxs) = 0
      /\ taken => Other("results") \in ToSet(tx)
  <2>1. CASE taken
    <3>1. Other("results") \notin Rxs
      BY Ids
    <3> QED
      BY <2>1, <3>1, ListSingle
  <2>2. CASE ~taken
    BY <2>2, ListEmpty
  <2> QED
    BY <2>1, <2>2
<1> HIDE DEF tx
<1>8. /\ IsList(modem') /\ ToSet(modem') = ToSet(ops) \cup ToSet(tx)
      /\ Number(modem', Rxs) = Number(ops, Rxs) + Number(tx, Rxs)
  <2>1. /\ IsList(ops \o tx) /\ ToSet(ops \o tx) = ToSet(ops) \cup ToSet(tx)
        /\ Number(ops \o tx, Rxs) = Number(ops, Rxs) + Number(tx, Rxs)
    BY <1>6, <1>7, ListConcat
  <2> QED
    BY <1>2, <2>1
<1>9. \A op \in ToSet(ops) : \E i \in DOMAIN modem : op = ops[i]
  BY <1>4 DEF ToSet
<1>10. Lists'
  <2>1. \A op \in ToSet(modem') : op.op # "server_rx" \/ op \in Rxs
    BY <1>5, <1>7, <1>8, <1>9, Ids
  <2>2. ToSet(queue') \subseteq ToSet(queue)
    BY <1>1
  <2> QED
    BY <1>0, <1>1, <1>8, <2>1, <2>2, ListsHold
<1>11. ~(perf.on_going /\ perf.role = "client")
  BY <1>0, <1>1 DEF PerfInv, Runs, ClientRun, ClientOnly
<1>12. ASSUME perf.on_going, perf.role = "server"
       PROVE  ServerRun'
  <2>1. Number(modem, Rxs) \in Nat
    BY <1>0, IsRx
  <2>2. ToCome' = ToCome /\ ToCome' \in Nat
    BY <1>1, <1>6, <1>7, <1>8, <2>1 DEF ToCome
  <2>3. Sending => Sending'
    <3>1. ASSUME NEW op \in ToSet(modem), op.op = "results"
          PROVE  op \in ToSet(modem')
      <4>1. PICK i \in DOMAIN modem : op = modem[i]
        BY DEF ToSet
      <4>2. ops[i] = op
        BY <1>5, <3>1, <4>1
      <4>3. ops[i] \in ToSet(ops)
        BY <1>4 DEF ToSet
      <4> QED
        BY <1>8, <4>2, <4>3
    <3> QED
      BY <1>0, <1>1, <3>1 DEF Sending
  <2>4. taken => Sending'
    BY <1>7, <1>8, Ids DEF Sending
  <2>5. Ended => Ended'
    BY <1>0, <1>1 DEF Ended
  <2>6. ServerRun
    BY <1>12 DEF PerfInv, Runs
  <2> QED
    BY <1>0, <2>2, <2>3, <2>4, <2>5, <2>6 DEF ServerRun
<1> QED
  BY <1>0, <1>10, <1>11, <1>12 DEF Runs

\* The perf thread, at the events of a server.
LEMMA ServerRunsOn ==
  ASSUME PerfInv, ServerRuns
  PROVE  Runs'
<1>1. CASE TakeCmdDone
  <2>1. queue # <<>> /\ queue' = Tail(queue) /\ modem' = modem /\ ~perf'.on_going
    BY <1>1 DEF TakeCmdDone, Takes, CmdDone, PerfInv, LendInv, Remembers
  <2>2. Lists'
    BY <2>1, TakenLists DEF PerfInv, Runs
  <2> QED
    BY <2>1, <2>2, Over
<1> QED
  BY <1>1, TakeServerRxRuns, TakeServerRxFailedRuns, TakeRequestRuns, TakeReportRuns,
     TakeResultsSentRuns DEF ServerRuns

\* What is queued behind the other events.
LEMMA Queued ==
  ASSUME Lists, NEW id, queue' = Append(queue, Event(id)), id \notin {"server_rx", "server_rx_failed"}
  PROVE  /\ IsList(modem) /\ IsList(queue') /\ ToSet(queue') = ToSet(queue) \cup {Event(id)}
         /\ Number(queue', RxEvents) = Number(queue, RxEvents)
<1>1. IsList(queue) /\ IsList(modem) /\ Number(queue, RxEvents) \in Nat
  BY IsRx DEF Lists, IsList
<1>2. Event(id) \notin RxEvents
  BY Ids
<1>3. /\ IsList(Append(queue, Event(id))) /\ ToSet(Append(queue, Event(id))) = ToSet(queue) \cup {Event(id)}
      /\ Number(Append(queue, Event(id)), RxEvents) =
           Number(queue, RxEvents) + IF Event(id) \in RxEvents THEN 1 ELSE 0
  BY <1>1, ListAppend
<1> QED
  BY <1>1, <1>2, <1>3

\* The types of the lists, when only that changed.
LEMMA QueuedLists ==
  ASSUME Lists, NEW id, queue' = Append(queue, Event(id)), id \notin {"server_rx", "server_rx_failed"},
         modem' = modem
  PROVE  Lists'
<1>1. IsList(modem) /\ IsList(queue') /\ ToSet(queue') = ToSet(queue) \cup {Event(id)}
  BY Queued
<1>2. IsList(modem')
  BY <1>1
<1> QED
  BY <1>1, <1>2, Ids, ListsHold

--------------------------------------------------------------------------------
(* The modem, the other device and time.                                    *)

\* A TX is over, sent or not.
LEMMA TxEndsRuns ==
  ASSUME PerfInv, NEW failed \in BOOLEAN, NEW answered \in BOOLEAN, TxEnds(failed, answered)
  PROVE  Runs'
<1> DEFINE tx == modem[1]
           more == IF answered THEN <<Feedback(tx.process)>> ELSE <<>>
           news == <<Completed(tx.handle)>> \o more
<1>0. /\ Lists /\ Remembers /\ 1 \in DOMAIN modem /\ modem' = RemoveAt(modem, 1) /\ tx.op = "tx"
      /\ queue' = IF tool THEN queue \o news ELSE queue
      /\ UNCHANGED <<perf, client, server, timer, shell, hitch>>
  BY DEF PerfInv, LendInv, Runs, TxEnds, Ends, Put, users
<1>1. /\ IsList(modem') /\ ToSet(modem) = {tx} \cup ToSet(modem')
      /\ Number(modem, Rxs) = Number(modem', Rxs) /\ Number(modem', Rxs) \in Nat
  BY <1>0, Removed
<1>2. /\ IsList(news) /\ Completed(tx.handle) \in ToSet(news)
      /\ \A event \in ToSet(news) : event.id \in {"tx", "feedback"}
      /\ Number(news, RxEvents) = 0
  <2>1. IsList(<<Completed(tx.handle)>>) /\ ToSet(<<Completed(tx.handle)>>) = {Completed(tx.handle)}
    BY ListSingle
  <2>2. IsList(more) /\ ToSet(more) \subseteq {Feedback(tx.process)}
    <3>1. CASE answered
      BY <3>1, ListSingle
    <3>2. CASE ~answered
      BY <3>2, ListEmpty
    <3> QED
      BY <3>1, <3>2
  <2> HIDE DEF more
  <2>3. IsList(news) /\ ToSet(news) = {Completed(tx.handle)} \cup ToSet(more)
    BY <2>1, <2>2, ListConcat
  <2>4. \A event \in ToSet(news) : event.id \in {"tx", "feedback"}
    BY <2>2, <2>3, Ids
  <2>5. ToSet(news) \cap RxEvents = {}
    BY <2>4, Ids
  <2> HIDE DEF news
  <2> QED
    BY <2>3, <2>4, <2>5, ListNumber
<1> HIDE DEF news
<1>3. IsList(queue) /\ Number(queue, RxEvents) \in Nat
  BY <1>0, IsRx DEF Lists, IsList
<1>4. /\ IsList(queue') /\ ToSet(queue) \subseteq ToSet(queue')
      /\ \A event \in ToSet(queue') : event \in ToSet(queue) \/ event.id \in {"tx", "feedback"}
      /\ tool => Completed(tx.handle) \in ToSet(queue')
      /\ Number(queue', RxEvents) = Number(queue, RxEvents)
  <2>1. CASE ~tool
    BY <1>0, <1>3, <2>1
  <2>2. CASE tool
    <3>1. /\ IsList(queue \o news) /\ ToSet(queue \o news) = ToSet(queue) \cup ToSet(news)
          /\ Number(queue \o news, RxEvents) = Number(queue, RxEvents) + Number(news, RxEvents)
      BY <1>2, <1>3, ListConcat
    <3>2. queue' = queue \o news
      BY <1>0, <2>2
    <3>3. Number(queue \o news, RxEvents) = Number(queue, RxEvents)
      BY <1>2, <1>3, <3>1
    <3> QED
      BY <1>2, <3>1, <3>2, <3>3
  <2> QED
    BY <2>1, <2>2
<1>5. Lists'
  BY <1>0, <1>1, <1>4, ListsHold
<1>6. perf'.on_going /\ perf'.role = "server" => ServerRun'
  <2>1. Number(modem', Rxs) + Number(queue', RxEvents) >= ToCome
    BY <1>1, <1>3, <1>4 DEF ToCome
  <2>2. (Sending => Sending') /\ (Ended => Ended')
    BY <1>0, <1>1, <1>4 DEF Sending, Ended
  <2> QED
    BY <1>0, <1>5, <2>1, <2>2, ServerSame DEF PerfInv, Runs
<1>7. perf'.on_going /\ perf'.role = "client" => ClientRun'
  <2> SUFFICES ASSUME perf.on_going, perf.role = "client"
               PROVE  ClientRun'
    BY <1>0
  <2>1. ClientRun
    BY DEF PerfInv, Runs
  <2>2. tool
    BY DEF PerfInv, LendInv, ToolAgrees
  <2>3. ClientOnly'
    BY <1>1, <1>4, <2>1 DEF ClientRun, ClientOnly
  <2>4. Awaited => Awaited'
    BY <1>0, <1>1, <1>4 DEF Awaited
  <2>5. Completed(tx.handle).id = "tx" /\ Completed(tx.handle).handle = tx.handle
    BY DEF Completed
  <2>6. Driven'
    <3>1. ASSUME NEW op \in ToSet(modem), op.op = "tx", op.handle \in {client.starting, client.middle}
          PROVE  Driven'
      <4>1. CASE op \in ToSet(modem')
        BY <1>0, <3>1, <4>1 DEF Driven
      <4>2. CASE op = tx
        <5>1. Completed(tx.handle) \in ToSet(queue')
          BY <1>4, <2>2
        <5> HIDE DEF tx
        <5> QED
          BY <1>0, <2>5, <3>1, <4>2, <5>1 DEF Driven
      <4> QED
        BY <1>1, <4>1, <4>2
    <3>2. ASSUME NEW event \in ToSet(queue),
                 event.id = "timer" \/ (event.id = "tx" /\ event.handle \in {client.starting, client.middle})
          PROVE  Driven'
      BY <1>0, <1>4, <3>2 DEF Driven
    <3>3. timer \/ hitch \/ shell # "idle" \/ Awaited => Driven'
      BY <1>0, <2>4 DEF Driven
    <3> QED
      BY <2>1, <3>1, <3>2, <3>3 DEF ClientRun, Driven
  <2> QED
    BY <1>0, <2>1, <2>3, <2>4, <2>6 DEF ClientRun
<1> QED
  BY <1>5, <1>6, <1>7 DEF Runs

\* The request, the RX for the results, and the results.
LEMMA OtherEndsRuns ==
  ASSUME PerfInv, NEW i \in DOMAIN modem, OtherEnds(i)
  PROVE  Runs'
<1> DEFINE op == modem[i]
<1>0. /\ Lists /\ Remembers /\ modem' = RemoveAt(modem, i)
      /\ op.op \in {"request", "results_rx", "results"}
      /\ queue' = IF tool THEN queue \o (IF op.op = "request" THEN <<>> ELSE <<Event(op.op)>>) ELSE queue
      /\ UNCHANGED <<perf, client, server, timer, shell, hitch>>
  BY DEF PerfInv, LendInv, Runs, OtherEnds, Ends, Put, users
<1>1. /\ IsList(modem') /\ ToSet(modem) = {op} \cup ToSet(modem')
      /\ Number(modem, Rxs) = Number(modem', Rxs) /\ Number(modem', Rxs) \in Nat
  BY <1>0, Removed
<1>3. IsList(queue) /\ Number(queue, RxEvents) \in Nat
  BY <1>0, IsRx DEF Lists, IsList
<1>4. /\ IsList(queue') /\ ToSet(queue) \subseteq ToSet(queue')
      /\ ToSet(queue') \subseteq ToSet(queue) \cup {Event(op.op)}
      /\ op.op # "request" => \A event \in ToSet(queue') : event \in ToSet(queue) \/ event.id = op.op
      /\ op.op = "request" => ToSet(queue') \subseteq ToSet(queue)
      /\ tool /\ op.op # "request" => Event(op.op) \in ToSet(queue')
      /\ Number(queue', RxEvents) = Number(queue, RxEvents)
  <2>1. CASE ~tool
    BY <1>0, <1>3, <2>1
  <2>2. CASE tool /\ op.op = "request"
    <3>1. queue' = queue \o <<>>
      BY <1>0, <2>2
    <3>2. IsList(queue \o <<>>) /\ ToSet(queue \o <<>>) = ToSet(queue) \cup ToSet(<<>>)
          /\ Number(queue \o <<>>, RxEvents) = Number(queue, RxEvents) + Number(<<>>, RxEvents)
      BY <1>3, ListConcat, ListEmpty
    <3>3. ToSet(<<>>) = {} /\ Number(<<>>, RxEvents) = 0
      BY ListEmpty
    <3> QED
      BY <1>3, <2>2, <3>1, <3>2, <3>3
  <2>3. CASE tool /\ op.op # "request"
    <3>1. PICK event : event = Event(op.op)
      OBVIOUS
    <3>2. queue' = queue \o <<event>>
      BY <1>0, <2>3, <3>1
    <3>3. event.id = op.op /\ event \notin RxEvents
      BY <1>0, <3>1, Ids
    <3>4. /\ IsList(<<event>>) /\ ToSet(<<event>>) = {event}
          /\ Number(<<event>>, RxEvents) = IF event \in RxEvents THEN 1 ELSE 0
      BY ListSingle
    <3>5. /\ IsList(queue \o <<event>>) /\ ToSet(queue \o <<event>>) = ToSet(queue) \cup {event}
          /\ Number(queue \o <<event>>, RxEvents) = Number(queue, RxEvents) + Number(<<event>>, RxEvents)
      BY <1>3, <3>4, ListConcat
    <3>6. Number(queue \o <<event>>, RxEvents) = Number(queue, RxEvents)
      BY <1>3, <3>3, <3>4, <3>5
    <3> HIDE DEF op
    <3> QED
      BY <2>3, <3>1, <3>2, <3>3, <3>5, <3>6
  <2> QED
    BY <2>1, <2>2, <2>3
<1>8. \A event \in ToSet(queue') : event \in ToSet(queue) \/ event.id = op.op
  BY <1>4
<1> HIDE DEF op
<1>5. Lists'
  <2>1. \A event \in ToSet(queue') : event \in ToSet(queue) \/ event.id \notin {"server_rx", "server_rx_failed"}
    BY <1>0, <1>8
  <2> QED
    BY <1>0, <1>1, <1>4, <2>1, ListsHold
<1>6. perf'.on_going /\ perf'.role = "server" => ServerRun'
  <2> SUFFICES ASSUME perf.on_going, perf.role = "server"
               PROVE  ServerRun'
    BY <1>0
  <2>1. Number(modem', Rxs) + Number(queue', RxEvents) >= ToCome
    BY <1>1, <1>3, <1>4 DEF ToCome
  <2>2. tool
    BY DEF PerfInv, LendInv, ToolAgrees
  <2>3. (Sending => Sending') /\ (Ended => Ended')
    BY <1>0, <1>1, <1>4, <2>2, Ids DEF Sending, Ended
  <2> QED
    BY <1>0, <1>5, <2>1, <2>3, ServerSame DEF PerfInv, Runs
<1>7. perf'.on_going /\ perf'.role = "client" => ClientRun'
  <2> SUFFICES ASSUME perf.on_going, perf.role = "client"
               PROVE  ClientRun'
    BY <1>0
  <2>1. ClientRun
    BY DEF PerfInv, Runs
  <2>2. tool
    BY DEF PerfInv, LendInv, ToolAgrees
  <2>3. op.op # "results"
    BY <1>1, <2>1 DEF ClientRun, ClientOnly
  <2>4. ClientOnly'
    <3>1. \A o \in ToSet(modem') : o.op \in {"tx", "request", "results_rx"}
      BY <1>1, <2>1 DEF ClientRun, ClientOnly
    <3>2. \A event \in ToSet(queue') : event \in ToSet(queue) \/ event.id = "results_rx"
      BY <1>0, <1>4, <2>3
    <3> QED
      BY <2>1, <3>1, <3>2 DEF ClientRun, ClientOnly
  <2>5. Awaited => Awaited'
    BY <1>0, <1>1, <1>4, <2>2, Ids DEF Awaited
  <2>6. Driven'
    <3>1. \A o \in ToSet(modem) : o.op = "tx" => o \in ToSet(modem')
      BY <1>0, <1>1
    <3> QED
      BY <1>0, <1>4, <2>1, <2>5, <3>1 DEF ClientRun, Driven
  <2> QED
    BY <1>0, <2>1, <2>4, <2>5, <2>6 DEF ClientRun
<1> QED
  BY <1>5, <1>6, <1>7 DEF Runs

\* A client's modem performs no RX of a server.
LEMMA ClientHasNoRx ==
  ASSUME Runs, NEW i \in DOMAIN modem, modem[i].op = "server_rx"
  PROVE  /\ ~(perf.on_going /\ perf.role = "client")
         /\ modem[i] \in ToSet(modem) /\ modem[i] \in Rxs /\ IsList(modem)
<1>1. modem[i] \in ToSet(modem) /\ IsList(modem)
  BY Removed DEF Runs, Lists, IsList
<1> QED
  BY <1>1 DEF Runs, ClientRun, ClientOnly, Lists

\* An RX of the server is over, in time or not.
LEMMA RxEndsRuns ==
  ASSUME PerfInv, NEW i \in DOMAIN modem, NEW failed \in BOOLEAN, RxEnds(i, failed)
  PROVE  Runs'
<1>0. /\ Lists /\ Remembers /\ modem' = RemoveAt(modem, i) /\ modem[i].op = "server_rx"
      /\ queue' = IF tool THEN queue \o <<IF failed THEN RxFailed(modem[i].lost) ELSE Event("server_rx")>>
                  ELSE queue
      /\ UNCHANGED <<perf, client, server, timer, shell, hitch>>
  BY DEF PerfInv, LendInv, Runs, RxEnds, Ends, Put, users
<1>1. ~(perf.on_going /\ perf.role = "client") /\ modem[i] \in Rxs
  BY <1>0, ClientHasNoRx DEF PerfInv
<1>2. /\ IsList(modem') /\ ToSet(modem) = {modem[i]} \cup ToSet(modem')
      /\ Number(modem, Rxs) = Number(modem', Rxs) + 1 /\ Number(modem', Rxs) \in Nat
  BY <1>0, Removed
<1>3. PICK event : event = IF failed THEN RxFailed(modem[i].lost) ELSE Event("server_rx")
  OBVIOUS
<1>4. event \in RxEvents
  <2>1. modem[i].lost \in BOOLEAN
    BY <1>1 DEF Rxs
  <2> QED
    BY <1>3, <2>1, Ids DEF RxEvents
<1>5. IsList(queue) /\ Number(queue, RxEvents) \in Nat
  BY <1>0, IsRx DEF Lists, IsList
<1>6. /\ IsList(queue \o <<event>>) /\ ToSet(queue \o <<event>>) = ToSet(queue) \cup {event}
      /\ Number(queue \o <<event>>, RxEvents) = Number(queue, RxEvents) + 1
  <2>1. IsList(<<event>>) /\ ToSet(<<event>>) = {event} /\ Number(<<event>>, RxEvents) = 1
    BY <1>4, ListSingle
  <2> QED
    BY <1>5, <2>1, ListConcat
<1>7. /\ IsList(queue') /\ ToSet(queue) \subseteq ToSet(queue') /\ ToSet(queue') \subseteq ToSet(queue) \cup {event}
      /\ tool => Number(queue', RxEvents) = Number(queue, RxEvents) + 1
  <2>1. queue' = IF tool THEN queue \o <<event>> ELSE queue
    BY <1>0, <1>3
  <2> QED
    BY <1>5, <1>6, <2>1
<1>8. Lists'
  BY <1>0, <1>2, <1>4, <1>7, ListsHold
<1>9. perf'.on_going /\ perf'.role = "server" => ServerRun'
  <2> SUFFICES ASSUME perf.on_going, perf.role = "server"
               PROVE  ServerRun'
    BY <1>0
  <2>1. tool
    BY DEF PerfInv, LendInv, ToolAgrees
  <2>2. Number(modem', Rxs) + Number(queue', RxEvents) >= ToCome
    BY <1>2, <1>5, <1>7, <2>1 DEF ToCome
  <2>3. (Sending => Sending') /\ (Ended => Ended')
    BY <1>0, <1>2, <1>7 DEF Sending, Ended
  <2> QED
    BY <1>0, <1>8, <2>2, <2>3, ServerSame DEF PerfInv, Runs
<1> QED
  BY <1>0, <1>1, <1>8, <1>9 DEF Runs

\* An RX of the server that hears something is one still.
LEMMA Hears ==
  ASSUME Lists, NEW i \in DOMAIN modem, modem[i].op = "server_rx", NEW h \in {"header", "data"}
  PROVE  LET ops == [modem EXCEPT ![i].heard = h] IN
         /\ IsList(ops) /\ Number(ops, Rxs) = Number(modem, Rxs)
         /\ \A op \in ToSet(ops) : op \in ToSet(modem) \/ op \in Rxs
         /\ \A op \in ToSet(modem) : op.op # "server_rx" => op \in ToSet(ops)
<1>1. PICK rx : rx = [modem[i] EXCEPT !.heard = h]
  OBVIOUS
<1>2. IsList(modem) /\ modem[i] \in ToSet(modem) /\ modem[i] \in Rxs
  BY Removed DEF Lists, IsList
<1>3. rx \in Rxs
  BY <1>1, <1>2 DEF Rxs
<1>5. [modem EXCEPT ![i].heard = h] = [modem EXCEPT ![i] = rx]
  BY <1>1
<1>6. PICK ops : ops = [modem EXCEPT ![i] = rx]
  OBVIOUS
<1>4. /\ IsList(ops) /\ ToSet(ops) \subseteq ToSet(modem) \cup {rx}
      /\ ToSet(modem) \subseteq {modem[i]} \cup ToSet(ops)
      /\ Number(ops, Rxs) = Number(modem, Rxs)
  <2>1. modem[i] \in Rxs <=> rx \in Rxs
    BY <1>2, <1>3
  <2>2. /\ DOMAIN ops = DOMAIN modem /\ ops = [j \in DOMAIN modem |-> ops[j]] /\ ops[i] = rx
        /\ \A j \in DOMAIN modem : j # i => ops[j] = modem[j]
    <3>1. modem = [j \in DOMAIN modem |-> modem[j]]
      BY <1>2, LenProperties DEF IsList
    <3> QED
      BY <1>6, <3>1
  <2> QED
    BY <1>2, <2>1, <2>2, ListReplaced
<1>7. /\ IsList(ops) /\ Number(ops, Rxs) = Number(modem, Rxs)
      /\ \A op \in ToSet(ops) : op \in ToSet(modem) \/ op \in Rxs
      /\ \A op \in ToSet(modem) : op.op # "server_rx" => op \in ToSet(ops)
  BY <1>2, <1>3, <1>4, <1>6
<1> QED
  BY <1>5, <1>6, <1>7, Zenon

\* The server hears a request.
LEMMA HearRequestRuns ==
  ASSUME PerfInv, NEW i \in DOMAIN modem, HearRequest(i)
  PROVE  Runs'
<1>0. /\ Lists /\ Remembers /\ modem[i].op = "server_rx" /\ tool
      /\ modem' = (IF perf.use_harq THEN [modem EXCEPT ![i].heard = "data"] ELSE modem)
      /\ queue' = queue \o <<Event("requested")>>
      /\ UNCHANGED <<perf, client, server, timer, shell, hitch>>
  BY DEF PerfInv, LendInv, Runs, HearRequest, Listens, Put, users
<1>1. ~(perf.on_going /\ perf.role = "client") /\ IsList(modem)
  BY <1>0, ClientHasNoRx DEF PerfInv
<1>2. /\ IsList(modem') /\ Number(modem', Rxs) = Number(modem, Rxs)
      /\ \A op \in ToSet(modem') : op \in ToSet(modem) \/ op \in Rxs
      /\ \A op \in ToSet(modem) : op.op # "server_rx" => op \in ToSet(modem')
  <2>1. PICK h \in {"header", "data"} : h = "data"
    OBVIOUS
  <2>2. CASE perf.use_harq
    <3>1. PICK ops : ops = [modem EXCEPT ![i].heard = h]
      OBVIOUS
    <3>2. modem' = ops
      BY <1>0, <2>1, <2>2, <3>1
    <3>3. /\ IsList(ops) /\ Number(ops, Rxs) = Number(modem, Rxs)
          /\ \A op \in ToSet(ops) : op \in ToSet(modem) \/ op \in Rxs
          /\ \A op \in ToSet(modem) : op.op # "server_rx" => op \in ToSet(ops)
      BY <1>0, <3>1, Hears
    <3> QED
      BY <3>2, <3>3
  <2>3. CASE ~perf.use_harq
    BY <1>0, <1>1, <2>3
  <2> QED
    BY <2>2, <2>3
<1>3. /\ IsList(queue') /\ ToSet(queue') = ToSet(queue) \cup {Event("requested")}
      /\ Number(queue', RxEvents) = Number(queue, RxEvents)
  <2>1. PICK event : event = Event("requested")
    OBVIOUS
  <2>2. event \notin RxEvents
    BY <2>1, Ids
  <2>3. IsList(queue) /\ Number(queue, RxEvents) \in Nat
    BY <1>0, IsRx DEF Lists, IsList
  <2>4. IsList(<<event>>) /\ ToSet(<<event>>) = {event} /\ Number(<<event>>, RxEvents) = 0
    BY <2>2, ListSingle
  <2>5. /\ IsList(queue \o <<event>>) /\ ToSet(queue \o <<event>>) = ToSet(queue) \cup {event}
        /\ Number(queue \o <<event>>, RxEvents) = Number(queue, RxEvents)
    BY <2>3, <2>4, ListConcat
  <2> QED
    BY <1>0, <2>1, <2>5
<1>4. Lists'
  <2>1. Event("requested").id = "requested"
    BY DEF Event
  <2>2. \A event \in ToSet(queue') : event \in ToSet(queue) \/ event.id \notin {"server_rx", "server_rx_failed"}
    BY <1>3, <2>1
  <2> QED
    BY <1>0, <1>2, <1>3, <2>2, ListsHold
<1>5. perf'.on_going /\ perf'.role = "server" => ServerRun'
  <2>1. Number(modem', Rxs) + Number(queue', RxEvents) >= ToCome
    <3>1. Number(modem, Rxs) \in Nat /\ Number(queue, RxEvents) \in Nat
      BY <1>0, IsRx
    <3>2. Number(modem', Rxs) = Number(modem, Rxs) /\ Number(queue', RxEvents) = Number(queue, RxEvents)
      BY <1>2, <1>3
    <3> QED
      BY <3>1, <3>2 DEF ToCome
  <2>2. (Sending => Sending') /\ (Ended => Ended')
    BY <1>2, <1>3 DEF Sending, Ended
  <2> QED
    BY <1>0, <1>4, <2>1, <2>2, ServerSame DEF PerfInv, Runs
<1> QED
  BY <1>0, <1>1, <1>4, <1>5 DEF Runs

\* The server hears a header, and its next RX is there before this one is over.
LEMMA HeaderRuns ==
  ASSUME PerfInv, NEW i \in DOMAIN modem, NEW taken \in BOOLEAN, Header(i, taken)
  PROVE  Runs'
<1> DEFINE data == IF perf.on_going THEN server ELSE NoServer
<1>0. /\ Lists /\ Remembers /\ modem[i].op = "server_rx" /\ queue' = queue
      /\ perf' = [perf EXCEPT !.on_going = @ /\ taken]
      /\ RxStart(perf.duration, taken, data, [modem EXCEPT ![i].heard = "header"])
  BY DEF PerfInv, LendInv, Runs, Header, Listens
<1>1. ~(perf.on_going /\ perf.role = "client")
  BY <1>0, ClientHasNoRx DEF PerfInv
<1>2. perf'.role = perf.role /\ (perf'.on_going <=> perf.on_going /\ taken)
  BY <1>0 DEF Remembers
<1>3. PICK ops : ops = [modem EXCEPT ![i].heard = "header"]
  OBVIOUS
<1>4. /\ IsList(ops) /\ Number(ops, Rxs) = Number(modem, Rxs)
      /\ \A op \in ToSet(ops) : op \in ToSet(modem) \/ op \in Rxs
      /\ \A op \in ToSet(modem) : op.op # "server_rx" => op \in ToSet(ops)
  <2>1. PICK h \in {"header", "data"} : h = "header"
    OBVIOUS
  <2>2. ops = [modem EXCEPT ![i].heard = h]
    BY <1>3, <2>1
  <2> QED
    BY <1>0, <2>2, Hears
<1>5. /\ IsList(modem') /\ ToSet(ops) \subseteq ToSet(modem')
      /\ \A op \in ToSet(modem') : op \in ToSet(ops) \/ op \in Rxs
      /\ Number(modem', Rxs) = Number(ops, Rxs) + IF taken THEN 1 ELSE 0
  <2>0. Number(ops, Rxs) \in Nat /\ RxStart(perf.duration, taken, data, ops)
    <3>1. RxStart(perf.duration, taken, data, ops)
      BY <1>0, <1>3, Zenon
    <3> QED
      BY <1>0, <1>4, <3>1, IsRx
  <2>1. CASE ~taken
    BY <1>4, <2>0, <2>1 DEF RxStart
  <2>2. CASE taken
    <3>1. PICK rx : rx = ServerRx(now + (IF perf.duration = 0 THEN 0 ELSE 1), Receives(ops))
      OBVIOUS
    <3>2. rx \in Rxs
      <4>1. Receives(ops) \in BOOLEAN
        BY DEF Receives
      <4>2. now + (IF perf.duration = 0 THEN 0 ELSE 1) \in Int
        BY <1>0 DEF Remembers
      <4> QED
        BY <3>1, <4>1, <4>2 DEF ServerRx, Rxs
    <3>3. modem' = Append(ops, rx)
      BY <2>0, <2>2, <3>1 DEF RxStart
    <3>4. /\ IsList(Append(ops, rx)) /\ ToSet(Append(ops, rx)) = ToSet(ops) \cup {rx}
          /\ Number(Append(ops, rx), Rxs) = Number(ops, Rxs) + IF rx \in Rxs THEN 1 ELSE 0
      BY <1>4, ListAppend
    <3> QED
      BY <2>2, <3>2, <3>3, <3>4
  <2> QED
    BY <2>1, <2>2
<1>6. IsList(queue') /\ ToSet(queue') = ToSet(queue) /\ Number(queue', RxEvents) = Number(queue, RxEvents)
  BY <1>0 DEF Lists, IsList
<1>7. Lists'
  BY <1>0, <1>4, <1>5, <1>6, ListsHold
<1>8. ASSUME perf'.on_going, perf'.role = "server"
      PROVE  ServerRun'
  <2>0. taken /\ perf.on_going /\ perf.role = "server"
    BY <1>2, <1>8
  <2>1. ServerRun
    BY <2>0 DEF PerfInv, Runs
  <2>2. server'.sent = server.sent /\ server'.count = server.count + 1
    <3>1. server' = [server EXCEPT !.count = @ + 1, !.enabled = now]
      BY <1>0, <2>0 DEF RxStart
    <3> QED
      BY <1>0, <3>1 DEF Remembers
  <2>3. ToCome' = ToCome + 1 /\ ToCome \in Nat /\ server.count \in Nat
    BY <1>0, <1>4, <1>5, <1>6, <2>0, IsRx DEF ToCome, Remembers
  <2>4. (Sending => Sending') /\ (Ended => Ended')
    BY <1>4, <1>5, <1>6 DEF Sending, Ended
  <2> QED
    BY <2>1, <2>2, <2>3, <2>4 DEF ServerRun
<1> QED
  BY <1>1, <1>2, <1>7, <1>8 DEF Runs

--------------------------------------------------------------------------------
(* The timer, control and the shell.                                        *)

\* Nothing of the lists changes, and the run goes on as it did.
LEMMA QuietRuns ==
  ASSUME PerfInv, UNCHANGED <<perf, client, server, modem, queue>>, timer => timer',
         hitch => hitch' \/ shell' # "idle", shell # "idle" => shell' # "idle",
         perf.on_going /\ perf.role = "client" => shell' # "report"
  PROVE  Runs'
<1>1. Lists'
  BY DEF PerfInv, Runs, Lists
<1>2. perf'.on_going /\ perf'.role = "server" => ServerRun'
  BY DEF PerfInv, Runs, ServerRun, ToCome, Sending, Ended
<1>3. perf'.on_going /\ perf'.role = "client" => ClientRun'
  <2> SUFFICES ASSUME perf.on_going, perf.role = "client"
               PROVE  ClientRun'
    OBVIOUS
  <2>1. ClientRun
    BY DEF PerfInv, Runs
  <2>2. ClientOnly' /\ (Awaited => Awaited')
    BY <2>1 DEF ClientRun, ClientOnly, Awaited
  <2>3. Driven'
    BY <2>1, <2>2 DEF ClientRun, Driven
  <2> QED
    BY <2>1, <2>2, <2>3 DEF ClientRun
<1> QED
  BY <1>1, <1>2, <1>3 DEF Runs

\* Results that a client has requested drive it, whatever the shell does.
LEMMA AwaitedRuns ==
  ASSUME PerfInv, perf.role = "client", client.requested, UNCHANGED <<client, server, modem, queue>>,
         shell' = "idle", perf'.role = perf.role, perf'.on_going => perf.on_going
  PROVE  Runs'
<1>1. Lists'
  BY DEF PerfInv, Runs, Lists
<1>2. ASSUME perf'.on_going
      PROVE  ClientRun'
  <2>1. ClientRun
    BY <1>2 DEF PerfInv, Runs
  <2>2. ClientOnly' /\ Awaited'
    BY <2>1 DEF ClientRun, ClientOnly, Awaited
  <2> QED
    BY <2>2 DEF ClientRun, Driven
<1> QED
  BY <1>1, <1>2 DEF Runs

\* The timer's event drives the client in its place.
LEMMA TimerExpiresRuns ==
  ASSUME PerfInv, TimerExpires
  PROVE  Runs'
<1>0. /\ Lists /\ Remembers /\ queue' = Append(queue, Event("timer")) /\ modem' = modem
      /\ UNCHANGED <<perf, client, server, shell>>
  BY DEF PerfInv, LendInv, Runs, TimerExpires, users
<1>1. /\ IsList(modem) /\ IsList(queue') /\ ToSet(queue') = ToSet(queue) \cup {Event("timer")}
      /\ Number(queue', RxEvents) = Number(queue, RxEvents)
  BY <1>0, Queued
<1>2. Lists'
  BY <1>0, QueuedLists
<1>3. perf'.on_going /\ perf'.role = "server" => ServerRun'
  <2>1. Number(modem', Rxs) + Number(queue', RxEvents) >= ToCome
    BY <1>0, <1>1, IsRx DEF ToCome
  <2>2. (Sending => Sending') /\ (Ended => Ended')
    BY <1>0, <1>1 DEF Sending, Ended
  <2> QED
    BY <1>0, <1>2, <2>1, <2>2, ServerSame DEF PerfInv, Runs
<1>4. perf'.on_going /\ perf'.role = "client" => ClientRun'
  <2> SUFFICES ASSUME perf.on_going, perf.role = "client"
               PROVE  ClientRun'
    BY <1>0
  <2>1. ClientRun
    BY DEF PerfInv, Runs
  <2>2. ClientOnly' /\ (Awaited => Awaited')
    BY <1>0, <1>1, <2>1, Ids DEF ClientRun, ClientOnly, Awaited
  <2>3. Driven'
    BY <1>1, Ids DEF Driven
  <2> QED
    BY <1>0, <2>1, <2>2, <2>3 DEF ClientRun
<1> QED
  BY <1>2, <1>3, <1>4 DEF Runs

\* Events of a perf that is over.
LEMMA DropRuns ==
  ASSUME PerfInv, Drop
  PROVE  Runs'
<1>1. queue # <<>> /\ queue' = Tail(queue) /\ modem' = modem /\ ~perf'.on_going
  BY DEF Drop
<1>2. Lists'
  BY <1>1, TakenLists DEF PerfInv, Runs
<1> QED
  BY <1>1, <1>2, Over

\* Control takes the modem back from a perf that is over.
LEMMA TakeDoneRuns ==
  ASSUME PerfInv, TakeDone
  PROVE  Runs'
<1>1. modem' = <<>> /\ queue' = queue /\ ~perf'.on_going
  BY DEF TakeDone, PerfInv, LendInv
<1>2. IsList(modem') /\ ToSet(modem') = {} /\ IsList(queue')
  BY <1>1, ListEmpty DEF PerfInv, Runs, Lists, IsList
<1>3. Lists'
  BY <1>1, <1>2, ListsHold DEF PerfInv, Runs
<1> QED
  BY <1>1, <1>3, Over

\* A client starts: the first round, or the timer, drives it.
LEMMA StartClientRuns ==
  ASSUME PerfAssumption, PerfInv, NEW useHarq \in BOOLEAN, NEW usable \in 0 .. Processes,
         NEW duration \in Durations, NEW sent \in Rounds, StartClient(useHarq, usable, duration, sent)
  PROVE  Runs'
<1> DEFINE window == IF useHarq THEN usable ELSE Window
<1>1. PICK txs : txs = [i \in 1 .. sent |-> Tx(i, IF useHarq THEN i ELSE Nobody)]
  OBVIOUS
<1>2. /\ queue = <<>> /\ queue' = <<>> /\ modem' = txs /\ shell' = "idle"
      /\ perf'.role = "client"
      /\ hitch' = (sent = 0 /\ window # 0) /\ timer' = (timer \/ window = 0) /\ sent <= window
      /\ client' = [NoClient EXCEPT !.handle = sent + 1,
                      !.starting = IF window = 0 THEN 0 ELSE 1,
                      !.middle = IF useHarq /\ window # 0 THEN (sent + 1) \div 2 ELSE 0]
  BY <1>1 DEF StartClient, Start, Shell
<1>3. sent \in Nat /\ window \in Nat
  BY DEF Rounds, PerfAssumption
<1>4. txs = [i \in 1 .. sent |-> txs[i]] /\ \A i \in 1 .. sent : txs[i].op = "tx"
  BY <1>1 DEF Tx
<1>5. /\ IsList(txs) /\ \A op \in ToSet(txs) : op.op = "tx"
      /\ sent # 0 => txs[1] \in ToSet(txs)
  BY <1>3, <1>4, TxsListed
<1> HIDE DEF window
<1>6. IsList(queue') /\ ToSet(queue') = {} /\ IsList(modem')
  BY <1>2, <1>5, ListEmpty
<1>7. Lists'
  BY <1>2, <1>5, <1>6, ListsHold DEF PerfInv, Runs
<1>8. ~client'.requested /\ client'.starting = IF window = 0 THEN 0 ELSE 1
  BY <1>2 DEF NoClient
<1>9. Driven'
  <2>1. CASE window = 0
    BY <1>2, <2>1 DEF Driven
  <2>2. CASE window # 0 /\ sent = 0
    BY <1>2, <2>2 DEF Driven
  <2>3. CASE window # 0 /\ sent # 0
    <3>1. txs[1].op = "tx" /\ txs[1].handle = 1 /\ txs[1] \in ToSet(modem')
      BY <1>1, <1>2, <1>3, <1>5, <2>3 DEF Tx
    <3>2. client'.starting = 1
      BY <1>8, <2>3
    <3> QED
      BY <3>1, <3>2 DEF Driven
  <2> QED
    BY <2>1, <2>2, <2>3
<1>10. ClientOnly'
  BY <1>2, <1>5, <1>6 DEF ClientOnly
<1>11. ClientRun'
  BY <1>2, <1>8, <1>9, <1>10 DEF ClientRun
<1> QED
  BY <1>2, <1>7, <1>11 DEF Runs

\* A server starts with one RX, counted and performed.
LEMMA StartServerRuns ==
  ASSUME PerfInv, NEW useHarq \in BOOLEAN, NEW duration \in Durations \cup {Infinite},
         StartServer(useHarq, duration)
  PROVE  Runs'
<1>1. PICK rx : rx = ServerRx(now + 1, FALSE)
  OBVIOUS
<1>2. /\ queue = <<>> /\ queue' = <<>> /\ modem' = <<rx>> /\ perf'.role = "server"
      /\ ~server'.sent /\ server'.count = 1
  BY <1>1 DEF StartServer, Start, Shell, NoServer
<1>3. rx \in Rxs
  BY <1>1 DEF ServerRx, Rxs, PerfInv, LendInv, Remembers
<1>4. /\ IsList(modem') /\ ToSet(modem') = {rx} /\ Number(modem', Rxs) = 1
      /\ IsList(queue') /\ ToSet(queue') = {} /\ Number(queue', RxEvents) = 0
  BY <1>2, <1>3, ListSingle, ListEmpty
<1>5. Lists'
  BY <1>3, <1>4, ListsHold DEF PerfInv, Runs
<1>6. ServerRun'
  BY <1>2, <1>4 DEF ServerRun, ToCome
<1> QED
  BY <1>2, <1>5, <1>6 DEF Runs

\* A start that fails leaves no perf.
LEMMA StartFailsRuns ==
  ASSUME PerfInv, StartFails
  PROVE  Runs'
<1>1. modem' = <<>> /\ queue' = queue /\ ~perf'.on_going
  BY DEF StartFails, NoPerf
<1>2. IsList(modem') /\ ToSet(modem') = {} /\ IsList(queue')
  BY <1>1, ListEmpty DEF PerfInv, Runs, Lists, IsList
<1>3. Lists'
  BY <1>1, <1>2, ListsHold DEF PerfInv, Runs
<1> QED
  BY <1>1, <1>3, Over

\* A stop: from here on, the shell's command is what the client waits for.
LEMMA StopRuns ==
  ASSUME PerfInv, Stop
  PROVE  Runs'
<1>1. UNCHANGED <<perf, client, server, modem, queue, timer>> /\ shell' = "stop"
  BY DEF Stop, Shell
<1> QED
  BY <1>1, QuietRuns

\* The stop of a client.
LEMMA StopClientRuns ==
  ASSUME PerfInv, StopClient
  PROVE  Runs'
<1>1. perf.role = "client" /\ UNCHANGED <<client, server, modem, queue, timer, hitch>>
  BY DEF StopClient
<1>2. CASE client.requested
  <2>1. shell' = "idle" /\ perf'.role = perf.role /\ (perf'.on_going => perf.on_going)
    BY <1>2 DEF StopClient, Shell, NoTime, PerfInv, LendInv, Remembers
  <2> QED
    BY <1>1, <1>2, <2>1, AwaitedRuns
<1>3. CASE ~client.requested
  <2>1. shell' = "request" /\ perf' = perf
    BY <1>3 DEF StopClient, Shell
  <2> QED
    BY <1>1, <2>1, QuietRuns
<1> QED
  BY <1>2, <1>3

\* The stop of a client that requests its results.
LEMMA StopRequestsRuns ==
  ASSUME PerfInv, NEW taken \in 0 .. 2, StopRequests(taken)
  PROVE  Runs'
<1>1. /\ Request(taken, NoTime) /\ queue' = queue /\ server' = server /\ shell' = "idle"
  BY DEF StopRequests, Shell
<1>2. IsList(queue')
  BY <1>1 DEF PerfInv, Runs, Lists, IsList
<1> QED
  BY <1>1, <1>2, RequestRuns

\* The stop of a server: its report is queued.
LEMMA StopServerRuns ==
  ASSUME PerfInv, StopServer
  PROVE  Runs'
<1>1. /\ perf.role = "server" /\ UNCHANGED <<perf, server, modem>>
      /\ queue' = Append(queue, Event("report"))
  BY DEF StopServer
<1>2. Lists /\ Remembers
  BY DEF PerfInv, LendInv, Runs
<1>3. /\ ToSet(queue') = ToSet(queue) \cup {Event("report")}
      /\ Number(queue', RxEvents) = Number(queue, RxEvents)
  BY <1>1, <1>2, Queued
<1>4. Lists'
  BY <1>1, <1>2, QueuedLists
<1>5. perf'.on_going /\ perf'.role = "server" => ServerRun'
  <2>1. Number(modem', Rxs) + Number(queue', RxEvents) >= ToCome
    BY <1>1, <1>2, <1>3, IsRx DEF ToCome
  <2>2. (Sending => Sending') /\ (Ended => Ended')
    BY <1>1, <1>3 DEF Sending, Ended
  <2> QED
    BY <1>1, <1>2, <1>4, <2>1, <2>2, ServerSame DEF PerfInv, Runs
<1> QED
  BY <1>1, <1>4, <1>5 DEF Runs

\* The stop of a server: the end is queued.
LEMMA StopServerEndsRuns ==
  ASSUME PerfInv, StopServerEnds
  PROVE  Runs'
<1>1. /\ shell = "report" /\ UNCHANGED <<perf, modem>> /\ server' = Fewer
      /\ queue' = Append(queue, Event("cmd_done"))
  BY DEF StopServerEnds, Shell
<1>2. Lists /\ Remembers
  BY DEF PerfInv, LendInv, Runs
<1>3. ToSet(queue') = ToSet(queue) \cup {Event("cmd_done")}
  BY <1>1, <1>2, Queued
<1>4. Lists'
  BY <1>1, <1>2, QueuedLists
<1>5. ~(perf.on_going /\ perf.role = "client")
  BY <1>1 DEF PerfInv, Runs, ClientRun
<1>6. perf.on_going /\ perf.role = "server" => ServerRun'
  <2>1. Ended'
    BY <1>3, Ids DEF Ended
  <2>2. server'.sent = server.sent
    BY <1>1, <1>2, FewerCount
  <2>3. Sending => Sending'
    BY <1>1, <1>3 DEF Sending
  <2> QED
    BY <2>1, <2>2, <2>3 DEF PerfInv, Runs, ServerRun
<1> QED
  BY <1>1, <1>4, <1>5, <1>6 DEF Runs

\* What happens without the threads.
LEMMA OthersRun ==
  ASSUME PerfInv, ModemRuns \/ Air \/ TimerExpires \/ Tick \/ Drop \/ \E p \in 1 .. Processes : Age(p)
  PROVE  Runs'
<1>1. ASSUME Tick \/ \E p \in 1 .. Processes : Age(p)
      PROVE  Runs'
  <2>1. UNCHANGED <<perf, client, server, modem, queue, timer, shell, hitch>>
    BY <1>1 DEF Tick, Age, users
  <2>2. perf.on_going /\ perf.role = "client" => shell # "report"
    BY DEF PerfInv, Runs, ClientRun
  <2> QED
    BY <2>1, <2>2, QuietRuns
<1>2. CASE ModemRuns
  BY <1>2, TxEndsRuns, OtherEndsRuns, RxEndsRuns DEF ModemRuns
<1>3. CASE Air
  BY <1>3, HearRequestRuns, HeaderRuns DEF Air
<1> QED
  BY <1>1, <1>2, <1>3, TimerExpiresRuns, DropRuns

\* Control and the shell.
LEMMA ControlRuns ==
  ASSUME PerfAssumption, PerfInv, TakeDone \/ User \/ ShellGoesOn
  PROVE  Runs'
<1>1. CASE User
  BY <1>1, StartClientRuns, StartServerRuns, StartFailsRuns, StopRuns DEF User
<1>2. CASE ShellGoesOn
  BY <1>2, StopClientRuns, StopServerRuns, StopServerEndsRuns, StopRequestsRuns DEF ShellGoesOn
<1> QED
  BY <1>1, <1>2, TakeDoneRuns

--------------------------------------------------------------------------------
(* The invariant, and what it says.                                        *)

\* The invariant holds at the start.
LEMMA PerfStarts ==
  ASSUME PerfInit
  PROVE  PerfInv
<1>1. LendInv
  <2>1. /\ NoPerf \in [on_going : {FALSE}, role : {"client", "server"}, use_harq : BOOLEAN, usable : Nat,
                       started : Nat, duration : Int]
        /\ NoClient \in ClientData
        /\ NoServer \in ServerData
    BY DEF NoPerf, NoClient, NoServer
  <2> QED
    BY <2>1 DEF PerfInit, LendInv, Remembers, ToolAgrees
<1>2. Runs
  <2>1. IsList(<<>>) /\ ToSet(<<>>) = {} /\ modem = <<>> /\ queue = <<>> /\ ~perf.on_going
    BY ListEmpty DEF PerfInit, NoPerf
  <2> QED
    BY <2>1 DEF Runs, Lists, IsList
<1> QED
  BY <1>1, <1>2 DEF PerfInv

\* Every step keeps it.
LEMMA PerfSteps ==
  ASSUME PerfAssumption, PerfInv, [PerfNext]_vars
  PROVE  PerfInv'
<1>1. LendInv'
  BY LendStep DEF PerfInv, Runs
<1>2. Runs'
  <2>1. CASE PerfNext
    BY <2>1, ClientRunsOn, ServerRunsOn, OthersRun, ControlRuns DEF PerfNext, Threads
  <2>2. CASE UNCHANGED vars
    <3>1. UNCHANGED <<perf, client, server, modem, queue, timer, shell, hitch>>
      BY <2>2 DEF vars, users
    <3>2. perf.on_going /\ perf.role = "client" => shell # "report"
      BY DEF PerfInv, Runs, ClientRun
    <3> QED
      BY <3>1, <3>2, QuietRuns
  <2> QED
    BY <2>1, <2>2
<1> QED
  BY <1>1, <1>2 DEF PerfInv

\* It holds always.
LEMMA PerfHolds == PerfSpec => []PerfInv
<1>1. PerfAssumption
  BY PerfAssumption
<1> QED
  BY <1>1, PerfStarts, PerfSteps, PTL DEF PerfSpec

\* Control has lent its modem exactly to a perf that is on going or about to be handed
\* back: dect_phy_ctrl_perf_cmd() refuses a second perf while perf_ongoing is set, and
\* the perf's end, wherever the threads find it, always clears it.
THEOREM PerfToolAgrees == PerfSpec => []ToolAgrees
<1>1. PerfInv => ToolAgrees
  BY DEF PerfInv, LendInv
<1> QED
  BY <1>1, PerfHolds, PTL

\* A client on going always has something that drives it: a TX whose end starts the
\* next round, the timer, or the RX for the results.
THEOREM PerfClientDriven == PerfSpec => []ClientDriven
<1>1. ASSUME PerfInv PROVE ClientDriven
  <2> SUFFICES ASSUME perf.on_going, perf.role = "client"
               PROVE  ClientDriven
    BY DEF ClientDriven
  <2>1. Driven
    BY <1>1 DEF PerfInv, Runs, ClientRun
  <2>2. /\ \A op \in ToSet(modem) : \E i \in DOMAIN modem : op = modem[i]
        /\ \A event \in ToSet(queue) : \E i \in DOMAIN queue : event = queue[i]
    BY DEF ToSet
  <2> QED
    BY <2>1, <2>2 DEF ClientDriven, Driven, Awaited, Pending
<1> QED
  BY <1>1, PerfHolds, PTL

\* A server on going listens or sends its results, or the end of that is just about to
\* be handled.
THEOREM PerfServerListens == PerfSpec => []ServerListens
<1>1. ASSUME PerfInv PROVE ServerListens
  <2> SUFFICES ASSUME perf.on_going, perf.role = "server"
               PROVE  ServerListens
    BY DEF ServerListens
  <2>0. Lists /\ ServerRun
    BY <1>1 DEF PerfInv, Runs
  <2>1. /\ \A op \in ToSet(modem) : \E i \in DOMAIN modem : op = modem[i]
        /\ \A event \in ToSet(queue) : \E i \in DOMAIN queue : event = queue[i]
    BY DEF ToSet
  <2>2. CASE Ended \/ Sending
    BY <2>1, <2>2 DEF ServerListens, Ended, Sending
  <2>3. CASE ToCome >= 1
    <3>1. Number(modem, Rxs) # 0 \/ Number(queue, RxEvents) # 0
      BY <2>0, <2>3, IsRx DEF ToCome
    <3>2. /\ Number(modem, Rxs) # 0 => \E op \in ToSet(modem) : op \in Rxs
          /\ Number(queue, RxEvents) # 0 => \E event \in ToSet(queue) : event \in RxEvents
      BY <2>0, ListNumber DEF Lists, IsList
    <3> QED
      BY <2>1, <3>1, <3>2, Ids DEF ServerListens
  <2> QED
    BY <2>0, <2>2, <2>3 DEF ServerRun
<1> QED
  BY <1>1, PerfHolds, PTL

--------------------------------------------------------------------------------
(* Handles, and processes that are free.                                    *)

\* Handles enough, in a client without HARQ, for a round, what is left of the rounds
\* before, and what a timer of the run before sends in between. So there are enough for a
\* TX of each HARQ process, too.
HandlesReach == 3 * Window + Processes <= LastHandle + 1

\* How many of the last handles may be outstanding in a client without HARQ.
Most == 3 * Window + Processes - 2

\* They are not all.
LEMMA MostReach ==
  ASSUME PerfAssumption, HandlesReach
  PROVE  /\ Window \in Nat \ {0} /\ Processes \in Nat \ {0} /\ LastHandle \in Nat \ {0}
         /\ Most \in Nat /\ Most < LastHandle /\ Most = 3 * Window + Processes - 2
         /\ Window < LastHandle /\ Processes < LastHandle
<1>1. Window \in Nat \ {0} /\ Processes \in Nat \ {0} /\ LastHandle \in Nat \ {0}
  BY DEF PerfAssumption
<1> QED
  BY <1>1 DEF HandlesReach, Most

\* A handle past the last, and the handle given a TX ago when w is the next.
Fold(h) == IF h > LastHandle THEN h - LastHandle ELSE h
Back(w, a) == IF w > a THEN w - a ELSE w - a + LastHandle

\* The remainder of a number that is past the last handle at most once.
LEMMA RemainderFolds ==
  ASSUME PerfAssumption, NEW n \in Nat, n < 2 * LastHandle
  PROVE  n % LastHandle = IF n < LastHandle THEN n ELSE n - LastHandle
<1> LastHandle \in Nat \ {0}
  BY DEF PerfAssumption
<1>1. CASE n < LastHandle
  BY <1>1
<1>2. CASE n >= LastHandle
  <2>1. n - LastHandle \in 0 .. LastHandle - 1
    BY <1>2
  <2>2. PICK k : k = n - LastHandle
    OBVIOUS
  <2>3. (k + LastHandle) % LastHandle = k
    BY <2>1, <2>2
  <2>4. n = k + LastHandle
    BY <2>2
  <2> QED
    BY <1>2, <2>3, <2>4, <2>2
<1> QED
  BY <1>1, <1>2

\* The handles of a round, and the one it leaves, are those after the next one.
LEMMA RoundHandles ==
  ASSUME PerfAssumption, Remembers, NEW w, w = Wrapped(client.handle)
  PROVE  /\ w \in 1 .. LastHandle
         /\ \A j \in 1 .. LastHandle : RoundHandle(j) = Fold(w + j - 1)
         /\ \A window \in 0 .. LastHandle : \A sent \in 0 .. window :
              Wrapped(NextHandle(sent, window)) = Fold(w + sent)
<1>1. w \in 1 .. LastHandle /\ LastHandle \in Nat \ {0}
  BY WrappedType DEF Remembers, PerfAssumption
<1>2. ASSUME NEW j \in 1 .. LastHandle
      PROVE  RoundHandle(j) = Fold(w + j - 1)
  <2>1. w + j - 2 \in Nat /\ w + j - 2 < 2 * LastHandle
    BY <1>1
  <2>2. (w + j - 2) % LastHandle = IF w + j - 2 < LastHandle THEN w + j - 2 ELSE w + j - 2 - LastHandle
    <3>1. PICK k : k = w + j - 2
      OBVIOUS
    <3>2. k % LastHandle = IF k < LastHandle THEN k ELSE k - LastHandle
      BY <2>1, <3>1, RemainderFolds
    <3> QED
      BY <1>1, <3>1, <3>2
  <2>3. RoundHandle(j) = ((w + j - 2) % LastHandle) + 1
    BY DEF RoundHandle
  <2> QED
    BY <1>1, <2>2, <2>3 DEF Fold
<1>3. ASSUME NEW window \in 0 .. LastHandle, NEW sent \in 0 .. window
      PROVE  Wrapped(NextHandle(sent, window)) = Fold(w + sent)
  <2>1. CASE sent = 0
    <3>1. NextHandle(sent, window) = w
      BY <2>1 DEF NextHandle
    <3> QED
      BY <1>1, <2>1, <3>1 DEF Wrapped, Fold
  <2>2. CASE sent # 0
    <3>1. sent \in 1 .. LastHandle
      BY <2>2
    <3>2. RoundHandle(sent) = Fold(w + sent - 1)
      BY <1>2, <3>1
    <3>3. NextHandle(sent, window) \in {RoundHandle(sent) + 1, Wrapped(RoundHandle(sent) + 1)}
      BY <2>2 DEF NextHandle
    <3>4. PICK r : r = RoundHandle(sent)
      OBVIOUS
    <3>5. r = Fold(w + sent - 1) /\ NextHandle(sent, window) \in {r + 1, Wrapped(r + 1)}
      BY <3>2, <3>3, <3>4
    <3> QED
      BY <1>1, <3>1, <3>5 DEF Wrapped, Fold
  <2> QED
    BY <2>1, <2>2
<1> QED
  BY <1>1, <1>2, <1>3

\* The handles of a round are the last that were given, in its order, and those before
\* stay in theirs.
LEMMA BackMoves ==
  ASSUME PerfAssumption, NEW w \in 1 .. LastHandle, NEW sent \in 0 .. LastHandle
  PROVE  /\ Fold(w + sent) \in 1 .. LastHandle
         /\ \A a \in 0 .. LastHandle - sent : Back(Fold(w + sent), a + sent) = Back(w, a)
         /\ \A j \in 1 .. sent : Back(Fold(w + sent), sent - j + 1) = Fold(w + j - 1)
         /\ sent > 0 => Back(Fold(w + sent), sent) = w
         /\ Back(w, 0) = w
<1>1. LastHandle \in Nat \ {0}
  BY DEF PerfAssumption
<1>2. Fold(w + sent) \in 1 .. LastHandle
  BY <1>1 DEF Fold
<1>3. ASSUME NEW a \in 0 .. LastHandle - sent
      PROVE  Back(Fold(w + sent), a + sent) = Back(w, a)
  BY <1>1 DEF Fold, Back
<1>4. ASSUME NEW j \in 1 .. sent
      PROVE  Back(Fold(w + sent), sent - j + 1) = Fold(w + j - 1)
  BY <1>1 DEF Fold, Back
<1>5. sent > 0 => Back(Fold(w + sent), sent) = w
  BY <1>1 DEF Fold, Back
<1>6. Back(w, 0) = w
  BY DEF Back
<1> QED
  BY <1>2, <1>3, <1>4, <1>5, <1>6

\* Different ages are different handles.
LEMMA BackApart ==
  ASSUME PerfAssumption, NEW w \in 1 .. LastHandle, NEW a \in Nat, NEW b \in Nat, Back(w, a) = Back(w, b),
         (a \in 1 .. LastHandle /\ b \in 1 .. LastHandle) \/ (a < LastHandle /\ b < LastHandle)
  PROVE  a = b
<1>1. LastHandle \in Nat \ {0}
  BY DEF PerfAssumption
<1> QED
  BY <1>1 DEF Back

\* How many numbers there are up to another.
LEMMA NatInterval == ASSUME NEW n \in Nat PROVE IsFiniteSet(1 .. n) /\ Cardinality(1 .. n) = n
<1>1. 1 \in Int /\ n \in Int
  OBVIOUS
<1>2. IsFiniteSet(1 .. n) /\ Cardinality(1 .. n) = IF 1 > n THEN 0 ELSE n - 1 + 1
  BY <1>1, FS_Interval
<1> QED
  BY <1>2

\* The numbers up to another are those below it, and that.
LEMMA UptoBelow ==
  ASSUME NEW S \in SUBSET Nat, NEW p \in S
  PROVE  /\ {q \in S : q <= p} = {q \in S : q < p} \cup {p}
         /\ p \notin {q \in S : q < p}
         /\ \A r \in S : p < r => {q \in S : q <= p} \in SUBSET {q \in S : q < r}
<1>1. \A q \in S : q <= p <=> q < p \/ q = p
  OBVIOUS
<1>2. p \notin {q \in S : q < p}
  OBVIOUS
<1>3. {q \in S : q <= p} = {q \in S : q < p} \cup {p}
  BY <1>1
<1>4. ASSUME NEW r \in S, p < r PROVE {q \in S : q <= p} \in SUBSET {q \in S : q < r}
  <2>1. \A q \in S : q <= p => q < r
    BY <1>4
  <2> QED
    BY <2>1
<1> QED
  BY <1>2, <1>3, <1>4

\* The free processes, the lowest first.
LEMMA FreeApart ==
  ASSUME PerfAssumption, harq \in [1 .. Processes -> {"free", "used", "old"}], perf.usable \in 0 .. Processes
  PROVE  \E n \in 0 .. perf.usable :
           /\ FreeProcesses = [i \in 1 .. n |-> FreeProcesses[i]] /\ Len(FreeProcesses) = n
           /\ \A i \in 1 .. n : /\ FreeProcesses[i] \in 1 .. Processes
                                /\ harq[FreeProcesses[i]] # "used"
                                /\ \A j \in 1 .. n : FreeProcesses[i] = FreeProcesses[j] => i = j
<1>1. PICK free : free = {p \in 1 .. perf.usable : Cleaned[p] = "free"}
  OBVIOUS
<1> DEFINE n == Cardinality(free)
           Below(p) == {q \in free : q < p}
           Upto(p) == {q \in free : q <= p}
           rank == [p \in free |-> Cardinality(Upto(p))]
<1>2. Processes \in Nat /\ perf.usable \in Nat
  BY DEF PerfAssumption
<1>3. IsFiniteSet(1 .. perf.usable) /\ Cardinality(1 .. perf.usable) = perf.usable
  <2>1. PICK u \in Nat : u = perf.usable
    BY <1>2
  <2> QED
    BY <2>1, NatInterval
<1>4. free \in SUBSET (1 .. perf.usable) /\ free \in SUBSET Nat /\ \A p \in free : p \in Nat
  BY <1>1, <1>2
<1>5. IsFiniteSet(free) /\ n <= perf.usable /\ n \in Nat
  <2>1. PICK U : U = 1 .. perf.usable
    OBVIOUS
  <2>2. IsFiniteSet(U) /\ Cardinality(U) = perf.usable /\ free \in SUBSET U
    BY <1>3, <1>4, <2>1
  <2>3. IsFiniteSet(free) /\ n <= Cardinality(U)
    BY <2>2, FS_Subset
  <2> QED
    BY <2>2, <2>3, FS_CardinalityType
<1>6. ASSUME NEW p \in free
      PROVE  /\ IsFiniteSet(Upto(p)) /\ IsFiniteSet(Below(p))
             /\ Cardinality(Upto(p)) = Cardinality(Below(p)) + 1
             /\ Cardinality(Below(p)) \in Nat /\ Cardinality(Upto(p)) \in 1 .. n
  <2>1. Upto(p) \in SUBSET free /\ Below(p) \in SUBSET free
    OBVIOUS
  <2>2. IsFiniteSet(Upto(p)) /\ IsFiniteSet(Below(p)) /\ Cardinality(Upto(p)) <= n
    BY <1>5, <2>1, FS_Subset
  <2>3. Upto(p) = Below(p) \cup {p} /\ p \notin Below(p)
    BY <1>4, UptoBelow
  <2>4. Cardinality(Upto(p)) = Cardinality(Below(p)) + 1
    BY <2>2, <2>3, FS_AddElement
  <2>5. Cardinality(Below(p)) \in Nat
    BY <2>2, FS_CardinalityType
  <2> QED
    BY <1>5, <2>2, <2>4, <2>5
<1>7. rank \in Injection(free, 1 .. n)
  <2>1. rank \in [free -> 1 .. n]
    BY <1>6
  <2>2. ASSUME NEW p \in free, NEW q \in free, p < q
        PROVE  rank[p] < rank[q]
    <3>1. Upto(p) \in SUBSET Below(q)
      BY <1>4, <2>2, UptoBelow
    <3>2. Cardinality(Upto(p)) <= Cardinality(Below(q))
      BY <1>6, <3>1, FS_Subset
    <3>3. Cardinality(Upto(p)) \in Nat /\ Cardinality(Upto(q)) = Cardinality(Below(q)) + 1
          /\ Cardinality(Below(q)) \in Nat
      <4> HIDE DEF Upto, Below, rank
      <4> QED
        BY <1>6
    <3>4. rank[p] = Cardinality(Upto(p)) /\ rank[q] = Cardinality(Upto(q))
      OBVIOUS
    <3> QED
      BY <3>2, <3>3, <3>4
  <2>3. \A p, q \in free : rank[p] = rank[q] => p = q
    <3> HIDE DEF rank, n
    <3>1. \A p \in free : p \in Nat /\ rank[p] \in Nat
      BY <1>4, <1>5, <2>1
    <3>2. SUFFICES ASSUME NEW p \in free, NEW q \in free, rank[p] = rank[q] PROVE p = q
      OBVIOUS
    <3>3. ~(p < q) /\ ~(q < p)
      BY <2>2, <3>1, <3>2
    <3> QED
      BY <3>1, <3>3
  <2> HIDE DEF rank
  <2> QED
    BY <2>1, <2>3 DEF Injection, IsInjective
<1>8. rank \in Surjection(free, 1 .. n)
  <2>1. IsFiniteSet(1 .. n) /\ Cardinality(1 .. n) = n
    <3> HIDE DEF n
    <3> QED
      BY <1>5, NatInterval
  <2> HIDE DEF rank
  <2> QED
    BY <1>7, <2>1, FS_Injection
<1>9. FreeProcesses = [i \in 1 .. n |-> CHOOSE p \in free : Cardinality(Below(p)) = i - 1]
  BY <1>1 DEF FreeProcesses
<1>10. ASSUME NEW i \in 1 .. n
       PROVE  FreeProcesses[i] \in free /\ Cardinality(Below(FreeProcesses[i])) = i - 1
  <2>1. PICK p \in free : rank[p] = i
    BY <1>8 DEF Surjection
  <2>2. Cardinality(Upto(p)) = i /\ Cardinality(Upto(p)) = Cardinality(Below(p)) + 1
        /\ Cardinality(Below(p)) \in Nat
    BY <1>6, <2>1
  <2>3. Cardinality(Below(p)) = i - 1
    BY <2>2
  <2>4. FreeProcesses[i] = CHOOSE q \in free : Cardinality(Below(q)) = i - 1
    BY <1>9
  <2> QED
    BY <2>3, <2>4
<1>11. ASSUME NEW p \in free
       PROVE  p \in 1 .. Processes /\ harq[p] # "used"
  <2>1. p \in 1 .. Processes
    BY <1>2, <1>4
  <2> QED
    BY <1>1, <2>1 DEF Cleaned
<1>12. ASSUME NEW i \in 1 .. n, NEW j \in 1 .. n, FreeProcesses[i] = FreeProcesses[j]
       PROVE  i = j
  <2>1. i - 1 = j - 1
    BY <1>10, <1>12
  <2> QED
    BY <2>1, <1>5
<1>13. n \in 0 .. perf.usable /\ FreeProcesses = [i \in 1 .. n |-> FreeProcesses[i]] /\ Len(FreeProcesses) = n
  <2>1. n \in 0 .. perf.usable
    BY <1>2, <1>5
  <2>2. DOMAIN FreeProcesses = 1 .. n
    BY <1>9
  <2>3. FreeProcesses = [i \in 1 .. n |-> FreeProcesses[i]]
    <3> DEFINE lowest(i) == CHOOSE p \in free : Cardinality(Below(p)) = i - 1
    <3>1. FreeProcesses = [i \in 1 .. n |-> lowest(i)]
      BY <1>9
    <3> HIDE DEF lowest, n
    <3> QED
      BY <3>1
  <2>4. Len([i \in 1 .. n |-> FreeProcesses[i]]) = n
    <3> HIDE DEF n
    <3>1. [i \in 1 .. n |-> FreeProcesses[i]] \in [1 .. n -> free]
      BY <1>10
    <3> QED
      BY <1>5, <3>1, SeqDef, LenProperties
  <2> QED
    BY <2>1, <2>3, <2>4
<1> QED
  BY <1>10, <1>11, <1>12, <1>13

--------------------------------------------------------------------------------
(* What is outstanding of a client.                                        *)

\* What the rounds of a client rest on.
Reservations ==
  /\ harq \in [1 .. Processes -> {"free", "used", "old"}]
  /\ perf.usable \in 0 .. Processes /\ perf.started <= now

Sent == {"tx", "feedback"}
Txs(ops) == {i \in DOMAIN ops : ops[i].op = "tx"}

\* A server sends no TX of a client.
NoneSent ==
  /\ \A op \in ToSet(modem) : op.op # "tx"
  /\ \A event \in ToSet(queue) : event.id \notin Sent

\* A client, on going or not, has only its own operations and events, and what is behind
\* its TXs is there because its time is over.
ClientAlone ==
  /\ ClientOnly /\ shell # "report" /\ perf.duration >= 0
  /\ perf.on_going /\ (\E op \in ToSet(modem) : op.op # "tx") => TimeIsOver
  /\ (\E op \in ToSet(modem) : op.op = "tx") => tool

\* The m TXs on the modem come first, with the last m handles that were given.
InOrder(m) ==
  /\ 1 .. m \subseteq DOMAIN modem /\ Txs(modem) = 1 .. m
  /\ \A i \in 1 .. m : modem[i].handle = Back(Wrapped(client.handle), m - i + 1)

\* The HARQ processes of those that have one, and of the feedback in the queue, are
\* different and in use.
Reserved(m) ==
  /\ \A i \in 1 .. m : modem[i].process # Nobody =>
       /\ modem[i].process \in 1 .. Processes /\ harq[modem[i].process] = "used"
       /\ \A j \in 1 .. m : modem[j].process = modem[i].process => j = i
  /\ \A k \in DOMAIN queue : queue[k].id = "feedback" =>
       /\ queue[k].process \in 1 .. Processes /\ harq[queue[k].process] = "used"
       /\ \A i \in 1 .. m : modem[i].process # queue[k].process
       /\ \A l \in DOMAIN queue :
            queue[l].id = "feedback" /\ queue[l].process = queue[k].process => l = k

\* A client without HARQ has its TXs told apart by their ages, how many handles ago they
\* got theirs: those whose end is in the queue are older than those on the modem.
Aged(m, a, age) ==
  \A k \in DOMAIN queue : queue[k].id = "tx" =>
    /\ age[k] \in m + 1 .. a
    /\ queue[k].handle = Back(Wrapped(client.handle), age[k])
    /\ \A l \in DOMAIN queue : queue[l].id = "tx" /\ l > k => age[l] < age[k]

\* The timer of a run before is on, or over with its event in the queue.
Timed == timer \/ \E k \in DOMAIN queue : queue[k].id = "timer"

\* There is only one.
OneTimer ==
  /\ timer => \A k \in DOMAIN queue : queue[k].id # "timer"
  /\ \A k, l \in DOMAIN queue : queue[k].id = "timer" /\ queue[l].id = "timer" => k = l

\* The ages a are bounded, if the last round gave r handles, because only a TX of that
\* round drives the client: the first one or, once that timer has set it, the one in the
\* middle. That handle may drive the client once more from a round before, but only once,
\* and the timer has sent its round before.
Paces(r, a) ==
  /\ client.starting = Back(Wrapped(client.handle), r)
  /\ r <= Window \/ r <= Processes
  /\ Timed => client.middle = 0 /\ r <= Window /\ a <= 2 * Window - 1
  /\ \/ a <= 2 * Window + Processes - 1
     \/ r <= Window /\ \A b \in r + 1 .. a : Back(Wrapped(client.handle), b) # client.middle

Paced(m, r, a, age) == m <= a /\ Aged(m, a, age) /\ (perf.on_going => Paces(r, a))

Told(m) ==
  /\ InOrder(m) /\ Reserved(m)
  /\ IF perf.use_harq THEN \A i \in 1 .. m : modem[i].process # Nobody
     ELSE /\ OneTimer
          /\ \E r \in Nat, a \in 0 .. Most, age \in [DOMAIN queue -> Nat] : Paced(m, r, a, age)

ApartInv ==
  /\ Reservations
  /\ perf.role = "server" => NoneSent
  /\ perf.role = "client" => ClientAlone /\ \E m \in 0 .. LastHandle : Told(m)

--------------------------------------------------------------------------------
\* The events of TXs in a queue are those of another, in their order.
Kept(old, new) ==
  \E place \in [DOMAIN new -> Nat] :
    /\ \A k \in DOMAIN new : new[k].id \in Sent => place[k] \in DOMAIN old /\ old[place[k]] = new[k]
    /\ \A k, l \in DOMAIN new : new[k].id \in Sent /\ new[l].id \in Sent /\ k < l => place[k] < place[l]

\* A queue keeps what it has.
LEMMA KeptAll == ASSUME NEW q, IsList(q) PROVE Kept(q, q)
<1>1. DOMAIN q = 1 .. Len(q) /\ Len(q) \in Nat
  BY LenProperties DEF IsList
<1>2. [k \in DOMAIN q |-> k] \in [DOMAIN q -> Nat]
  BY <1>1
<1> QED
  BY <1>2 DEF Kept

\* Without its head it keeps the events that are left.
LEMMA KeptTail == ASSUME NEW q, IsList(q), q # <<>> PROVE Kept(q, Tail(q))
<1>1. PICK t : t = Tail(q)
  OBVIOUS
<1>2. /\ Len(q) \in Nat \ {0} /\ DOMAIN q = 1 .. Len(q) /\ DOMAIN t = 1 .. Len(q) - 1
      /\ \A k \in 1 .. Len(q) - 1 : t[k] = q[k + 1]
  <2>1. q \in Seq(ToSet(q))
    BY DEF IsList
  <2>2. Len(q) \in Nat \ {0} /\ DOMAIN q = 1 .. Len(q)
    BY <2>1, EmptySeq, LenProperties
  <2>3. t \in Seq(ToSet(q)) /\ Len(t) = Len(q) - 1 /\ \A k \in 1 .. Len(q) - 1 : t[k] = q[k + 1]
    BY <1>1, <2>1, HeadTailProperties
  <2> QED
    BY <2>2, <2>3, LenProperties
<1>3. [k \in DOMAIN t |-> k + 1] \in [DOMAIN t -> Nat]
  BY <1>2
<1>4. Kept(q, t)
  <2> DEFINE place == [k \in DOMAIN t |-> k + 1]
  <2>1. \A k \in DOMAIN t : place[k] \in DOMAIN q /\ q[place[k]] = t[k]
    BY <1>2
  <2>2. \A k, l \in DOMAIN t : k < l => place[k] < place[l]
    BY <1>2
  <2> HIDE DEF place
  <2>3. place \in [DOMAIN t -> Nat]
    BY <1>3 DEF place
  <2> QED
    BY <2>1, <2>2, <2>3 DEF Kept
<1> QED
  BY <1>1, <1>4

\* Where the elements of two lists that are put together are.
LEMMA Joined ==
  ASSUME NEW q, IsList(q), NEW t, IsList(t)
  PROVE  /\ DOMAIN q = 1 .. Len(q) /\ Len(q) \in Nat /\ Len(t) \in Nat /\ DOMAIN t = 1 .. Len(t)
         /\ DOMAIN (q \o t) = 1 .. Len(q) + Len(t)
         /\ \A i \in 1 .. Len(q) + Len(t) : (q \o t)[i] = IF i <= Len(q) THEN q[i] ELSE t[i - Len(q)]
<1>1. PICK T : T = ToSet(q) \cup ToSet(t)
  OBVIOUS
<1>2. q \in Seq(T) /\ t \in Seq(T)
  <2>1. ToSet(q) \subseteq T /\ ToSet(t) \subseteq T
    BY <1>1
  <2> QED
    BY <2>1, SeqWider DEF IsList
<1>3. /\ q \o t \in Seq(T) /\ Len(q \o t) = Len(q) + Len(t)
      /\ \A i \in 1 .. Len(q) + Len(t) : (q \o t)[i] = IF i <= Len(q) THEN q[i] ELSE t[i - Len(q)]
  BY <1>2, ConcatProperties
<1> QED
  BY <1>2, <1>3, LenProperties

\* With other events behind them, the events of TXs stay.
LEMMA KeptMore ==
  ASSUME NEW q, IsList(q), NEW t, IsList(t), \A event \in ToSet(t) : event.id \notin Sent
  PROVE  Kept(q, q \o t)
<1>1. PICK n : n = q \o t
  OBVIOUS
<1>2. /\ DOMAIN q = 1 .. Len(q) /\ Len(q) \in Nat /\ Len(t) \in Nat /\ DOMAIN t = 1 .. Len(t)
      /\ DOMAIN n = 1 .. Len(q) + Len(t)
      /\ \A i \in 1 .. Len(q) + Len(t) : n[i] = IF i <= Len(q) THEN q[i] ELSE t[i - Len(q)]
  BY <1>1, Joined
<1>3. [k \in DOMAIN n |-> k] \in [DOMAIN n -> Nat]
  BY <1>2
<1>4. ASSUME NEW k \in DOMAIN n, n[k].id \in Sent
      PROVE  k \in DOMAIN q /\ q[k] = n[k]
  <2>1. CASE k > Len(q)
    <3>1. k - Len(q) \in DOMAIN t /\ n[k] = t[k - Len(q)]
      BY <1>2, <2>1
    <3>2. n[k] \in ToSet(t)
      BY <3>1 DEF ToSet
    <3> QED
      BY <1>4, <3>2
  <2> QED
    BY <1>2, <2>1
<1>5. Kept(q, n)
  <2> DEFINE place == [k \in DOMAIN n |-> k]
  <2>1. \A k \in DOMAIN n : place[k] = k
    OBVIOUS
  <2> HIDE DEF place
  <2>2. place \in [DOMAIN n -> Nat]
    BY <1>3 DEF place
  <2> QED
    BY <1>4, <2>1, <2>2 DEF Kept
<1> QED
  BY <1>1, <1>5

--------------------------------------------------------------------------------
(* Steps that send nothing.                                                *)

Harqs == [1 .. Processes -> {"free", "used", "old"}]

\* A step of a server leaves it without TXs.
OpsCalm == \A op \in ToSet(modem') : op \in ToSet(modem) \/ op.op # "tx"
EventsCalm == \A event \in ToSet(queue') : event \in ToSet(queue) \/ event.id \notin Sent
RunCalm ==
  /\ perf'.role = "server" /\ perf'.use_harq = perf.use_harq /\ perf'.usable = perf.usable
  /\ perf'.started <= now' /\ harq' \in Harqs
ServerCalm == RunCalm /\ OpsCalm /\ EventsCalm

\* Such a step keeps the invariant.
LEMMA ServerKeeps ==
  ASSUME ApartInv, perf.role = "server", ServerCalm
  PROVE  ApartInv'
<1>1. NoneSent'
  BY DEF NoneSent, ServerCalm, OpsCalm, EventsCalm, ApartInv
<1>2. Reservations'
  BY DEF Reservations, ServerCalm, RunCalm, ApartInv, Harqs
<1>3. perf'.role = "server"
  BY DEF ServerCalm, RunCalm
<1> QED
  BY <1>1, <1>2, <1>3 DEF ApartInv

\* A step in which a client sends nothing: the TXs that are left stay where they are, the
\* perf may end, and what is in use stays so while something of it is to come.
SameTxs ==
  /\ Txs(modem') = Txs(modem)
  /\ \A i \in Txs(modem) : modem'[i] = modem[i]
PerfStill ==
  \/ perf' = perf
  \/ perf' = [perf EXCEPT !.on_going = FALSE]
  \/ perf' = [perf EXCEPT !.duration = 0]
Needed(p) ==
  \/ \E i \in Txs(modem') : modem'[i].process = p
  \/ \E k \in DOMAIN queue' : queue'[k].id = "feedback" /\ queue'[k].process = p
HarqStill == harq' \in Harqs /\ \A p \in 1 .. Processes : harq[p] = "used" /\ Needed(p) => harq'[p] = "used"
OpsStill ==
  \A op \in ToSet(modem') :
    op \in ToSet(modem) \/ (op.op \in {"request", "results_rx"} /\ (perf'.on_going => TimeIsOver'))
EventsStill ==
  /\ Kept(queue, queue')
  /\ \A event \in ToSet(queue') : event \in ToSet(queue) \/ event.id \in {"timer", "results_rx"}
Calm ==
  /\ PerfStill
  /\ client'.handle = client.handle /\ client'.starting = client.starting /\ client'.middle = client.middle
  /\ now' \in Nat /\ now <= now'
  /\ HarqStill
  /\ SameTxs \/ Txs(modem') = {}
  /\ OpsStill /\ EventsStill
  /\ shell' # "report" /\ (tool' = tool \/ modem' = <<>>)

\* No timer is started, unless it takes the place of the one that is over.
TimerStays == OneTimer' /\ (Timed' => Timed)

\* The perf stays what it is, or ends, and its time does not come back.
LEMMA PerfStays ==
  ASSUME Remembers, Reservations, PerfStill, now' \in Nat, now <= now', perf.role = "client", perf.duration >= 0
  PROVE  /\ perf'.role = "client" /\ perf'.use_harq = perf.use_harq /\ perf'.usable = perf.usable
         /\ perf'.started = perf.started /\ perf'.duration >= 0
         /\ perf'.on_going => perf.on_going /\ (TimeIsOver => TimeIsOver')
<1>1. /\ perf'.role = "client" /\ perf'.use_harq = perf.use_harq /\ perf'.usable = perf.usable
      /\ perf'.started = perf.started /\ (perf'.duration = perf.duration \/ perf'.duration = 0)
      /\ (perf'.on_going => perf.on_going)
  BY DEF Remembers, PerfStill
<1>2. perf.started \in Nat /\ now \in Nat /\ perf.duration \in Int /\ perf.started <= now
  BY DEF Remembers, Reservations
<1>3. TimeIsOver => TimeIsOver'
  BY <1>1, <1>2 DEF TimeIsOver
<1> QED
  BY <1>1, <1>2, <1>3

\* A calm step keeps a client alone.
LEMMA CalmAlone ==
  ASSUME PerfInv, ApartInv, perf.role = "client", Calm
  PROVE  Reservations' /\ ClientAlone'
<1>1. Remembers /\ Reservations /\ ClientAlone
  BY DEF PerfInv, LendInv, ApartInv
<1>2. /\ perf'.role = "client" /\ perf'.use_harq = perf.use_harq /\ perf'.usable = perf.usable
      /\ perf'.started = perf.started /\ perf'.duration >= 0
      /\ perf'.on_going => perf.on_going /\ (TimeIsOver => TimeIsOver')
  BY <1>1, PerfStays DEF Calm, ClientAlone
<1>3. Reservations'
  BY <1>1, <1>2 DEF Reservations, Calm, HarqStill, Harqs, Remembers
<1>4. ClientOnly' /\ shell' # "report"
  BY <1>1 DEF ClientAlone, ClientOnly, Calm, OpsStill, EventsStill
<1>5. perf'.on_going /\ (\E op \in ToSet(modem') : op.op # "tx") => TimeIsOver'
  BY <1>1, <1>2 DEF ClientAlone, Calm, OpsStill
<1>6. (\E op \in ToSet(modem') : op.op = "tx") => tool'
  <2>1. ASSUME NEW op \in ToSet(modem'), op.op = "tx"
        PROVE  op \in ToSet(modem) /\ modem' # <<>>
    <3>1. op \in ToSet(modem)
      BY <2>1 DEF Calm, OpsStill
    <3>2. modem' # <<>>
      BY <2>1, HoldsEmpty
    <3> QED
      BY <3>1, <3>2
  <2> QED
    BY <1>1, <2>1 DEF ClientAlone, Calm
<1> QED
  BY <1>2, <1>3, <1>4, <1>5, <1>6 DEF ClientAlone

\* It keeps the processes apart and reserved.
LEMMA CalmReserved ==
  ASSUME PerfInv, Calm, NEW m \in Nat, NEW n \in Nat, n <= m, IsList(modem'), IsList(queue'), InOrder(n)',
         \A i \in 1 .. n : modem'[i] = modem[i], Reserved(m)
  PROVE  Reserved(n)'
<1>1. \A i \in 1 .. n : i \in 1 .. m
  OBVIOUS
<1>2. PICK place \in [DOMAIN queue' -> Nat] :
        /\ \A k \in DOMAIN queue' : queue'[k].id \in Sent =>
             place[k] \in DOMAIN queue /\ queue[place[k]] = queue'[k]
        /\ \A k, l \in DOMAIN queue' :
             queue'[k].id \in Sent /\ queue'[l].id \in Sent /\ k < l => place[k] < place[l]
  BY DEF Calm, EventsStill, Kept
<1>3. \A p \in 1 .. Processes : harq[p] = "used" /\ Needed(p) => harq'[p] = "used"
  BY DEF Calm, HarqStill
<1>4. ASSUME NEW i \in 1 .. n, modem'[i].process # Nobody
      PROVE  /\ modem'[i].process \in 1 .. Processes /\ harq'[modem'[i].process] = "used"
             /\ \A j \in 1 .. n : modem'[j].process = modem'[i].process => j = i
  <2>1. modem'[i] = modem[i] /\ modem[i].process \in 1 .. Processes /\ harq[modem[i].process] = "used"
    BY <1>1, <1>4 DEF Reserved
  <2>2. i \in DOMAIN modem' /\ modem'[i].op = "tx"
    BY DEF InOrder, Txs
  <2>3. Needed(modem'[i].process)
    BY DEF Needed, InOrder
  <2>4. \A j \in 1 .. m : modem[j].process = modem[i].process => j = i
    BY <1>1, <1>4, <2>1 DEF Reserved
  <2>5. \A j \in 1 .. n : j \in 1 .. m /\ modem'[j] = modem[j]
    BY <1>1
  <2> QED
    BY <1>3, <2>1, <2>3, <2>4, <2>5
<1>6. ASSUME NEW k \in DOMAIN queue', queue'[k].id = "feedback"
      PROVE  /\ queue'[k].process \in 1 .. Processes /\ harq'[queue'[k].process] = "used"
             /\ \A i \in 1 .. n : modem'[i].process # queue'[k].process
             /\ \A l \in DOMAIN queue' :
                  queue'[l].id = "feedback" /\ queue'[l].process = queue'[k].process => l = k
  <2>1. place[k] \in DOMAIN queue /\ queue[place[k]] = queue'[k]
    BY <1>2, <1>6 DEF Sent
  <2>2. /\ queue'[k].process \in 1 .. Processes /\ harq[queue'[k].process] = "used"
        /\ \A i \in 1 .. m : modem[i].process # queue'[k].process
        /\ \A l \in DOMAIN queue :
             queue[l].id = "feedback" /\ queue[l].process = queue'[k].process => l = place[k]
    BY <1>6, <2>1 DEF Reserved
  <2>3. Needed(queue'[k].process)
    BY <1>6 DEF Needed
  <2>4. ASSUME NEW l \in DOMAIN queue', queue'[l].id = "feedback", queue'[l].process = queue'[k].process
        PROVE  l = k
    <3>1. place[l] \in DOMAIN queue /\ queue[place[l]] = queue'[l]
      BY <1>2, <2>4 DEF Sent
    <3>2. place[l] = place[k]
      BY <2>2, <2>4, <3>1
    <3>3. ~(k < l) /\ ~(l < k)
      BY <1>2, <1>6, <2>4, <3>2 DEF Sent
    <3>4. k \in Nat /\ l \in Nat
      BY LenProperties DEF IsList
    <3> QED
      BY <3>3, <3>4
  <2> QED
    BY <1>1, <1>3, <2>2, <2>3, <2>4
<1> QED
  BY <1>4, <1>6 DEF Reserved

\* It keeps the ages: those of the events that are left stay what they are.
LEMMA CalmPaced ==
  ASSUME PerfInv, Calm, perf'.on_going => perf.on_going, Timed' => Timed,
         NEW m \in Nat, NEW n \in Nat, n <= m, IsList(queue'),
         NEW r \in Nat, NEW a \in Nat, NEW age \in [DOMAIN queue -> Nat], Paced(m, r, a, age)
  PROVE  \E new \in [DOMAIN queue' -> Nat] : Paced(n, r, a, new)'
<1>1. PICK place \in [DOMAIN queue' -> Nat] :
        /\ \A k \in DOMAIN queue' : queue'[k].id \in Sent =>
             place[k] \in DOMAIN queue /\ queue[place[k]] = queue'[k]
        /\ \A k, l \in DOMAIN queue' :
             queue'[k].id \in Sent /\ queue'[l].id \in Sent /\ k < l => place[k] < place[l]
  BY DEF Calm, EventsStill, Kept
<1>2. PICK new : new = [k \in DOMAIN queue' |-> IF queue'[k].id = "tx" THEN age[place[k]] ELSE 0]
  OBVIOUS
<1>3. \A k \in DOMAIN queue' : queue'[k].id = "tx" => place[k] \in DOMAIN queue /\ queue[place[k]] = queue'[k]
  BY <1>1 DEF Sent
<1>4. new \in [DOMAIN queue' -> Nat]
  BY <1>2, <1>3
<1>5. client'.handle = client.handle /\ client'.starting = client.starting /\ client'.middle = client.middle
  BY DEF Calm
<1>6. Wrapped(client'.handle) = Wrapped(client.handle)
  BY <1>5
<1>7. ASSUME NEW k \in DOMAIN queue', queue'[k].id = "tx"
      PROVE  /\ new[k] \in n + 1 .. a
             /\ queue'[k].handle = Back(Wrapped(client'.handle), new[k])
             /\ \A l \in DOMAIN queue' : queue'[l].id = "tx" /\ l > k => new[l] < new[k]
  <2>1. place[k] \in DOMAIN queue /\ queue[place[k]] = queue'[k] /\ new[k] = age[place[k]]
    BY <1>2, <1>3, <1>7
  <2>2. /\ age[place[k]] \in m + 1 .. a
        /\ queue[place[k]].handle = Back(Wrapped(client.handle), age[place[k]])
        /\ \A l \in DOMAIN queue : queue[l].id = "tx" /\ l > place[k] => age[l] < age[place[k]]
    BY <1>7, <2>1 DEF Paced, Aged
  <2>3. ASSUME NEW l \in DOMAIN queue', queue'[l].id = "tx", l > k
        PROVE  new[l] < new[k]
    <3>1. place[l] \in DOMAIN queue /\ queue[place[l]] = queue'[l] /\ new[l] = age[place[l]]
      BY <1>2, <1>3, <2>3
    <3>2. k \in Nat /\ l \in Nat
      BY LenProperties DEF IsList
    <3>3. place[k] < place[l]
      BY <1>1, <1>7, <2>3, <3>2 DEF Sent
    <3>4. place[l] > place[k]
      BY <3>3
    <3> QED
      BY <2>1, <2>2, <2>3, <3>1, <3>4
  <2>4. new[k] \in n + 1 .. a
    BY <2>1, <2>2
  <2> QED
    BY <1>6, <2>1, <2>2, <2>3, <2>4
<1>8. Aged(n, a, new)'
  BY <1>7 DEF Aged
<1>9. perf'.on_going => Paces(r, a)'
  BY <1>5, <1>6 DEF Paced, Paces
<1>10. n <= a
  BY DEF Paced
<1> QED
  BY <1>4, <1>8, <1>9, <1>10 DEF Paced

\* A calm step keeps the invariant.
LEMMA CalmKeeps ==
  ASSUME PerfAssumption, PerfInv, ApartInv, perf.role = "client", Calm, IsList(modem'), IsList(queue'),
         ~perf.use_harq => TimerStays
  PROVE  ApartInv'
<1>1. Remembers /\ Reservations /\ ClientAlone
  BY DEF PerfInv, LendInv, ApartInv
<1>2. /\ perf'.role = "client" /\ perf'.use_harq = perf.use_harq
      /\ perf'.on_going => perf.on_going
  BY <1>1, PerfStays DEF Calm, ClientAlone
<1>3. PICK m \in 0 .. LastHandle : Told(m)
  BY DEF ApartInv
<1>4. LastHandle \in Nat /\ m \in Nat
  BY DEF PerfAssumption
<1>5. client'.handle = client.handle
  BY DEF Calm
<1>6. \E n \in 0 .. m : InOrder(n)' /\ \A i \in 1 .. n : modem'[i] = modem[i]
  <2>1. CASE Txs(modem') = {}
    <3>1. InOrder(0)' /\ \A i \in 1 .. 0 : modem'[i] = modem[i]
      BY <2>1 DEF InOrder
    <3> QED
      BY <1>4, <3>1
  <2>2. CASE SameTxs
    <3>1. Txs(modem') = 1 .. m /\ \A i \in 1 .. m : modem'[i] = modem[i]
      BY <1>3, <2>2 DEF SameTxs, Told, InOrder
    <3>2. 1 .. m \subseteq DOMAIN modem'
      BY <3>1 DEF Txs
    <3>3. InOrder(m)'
      BY <1>3, <1>5, <3>1, <3>2 DEF Told, InOrder
    <3> QED
      BY <1>4, <3>1, <3>3
  <2> QED
    BY <2>1, <2>2 DEF Calm
<1>7. PICK n \in 0 .. m : InOrder(n)' /\ \A i \in 1 .. n : modem'[i] = modem[i]
  BY <1>6
<1>8. n \in 0 .. LastHandle /\ n \in Nat /\ n <= m
  BY <1>4
<1>9. Told(n)'
  <2>0. Reserved(n)'
    BY <1>3, <1>4, <1>7, <1>8, CalmReserved DEF Told
  <2>1. CASE perf.use_harq
    <3>1. \A i \in 1 .. n : i \in 1 .. m
      BY <1>8
    <3>2. \A i \in 1 .. n : modem'[i].process # Nobody
      BY <1>3, <1>7, <2>1, <3>1 DEF Told
    <3> QED
      BY <1>2, <1>7, <2>0, <2>1, <3>2 DEF Told
  <2>2. CASE ~perf.use_harq
    <3>1. PICK r \in Nat, a \in 0 .. Most, age \in [DOMAIN queue -> Nat] : Paced(m, r, a, age)
      BY <1>3, <2>2 DEF Told
    <3>2. a \in Nat
      BY DEF PerfAssumption, Most
    <3>3. \E new \in [DOMAIN queue' -> Nat] : Paced(n, r, a, new)'
      BY <1>2, <1>4, <1>8, <2>2, <3>1, <3>2, CalmPaced DEF TimerStays
    <3> QED
      BY <1>2, <1>7, <2>0, <2>2, <3>3 DEF Told, TimerStays
  <2> QED
    BY <2>1, <2>2
<1> QED
  BY <1>2, <1>8, <1>9, CalmAlone DEF ApartInv

--------------------------------------------------------------------------------
(* The steps of a server.                                                  *)

\* An event is taken, and perhaps one that is of no TX is put behind the others.
LEMMA EventTaken ==
  ASSUME Lists, queue # <<>>, NEW id, id \notin Sent,
         queue' = Tail(queue) \/ queue' = Append(Tail(queue), Event(id))
  PROVE  EventsCalm
<1>1. IsList(Tail(queue)) /\ ToSet(Tail(queue)) \subseteq ToSet(queue)
  BY Took
<1>2. CASE queue' = Tail(queue)
  BY <1>1, <1>2 DEF EventsCalm
<1>3. CASE queue' = Append(Tail(queue), Event(id))
  <2>1. ToSet(Append(Tail(queue), Event(id))) = ToSet(Tail(queue)) \cup {Event(id)}
    BY <1>1, ListAppend
  <2> QED
    BY <1>1, <1>3, <2>1, Ids DEF EventsCalm
<1> QED
  BY <1>2, <1>3

\* An event that is of no TX is put behind the others.
LEMMA EventPut ==
  ASSUME Lists, NEW event, event.id \notin Sent, queue' = Append(queue, event) \/ queue' = queue
  PROVE  EventsCalm
<1>1. ToSet(Append(queue, event)) = ToSet(queue) \cup {event}
  BY ListAppend DEF Lists, IsList
<1> QED
  BY <1>1 DEF EventsCalm

\* A server's perf goes on, is over, or goes on with less time or from now.
RunGoes ==
  \/ perf' = perf
  \/ \E b \in BOOLEAN : perf' = [perf EXCEPT !.on_going = b]
  \/ \E b \in BOOLEAN, d \in Int :
       \/ perf' = [perf EXCEPT !.on_going = b, !.duration = d]
       \/ perf' = [perf EXCEPT !.on_going = b, !.duration = d, !.started = now]
  \/ perf' = [perf EXCEPT !.duration = 0]

\* Such a step keeps what the rounds rest on.
LEMMA RunKept ==
  ASSUME ApartInv, Remembers, perf.role = "server", harq' = harq \/ harq' \in Harqs, now' = now,
         RunGoes
  PROVE  RunCalm
<1>1. Reservations
  BY DEF ApartInv
<1>2. now \in Nat /\ perf \in [on_going : BOOLEAN, role : {"client", "server"}, use_harq : BOOLEAN, usable : Nat,
               started : Nat, duration : Int]
  BY DEF Remembers
<1>3. harq' \in Harqs
  BY <1>1 DEF Reservations, Harqs
<1>4. perf'.role = perf.role /\ perf'.use_harq = perf.use_harq /\ perf'.usable = perf.usable
      /\ (perf'.started = perf.started \/ perf'.started = now)
  BY <1>2 DEF RunGoes
<1>5. perf.started <= now
  BY <1>1 DEF Reservations
<1> QED
  BY <1>2, <1>3, <1>4, <1>5 DEF RunCalm

\* A server's RX is started: no TX.
LEMMA StartedCalm ==
  ASSUME Lists, Remembers, NEW duration, NEW taken \in BOOLEAN, NEW data,
         RxStart(duration, taken, data, modem)
  PROVE  OpsCalm
<1>1. \A op \in ToSet(modem') : op \in ToSet(modem) \/ op \in Rxs
  BY Started
<1> QED
  BY <1>1, Ids DEF OpsCalm

\* The perf thread, at the events of a server.
LEMMA ServerRunsCalm ==
  ASSUME PerfInv, ApartInv, perf.role = "server", ServerRuns
  PROVE  ServerCalm
<1>0. Remembers /\ Lists /\ SecsLeft \in Int /\ perf.on_going \in BOOLEAN
  BY SecsLeftType DEF PerfInv, LendInv, Runs, Remembers
<1>1. "none" \notin Sent /\ "report" \notin Sent
  BY DEF Sent
<1>2. ASSUME NEW taken \in BOOLEAN, Restart(taken), harq' = harq, now' = now
      PROVE  RunCalm /\ OpsCalm
  <2>1. perf' = [perf EXCEPT !.on_going = taken, !.duration = SecsLeft]
    BY <1>2 DEF Restart
  <2>2. OpsCalm
    BY <1>0, <1>2, StartedCalm DEF Restart
  <2> QED
    BY <1>0, <1>2, <2>1, <2>2, RunKept DEF RunGoes
<1>3. ASSUME modem' = modem
      PROVE  OpsCalm
  BY <1>3 DEF OpsCalm
<1>4. ASSUME CmdDone, harq' = harq, now' = now
      PROVE  RunCalm
  <2>1. perf' = [perf EXCEPT !.on_going = FALSE]
    BY <1>4 DEF CmdDone
  <2> QED
    BY <1>0, <1>4, <2>1, RunKept DEF RunGoes
<1>5. ASSUME UNCHANGED <<perf, harq, now>>
      PROVE  RunCalm
  BY <1>0, <1>5, RunKept DEF RunGoes
<1>6. ASSUME NEW taken \in BOOLEAN, TakeServerRx(taken)
      PROVE  ServerCalm
  <2>1. EventsCalm
    BY <1>0, <1>1, <1>6, EventTaken DEF TakeServerRx, Handles, Takes
  <2>2. harq' = harq /\ now' = now
    BY <1>6 DEF TakeServerRx
  <2>3. \/ Restart(taken)
        \/ CmdDone /\ modem' = modem
        \/ perf' = perf /\ modem' = modem
    BY <1>6 DEF TakeServerRx
  <2> QED
    BY <1>2, <1>3, <1>4, <1>5, <2>1, <2>2, <2>3 DEF ServerCalm
<1>7. ASSUME NEW fast \in BOOLEAN, NEW taken \in BOOLEAN, TakeServerRxFailed(fast, taken)
      PROVE  ServerCalm
  <2>1. EventsCalm
    BY <1>0, <1>1, <1>7, EventTaken DEF TakeServerRxFailed, Handles, Takes
  <2>2. harq' = harq /\ now' = now
    BY <1>7 DEF TakeServerRxFailed
  <2>3. Restart(taken) \/ (CmdDone /\ modem' = modem)
    BY <1>7 DEF TakeServerRxFailed
  <2> QED
    BY <1>2, <1>3, <1>4, <2>1, <2>2, <2>3 DEF ServerCalm
<1>8. ASSUME NEW known \in BOOLEAN, TakeRequest(known)
      PROVE  ServerCalm
  <2>1. EventsCalm
    BY <1>0, <1>1, <1>8, EventTaken DEF TakeRequest, Handles, Takes
  <2>2. UNCHANGED <<perf, harq, now, modem>>
    BY <1>8 DEF TakeRequest, bounds
  <2> QED
    BY <1>3, <1>5, <2>1, <2>2 DEF ServerCalm
<1>9. ASSUME NEW taken \in BOOLEAN, TakeReport(taken)
      PROVE  ServerCalm
  <2>1. EventsCalm
    BY <1>0, <1>1, <1>9, EventTaken DEF TakeReport, Takes
  <2>2. UNCHANGED <<perf, harq, now>>
    BY <1>9 DEF TakeReport
  <2>3. OpsCalm
    <3>1. PICK ops : ops = [i \in DOMAIN modem |-> Cancelled(modem[i])]
      OBVIOUS
    <3>2. PICK tx : tx = IF taken THEN <<Other("results")>> ELSE <<>>
      OBVIOUS
    <3>3. modem' = ops \o tx
      BY <1>9, <3>1, <3>2 DEF TakeReport
    <3>4. IsList(modem)
      BY <1>0 DEF Lists, IsList
    <3>5. IsList(tx) /\ \A op \in ToSet(tx) : op.op # "tx"
      <4>1. ToSet(<<Other("results")>>) = {Other("results")} /\ IsList(<<Other("results")>>)
        BY ListSingle
      <4>2. Other("results").op # "tx"
        BY Ids
      <4> QED
        BY <3>2, <4>1, <4>2, ListEmpty
    <3>6. \A i \in DOMAIN modem : ops[i] = modem[i] \/ ops[i].op # "tx"
      BY <3>1 DEF Cancelled
    <3>7. DOMAIN ops = DOMAIN modem /\ ops = [i \in DOMAIN modem |-> ops[i]]
      BY <3>1
    <3>8. IsList(ops)
      <4>1. PICK S : S = {}
        OBVIOUS
      <4>2. \A i \in DOMAIN modem : modem[i] \in S <=> ops[i] \in S
        BY <4>1
      <4> QED
        BY <3>4, <3>7, <4>2, ListEach
    <3>9. ToSet(modem') = ToSet(ops) \cup ToSet(tx)
      BY <3>3, <3>5, <3>8, ListConcat
    <3>10. \A op \in ToSet(ops) : op \in ToSet(modem) \/ op.op # "tx"
      BY <3>6, <3>7 DEF ToSet
    <3> QED
      BY <3>5, <3>9, <3>10 DEF OpsCalm
  <2> QED
    BY <1>5, <2>1, <2>2, <2>3 DEF ServerCalm
<1>10. ASSUME NEW taken \in BOOLEAN, TakeResultsSent(taken)
       PROVE  ServerCalm
  <2>1. EventsCalm
    BY <1>0, <1>1, <1>10, EventTaken DEF TakeResultsSent, Handles, Takes
  <2>2. now' = now
    BY <1>10 DEF TakeResultsSent
  <2>3. CASE CmdDone /\ UNCHANGED <<harq, modem>>
    BY <1>3, <1>4, <2>1, <2>2, <2>3 DEF ServerCalm
  <2>4. CASE RestartAfterResults(taken)
    <3>1. perf' = [perf EXCEPT !.on_going = taken, !.duration = SecsLeft, !.started = now]
      BY <2>4 DEF RestartAfterResults
    <3>2. OpsCalm
      BY <1>0, <2>4, StartedCalm DEF RestartAfterResults
    <3>3. harq' \in Harqs
      BY <2>4 DEF RestartAfterResults, AllFree, Harqs
    <3>4. RunCalm
      BY <1>0, <2>2, <3>1, <3>3, RunKept DEF RunGoes
    <3> QED
      BY <2>1, <3>2, <3>4 DEF ServerCalm
  <2> QED
    BY <1>10, <2>3, <2>4 DEF TakeResultsSent
<1>11. ASSUME TakeCmdDone
       PROVE  ServerCalm
  <2>1. EventsCalm
    BY <1>0, <1>1, <1>11, EventTaken DEF TakeCmdDone, Takes
  <2>2. CmdDone /\ UNCHANGED <<harq, modem, now>>
    BY <1>11 DEF TakeCmdDone, bounds
  <2> QED
    BY <1>3, <1>4, <2>1, <2>2 DEF ServerCalm
<1> QED
  BY <1>6, <1>7, <1>8, <1>9, <1>10, <1>11 DEF ServerRuns
\* What happens without the threads: the modem, the other device, timers, time, and events
\* of a perf that is over.
LEMMA ServerOthersCalm ==
  ASSUME PerfInv, ApartInv, perf.role = "server",
         ModemRuns \/ Air \/ TimerExpires \/ Tick \/ Drop \/ \E p \in 1 .. Processes : Age(p)
  PROVE  ServerCalm
<1>0. /\ Remembers /\ Lists /\ Reservations /\ NoneSent
      /\ perf.on_going \in BOOLEAN /\ harq \in Harqs
  BY DEF PerfInv, LendInv, Runs, Remembers, ApartInv, Reservations, Harqs
<1>1. ASSUME UNCHANGED <<perf, now>>, harq' \in Harqs
      PROVE  RunCalm
  BY <1>0, <1>1, RunKept DEF RunGoes
<1>2. ASSUME NEW i \in DOMAIN modem, modem' = RemoveAt(modem, i)
      PROVE  OpsCalm
  BY <1>0, <1>2, Removed DEF OpsCalm
<1>3. ASSUME NEW event, event.id \notin Sent, Put(<<event>>) \/ Put(<<>>)
      PROVE  EventsCalm
  <2>1. queue' \in {queue, queue \o <<event>>, queue \o <<>>}
    BY <1>3 DEF Put
  <2>2. IsList(queue)
    BY <1>0 DEF Lists, IsList
  <2>3. ToSet(queue \o <<event>>) = ToSet(queue) \cup {event}
    BY <2>2, ListSingle, ListConcat
  <2>4. ToSet(queue \o <<>>) = ToSet(queue)
    BY <2>2, ListEmpty, ListConcat
  <2> QED
    BY <1>3, <2>1, <2>3, <2>4 DEF EventsCalm
<1>4. CASE ModemRuns
  <2>1. ASSUME NEW failed \in BOOLEAN, NEW answered \in BOOLEAN, TxEnds(failed, answered)
        PROVE  FALSE
    <3>1. 1 \in DOMAIN modem /\ modem[1].op = "tx"
      BY <2>1 DEF TxEnds, Ends
    <3> QED
      BY <1>0, <3>1 DEF NoneSent, ToSet
  <2>2. ASSUME NEW i \in DOMAIN modem, OtherEnds(i)
        PROVE  ServerCalm
    <3>1. modem' = RemoveAt(modem, i) /\ UNCHANGED <<perf, harq, now>>
          /\ modem[i].op \in {"request", "results_rx", "results"}
      BY <2>2 DEF OtherEnds, Ends, bounds
    <3>2. Put(<<Event(modem[i].op)>>) \/ Put(<<>>)
      BY <2>2 DEF OtherEnds
    <3>3. Event(modem[i].op).id \notin Sent
      BY <3>1, Ids DEF Sent
    <3> QED
      BY <1>0, <1>1, <1>2, <1>3, <3>1, <3>2, <3>3 DEF ServerCalm
  <2>3. ASSUME NEW i \in DOMAIN modem, NEW failed \in BOOLEAN, RxEnds(i, failed)
        PROVE  ServerCalm
    <3>1. modem' = RemoveAt(modem, i) /\ UNCHANGED <<perf, harq, now>>
      BY <2>3 DEF RxEnds, Ends
    <3>2. PICK event : event = IF failed THEN RxFailed(modem[i].lost) ELSE Event("server_rx")
      OBVIOUS
    <3>3. Put(<<event>>)
      BY <2>3, <3>2 DEF RxEnds
    <3>4. event.id \notin Sent
      BY <3>2 DEF RxFailed, Event, Sent
    <3> QED
      BY <1>0, <1>1, <1>2, <1>3, <3>1, <3>3, <3>4 DEF ServerCalm
  <2> QED
    BY <1>4, <2>1, <2>2, <2>3 DEF ModemRuns
<1>5. ASSUME NEW i \in DOMAIN modem, NEW taken \in BOOLEAN, Header(i, taken)
      PROVE  ServerCalm
  <2>1. PICK ops : ops = [modem EXCEPT ![i].heard = "header"]
    OBVIOUS
  <2>2. PICK data : data = IF perf.on_going THEN server ELSE NoServer
    OBVIOUS
  <2>3. RxStart(perf.duration, taken, data, ops) /\ UNCHANGED <<harq, queue, now>>
        /\ perf' = [perf EXCEPT !.on_going = @ /\ taken] /\ modem[i].op = "server_rx"
    BY <1>5, <2>1, <2>2 DEF Header, Listens
  <2>4. IsList(ops) /\ \A op \in ToSet(ops) : op \in ToSet(modem) \/ op \in Rxs
    BY <1>0, <2>1, <2>3, Hears
  <2>5. OpsCalm
    <3>1. PICK rx : rx = ServerRx(now + (IF perf.duration = 0 THEN 0 ELSE 1), Receives(ops))
      OBVIOUS
    <3>2. rx.op = "server_rx"
      BY <3>1 DEF ServerRx
    <3>3. modem' = ops \/ modem' = Append(ops, rx)
      BY <2>3, <3>1 DEF RxStart
    <3>4. ToSet(Append(ops, rx)) = ToSet(ops) \cup {rx}
      BY <2>4, ListAppend
    <3> QED
      BY <2>4, <3>2, <3>3, <3>4, Ids DEF OpsCalm
  <2>6. RunCalm
    <3>1. PICK b \in BOOLEAN : b = (perf.on_going /\ taken)
      OBVIOUS
    <3>2. perf' = [perf EXCEPT !.on_going = b]
      BY <2>3, <3>1
    <3> QED
      BY <1>0, <2>3, <3>2, RunKept DEF RunGoes
  <2> QED
    BY <2>3, <2>5, <2>6 DEF ServerCalm, EventsCalm
<1>6. ASSUME NEW i \in DOMAIN modem, HearRequest(i)
      PROVE  ServerCalm
  <2>1. UNCHANGED <<perf, harq, now>> /\ modem[i].op = "server_rx" /\ Put(<<Event("requested")>>)
        /\ (modem' = modem \/ modem' = [modem EXCEPT ![i].heard = "data"])
    BY <1>6 DEF HearRequest, bounds, Listens
  <2>2. \A op \in ToSet([modem EXCEPT ![i].heard = "data"]) : op \in ToSet(modem) \/ op \in Rxs
    BY <1>0, <2>1, Hears
  <2>3. OpsCalm
    BY <2>1, <2>2, Ids DEF OpsCalm
  <2>4. EventsCalm
    <3>1. Event("requested").id \notin Sent
      BY DEF Event, Sent
    <3> QED
      BY <1>3, <2>1, <3>1
  <2> QED
    BY <1>0, <1>1, <2>1, <2>3, <2>4 DEF ServerCalm
<1>7. CASE TimerExpires
  <2>1. UNCHANGED <<perf, now, modem>> /\ queue' = Append(queue, Event("timer"))
    BY <1>7 DEF TimerExpires, bounds
  <2>2. harq' \in Harqs
    BY <1>0, <1>7 DEF TimerExpires, Harqs
  <2>3. Event("timer").id \notin Sent
    BY DEF Event, Sent
  <2> QED
    BY <1>0, <1>1, <2>1, <2>2, <2>3, EventPut DEF ServerCalm, OpsCalm
<1>8. CASE Tick
  <2>1. UNCHANGED <<perf, harq, modem, queue>> /\ now' = now + 1
    BY <1>8 DEF Tick
  <2>2. perf.started <= now + 1
    BY <1>0 DEF Remembers, Reservations
  <2> QED
    BY <1>0, <2>1, <2>2 DEF ServerCalm, RunCalm, OpsCalm, EventsCalm
<1>9. CASE Drop
  <2>1. UNCHANGED <<perf, harq, modem, now>> /\ queue # <<>> /\ queue' = Tail(queue)
    BY <1>9 DEF Drop, bounds
  <2>2. "none" \notin Sent
    BY DEF Sent
  <2> QED
    BY <1>0, <1>1, <2>1, <2>2, EventTaken DEF ServerCalm, OpsCalm
<1>10. ASSUME NEW p \in 1 .. Processes, Age(p)
       PROVE  ServerCalm
  <2>1. UNCHANGED <<perf, modem, queue, now>>
    BY <1>10 DEF Age, bounds
  <2>2. harq' \in Harqs
    BY <1>0, <1>10 DEF Age, Harqs
  <2> QED
    BY <1>0, <1>1, <2>1, <2>2 DEF ServerCalm, OpsCalm, EventsCalm
<1> QED
  BY <1>4, <1>5, <1>6, <1>7, <1>8, <1>9, <1>10 DEF Air

\* A server has none of a client's events: of these handlers, only the timer's and that of
\* a stray RX for results can run.
LEMMA ServerClientRunsCalm ==
  ASSUME PerfInv, ApartInv, perf.role = "server", ClientRuns
  PROVE  ServerCalm
<1>0. Remembers /\ Lists /\ NoneSent /\ harq \in Harqs
  BY DEF PerfInv, LendInv, Runs, ApartInv, Reservations, Harqs
<1>1. queue # <<>> => Head(queue).id \notin Sent
  BY <1>0, Took DEF NoneSent
<1>2. "none" \notin Sent
  BY DEF Sent
<1>3. ASSUME NEW sent \in Rounds, NEW taken \in 0 .. 2, TakeTx(sent, taken)
      PROVE  FALSE
  BY <1>1, <1>3 DEF TakeTx, Handles, Takes, Sent
<1>4. ASSUME NEW reset \in BOOLEAN, TakeFeedback(reset)
      PROVE  FALSE
  BY <1>1, <1>4 DEF TakeFeedback, Takes, Sent
<1>5. ASSUME NEW sent \in Rounds, TakeTimer(sent)
      PROVE  ServerCalm
  <2>1. UNCHANGED <<perf, harq, modem, now>> /\ queue # <<>> /\ queue' = Tail(queue)
    BY <1>5 DEF TakeTimer, Handles, Takes
  <2> QED
    BY <1>0, <1>2, <2>1, EventTaken, RunKept DEF ServerCalm, OpsCalm, RunGoes
<1>6. ASSUME NEW taken \in 0 .. 2, TakeTimeout(taken)
      PROVE  ServerCalm
  <2>1. PICK x, y : x = Event("report") /\ y = Event("cmd_done")
    OBVIOUS
  <2>2. UNCHANGED <<perf, harq, modem, now>> /\ queue # <<>> /\ queue' = Tail(queue) \o <<x, y>>
    BY <1>6, <2>1 DEF TakeTimeout, Handles, Takes
  <2>3. ToSet(<<x, y>>) = {x, y} /\ IsList(<<x, y>>)
    <3>1. ToSet(<<x, y>>) = {x, y} /\ <<x, y>> \in Seq({x, y})
      BY DEF ToSet
    <3> QED
      BY <3>1, ListOf
  <2>4. IsList(Tail(queue)) /\ ToSet(Tail(queue)) \subseteq ToSet(queue)
    BY <1>0, <2>2, Took
  <2>5. ToSet(queue') = ToSet(Tail(queue)) \cup {x, y}
    BY <2>2, <2>3, <2>4, ListConcat
  <2>6. x.id \notin Sent /\ y.id \notin Sent
    BY <2>1 DEF Event, Sent
  <2>7. EventsCalm
    BY <2>4, <2>5, <2>6 DEF EventsCalm
  <2> QED
    BY <1>0, <2>2, <2>7, RunKept DEF ServerCalm, OpsCalm, RunGoes
<1>7. CASE TakeResultsRx
  <2>1. UNCHANGED <<harq, modem, now>> /\ queue # <<>> /\ queue' = Tail(queue)
        /\ perf' = [perf EXCEPT !.on_going = FALSE]
    BY <1>7 DEF TakeResultsRx, Handles, Takes, CmdDone, bounds
  <2> QED
    BY <1>0, <1>2, <2>1, EventTaken, RunKept DEF ServerCalm, OpsCalm, RunGoes
<1> QED
  BY <1>3, <1>4, <1>5, <1>6, <1>7 DEF ClientRuns

\* Control takes the modem back, the shell goes on.
LEMMA ServerControlCalm ==
  ASSUME PerfInv, ApartInv, perf.role = "server", TakeDone \/ Stop \/ ShellGoesOn
  PROVE  ServerCalm
<1>0. Remembers /\ Lists /\ NoneSent /\ harq \in Harqs
  BY DEF PerfInv, LendInv, Runs, ApartInv, Reservations, Harqs
<1>1. CASE TakeDone
  <2>1. UNCHANGED <<perf, harq, queue, now>> /\ modem' = <<>>
    BY <1>1 DEF TakeDone, bounds
  <2>2. OpsCalm
    BY <2>1, HoldsEmpty DEF OpsCalm
  <2> QED
    BY <1>0, <2>1, <2>2, RunKept DEF ServerCalm, EventsCalm, RunGoes
<1>2. CASE Stop
  <2>1. UNCHANGED <<perf, harq, queue, now, modem>>
    BY <1>2 DEF Stop
  <2> QED
    BY <1>0, <2>1, RunKept DEF ServerCalm, OpsCalm, EventsCalm, RunGoes
<1>3. CASE StopClient
  BY <1>3 DEF StopClient
<1>4. ASSUME NEW event, event.id \notin Sent, queue' = Append(queue, event), UNCHANGED <<perf, harq, modem, now>>
      PROVE  ServerCalm
  BY <1>0, <1>4, RunKept, EventPut DEF ServerCalm, OpsCalm, RunGoes
<1>5. Event("report").id \notin Sent /\ Event("cmd_done").id \notin Sent
  BY DEF Event, Sent
<1>6. CASE StopServer
  BY <1>4, <1>5, <1>6 DEF StopServer, bounds
<1>7. CASE StopServerEnds
  BY <1>4, <1>5, <1>7 DEF StopServerEnds, bounds
<1>8. ASSUME NEW taken \in 0 .. 2, StopRequests(taken)
      PROVE  ServerCalm
  <2>1. UNCHANGED <<harq, queue, now>> /\ Request(taken, NoTime)
    BY <1>8 DEF StopRequests
  <2>2. modem' = modem \o SubSeq(<<Other("request"), Other("results_rx")>>, 1, taken)
    BY <2>1 DEF Request
  <2>3. IsList(modem)
    BY <1>0 DEF Lists, IsList
  <2>4. OpsCalm
    BY <2>2, <2>3, Requested DEF OpsCalm
  <2>5. RunGoes
    BY <2>1 DEF Request, NoTime, CmdDone, RunGoes
  <2> QED
    BY <1>0, <2>1, <2>4, <2>5, RunKept DEF ServerCalm, EventsCalm
<1> QED
  BY <1>1, <1>2, <1>3, <1>6, <1>7, <1>8 DEF ShellGoesOn

\* The steps of a server.
LEMMA ServerSteps ==
  ASSUME PerfInv, ApartInv, perf.role = "server",
         \/ Threads \/ ShellGoesOn \/ Stop \/ ModemRuns \/ Air \/ TimerExpires \/ Tick
         \/ \E p \in 1 .. Processes : Age(p)
  PROVE  ApartInv'
<1>1. ServerCalm
  BY ServerRunsCalm, ServerClientRunsCalm, ServerOthersCalm, ServerControlCalm DEF Threads
<1> QED
  BY <1>1, ServerKeeps

--------------------------------------------------------------------------------
(* The steps in which a client sends nothing.                              *)

\* A client that requests its results, because its time is over, sends no TX.
LEMMA RequestCalm ==
  ASSUME Lists, Remembers, Reservations, NEW taken \in 0 .. 2, now' = now,
         \/ Report(taken, UNCHANGED <<perf, done>>) /\ TimeIsOver
         \/ Report(taken, NoTime) \/ Request(taken, NoTime)
  PROVE  /\ PerfStill /\ SameTxs /\ OpsStill
         /\ client'.handle = client.handle /\ client'.starting = client.starting /\ client'.middle = client.middle
<1>1. /\ client' = client \/ client' = [client EXCEPT !.requested = TRUE]
      /\ \/ perf' = perf \/ perf' = [perf EXCEPT !.on_going = FALSE] \/ perf' = [perf EXCEPT !.duration = 0]
  BY DEF Report, Request, NoTime, CmdDone
<1>2. PICK r : r = SubSeq(<<Other("request"), Other("results_rx")>>, 1, taken)
  OBVIOUS
<1>3. modem' = modem \/ modem' = modem \o r
  BY <1>2 DEF Report, Request
<1>4. IsList(modem)
  BY DEF Lists, IsList
<1>5. IsList(r) /\ \A op \in ToSet(r) : op.op \in {"request", "results_rx"}
  <2>1. PICK x, y : x = Other("request") /\ y = Other("results_rx")
    OBVIOUS
  <2>2. \A i \in 1 .. taken : <<x, y>>[i] \in {x, y}
    OBVIOUS
  <2>3. SubSeq(<<x, y>>, 1, taken) \in Seq({x, y})
    BY <2>2, SubSeqProperties
  <2>4. IsList(r) /\ ToSet(r) \subseteq {x, y}
    BY <1>2, <2>1, <2>3, HoldsType, ListOf
  <2> QED
    BY <2>1, <2>4, Ids
<1>6. /\ DOMAIN modem = 1 .. Len(modem) /\ Len(modem) \in Nat /\ Len(r) \in Nat /\ DOMAIN r = 1 .. Len(r)
      /\ DOMAIN (modem \o r) = 1 .. Len(modem) + Len(r)
      /\ \A i \in 1 .. Len(modem) + Len(r) :
           (modem \o r)[i] = IF i <= Len(modem) THEN modem[i] ELSE r[i - Len(modem)]
  BY <1>4, <1>5, Joined
<1>7. SameTxs
  <2>1. CASE modem' = modem
    BY <2>1 DEF SameTxs, Txs
  <2>2. CASE modem' = modem \o r
    <3>1. PICK n, l : n = Len(modem) /\ l = Len(r)
      OBVIOUS
    <3>2. /\ n \in Nat /\ l \in Nat /\ DOMAIN modem = 1 .. n /\ DOMAIN modem' = 1 .. n + l
          /\ \A i \in 1 .. n + l : modem'[i] = IF i <= n THEN modem[i] ELSE r[i - n]
      BY <1>6, <2>2, <3>1
    <3>3. \A i \in n + 1 .. n + l : modem'[i].op # "tx"
      <4>1. \A i \in n + 1 .. n + l : modem'[i] = r[i - n] /\ i - n \in DOMAIN r
        BY <1>6, <3>1, <3>2
      <4> QED
        BY <1>5, <4>1 DEF ToSet
    <3>4. \A i \in 1 .. n : modem'[i] = modem[i]
      BY <3>2
    <3> QED
      BY <3>2, <3>3, <3>4 DEF SameTxs, Txs
  <2> QED
    BY <1>3, <2>1, <2>2
<1>8. OpsStill
  <2>1. CASE modem' = modem
    BY <2>1 DEF OpsStill
  <2>2. CASE modem' # modem
    <3>1. ToSet(modem') = ToSet(modem) \cup ToSet(r)
      BY <1>3, <1>4, <1>5, <2>2, ListConcat
    <3>2. \/ UNCHANGED <<perf, done>> /\ TimeIsOver
          \/ perf' = [perf EXCEPT !.duration = 0]
          \/ perf' = [perf EXCEPT !.on_going = FALSE]
      BY <2>2 DEF Report, Request, NoTime, CmdDone
    <3>3. perf'.on_going => TimeIsOver'
      <4>1. CASE UNCHANGED <<perf, done>> /\ TimeIsOver
        BY <4>1 DEF TimeIsOver
      <4>2. CASE perf' = [perf EXCEPT !.on_going = FALSE]
        BY <4>2 DEF Remembers
      <4>3. CASE perf' = [perf EXCEPT !.duration = 0]
        <5>1. perf'.duration = 0 /\ perf'.started = perf.started /\ perf.started \in Nat /\ now \in Nat
          BY <4>3 DEF Remembers
        <5>2. perf.started <= now
          BY DEF Reservations
        <5> QED
          BY <5>1, <5>2 DEF TimeIsOver
      <4> QED
        BY <3>2, <4>1, <4>2, <4>3
    <3> QED
      BY <1>5, <3>1, <3>3 DEF OpsStill
  <2> QED
    BY <2>1, <2>2
<1>9. client'.handle = client.handle /\ client'.starting = client.starting /\ client'.middle = client.middle
  BY <1>1 DEF Remembers
<1> QED
  BY <1>1, <1>7, <1>8, <1>9 DEF PerfStill

\* An event is taken: the others stay in their order.
LEMMA TakenStill ==
  ASSUME Lists, queue # <<>>, queue' = Tail(queue)
  PROVE  EventsStill
<1>1. IsList(queue) /\ ToSet(Tail(queue)) \subseteq ToSet(queue)
  BY Took
<1> QED
  BY <1>1, KeptTail DEF EventsStill

\* The same events, or one that is of no TX behind them.
LEMMA PutStill ==
  ASSUME Lists, NEW id \in {"timer", "results_rx"},
         \/ queue' = queue \/ queue' = queue \o <<Event(id)>> \/ queue' = queue \o <<>>
         \/ queue' = Append(queue, Event(id))
  PROVE  EventsStill
<1>1. IsList(queue) /\ queue \in Seq(ToSet(queue))
  BY DEF Lists, IsList
<1>2. PICK t : t \in {<<>>, <<Event(id)>>} /\ (queue' = queue \/ queue' = queue \o t)
  <2>1. PICK S, e : e = Event(id) /\ S = ToSet(queue) \cup {e}
    OBVIOUS
  <2>2. queue \in Seq(S) /\ e \in S
    BY <1>1, <2>1, SeqWider
  <2>3. Append(queue, e) = queue \o <<e>>
    BY <2>2, AppendIsConcat
  <2> QED
    BY <2>1, <2>3
<1>3. IsList(t) /\ ToSet(t) \subseteq {Event(id)}
  BY <1>2, ListEmpty, ListSingle
<1>4. \A event \in ToSet(t) : event.id \in {"timer", "results_rx"} /\ event.id \notin Sent
  BY <1>3, Ids DEF Sent
<1>5. CASE queue' = queue
  BY <1>1, <1>5, KeptAll DEF EventsStill
<1>6. CASE queue' = queue \o t
  <2>1. ToSet(queue') = ToSet(queue) \cup ToSet(t)
    BY <1>1, <1>3, <1>6, ListConcat
  <2>2. Kept(queue, queue')
    BY <1>1, <1>3, <1>4, <1>6, KeptMore
  <2> QED
    BY <1>4, <2>1, <2>2 DEF EventsStill
<1> QED
  BY <1>2, <1>5, <1>6

\* What is reserved stays so while nothing changes it.
LEMMA HarqKept ==
  ASSUME Reservations, harq' = harq \/ harq' = Cleaned
  PROVE  HarqStill
<1>1. harq \in Harqs /\ DOMAIN harq = 1 .. Processes
  BY DEF Reservations, Harqs
<1>2. harq' \in Harqs
  BY <1>1 DEF Cleaned, Harqs
<1>3. \A p \in 1 .. Processes : harq[p] = "used" => harq'[p] = "used"
  BY <1>1 DEF Cleaned
<1> QED
  BY <1>2, <1>3 DEF HarqStill

\* What the perf thread does for a client whose time is over, or at an event that starts
\* no round.
LEMMA ClientRunsCalm ==
  ASSUME PerfInv, ApartInv, perf.role = "client",
         \/ \E sent \in Rounds, taken \in 0 .. 2 :
              TakeTx(sent, taken) /\ (TimeIsOver \/ ~Drives(Head(queue).handle))
         \/ \E taken \in 0 .. 2 : TakeTimeout(taken)
         \/ \E reset \in BOOLEAN : TakeFeedback(reset)
         \/ TakeResultsRx \/ Drop
  PROVE  Calm
<1>0. Remembers /\ Lists /\ Reservations /\ ClientAlone /\ now \in Nat
  BY DEF PerfInv, LendInv, Runs, ApartInv, Remembers
<1>1. ASSUME UNCHANGED <<modem>>
      PROVE  SameTxs /\ OpsStill
  BY <1>1 DEF SameTxs, OpsStill, Txs
<1>2. ASSUME NEW taken \in 0 .. 2, queue # <<>>, queue' = Tail(queue), UNCHANGED <<harq, tool, now, shell>>,
             \/ Report(taken, UNCHANGED <<perf, done>>) /\ TimeIsOver
             \/ Report(taken, NoTime)
      PROVE  Calm
  <2>1. /\ PerfStill /\ SameTxs /\ OpsStill
        /\ client'.handle = client.handle /\ client'.starting = client.starting /\ client'.middle = client.middle
    BY <1>0, <1>2, RequestCalm
  <2>2. HarqStill /\ EventsStill
    BY <1>0, <1>2, HarqKept, TakenStill
  <2> QED
    BY <1>0, <1>2, <2>1, <2>2 DEF Calm, ClientAlone
<1>3. ASSUME queue # <<>>, queue' = Tail(queue), UNCHANGED <<client, modem, tool, now, shell>>, HarqStill, PerfStill
      PROVE  Calm
  <2>1. EventsStill
    BY <1>0, <1>3, TakenStill
  <2> QED
    BY <1>0, <1>1, <1>3, <2>1 DEF Calm, ClientAlone
<1>4. ASSUME NEW sent \in Rounds, NEW taken \in 0 .. 2, TakeTx(sent, taken),
             TimeIsOver \/ ~Drives(Head(queue).handle)
      PROVE  Calm
  <2>1. CASE TimeIsOver
    BY <1>2, <1>4, <2>1 DEF TakeTx, Handles, Takes
  <2>2. CASE ~TimeIsOver
    <3>1. UNCHANGED <<client, modem, tool, now, shell, harq, perf>> /\ queue # <<>> /\ queue' = Tail(queue)
      BY <1>4, <2>2 DEF TakeTx, Handles, Takes
    <3> QED
      BY <1>0, <1>3, <3>1, HarqKept DEF PerfStill
  <2> QED
    BY <2>1, <2>2
<1>5. ASSUME NEW taken \in 0 .. 2, TakeTimeout(taken)
      PROVE  Calm
  BY <1>2, <1>5 DEF TakeTimeout, Handles, Takes
<1>6. ASSUME NEW reset \in BOOLEAN, TakeFeedback(reset)
      PROVE  Calm
  <2>1. UNCHANGED <<client, modem, tool, now, shell, perf>> /\ queue # <<>> /\ queue' = Tail(queue)
        /\ Head(queue).id = "feedback"
        /\ harq' = IF perf.use_harq /\ ~reset THEN [harq EXCEPT ![Head(queue).process] = "free"] ELSE harq
    BY <1>6 DEF TakeFeedback, Takes, users, bounds
  <2>2. HarqStill
    <3>1. CASE harq' = harq
      BY <1>0, <3>1, HarqKept
    <3>2. CASE harq' # harq
      <4>1. PICK e : e = Head(queue)
        OBVIOUS
      <4>2. perf.use_harq /\ harq' = [harq EXCEPT ![e.process] = "free"]
        BY <2>1, <3>2, <4>1
      <4>3. PICK m \in 0 .. LastHandle : InOrder(m) /\ Reserved(m)
        BY <4>2 DEF ApartInv, Told
      <4>4. /\ queue \in Seq(ToSet(queue)) /\ Len(queue) \in Nat /\ 1 \in DOMAIN queue /\ e = queue[1]
            /\ DOMAIN queue' = 1 .. Len(queue) - 1 /\ DOMAIN queue = 1 .. Len(queue)
            /\ \A k \in 1 .. Len(queue) - 1 : queue'[k] = queue[k + 1]
        <5>1. queue \in Seq(ToSet(queue))
          BY <1>0 DEF Lists
        <5>2. Len(queue) \in Nat \ {0} /\ DOMAIN queue = 1 .. Len(queue)
          BY <2>1, <5>1, EmptySeq, LenProperties
        <5>3. /\ Tail(queue) \in Seq(ToSet(queue)) /\ Len(Tail(queue)) = Len(queue) - 1
              /\ \A k \in 1 .. Len(queue) - 1 : Tail(queue)[k] = queue[k + 1]
          BY <2>1, <5>1, HeadTailProperties
        <5>4. DOMAIN Tail(queue) = 1 .. Len(queue) - 1
          BY <5>3, LenProperties
        <5> QED
          BY <2>1, <4>1, <5>1, <5>2, <5>3, <5>4
      <4>5. /\ \A i \in 1 .. m : modem[i].process # e.process
            /\ \A l \in DOMAIN queue : queue[l].id = "feedback" /\ queue[l].process = e.process => l = 1
        BY <2>1, <4>1, <4>3, <4>4 DEF Reserved
      <4>6. ~Needed(e.process)
        <5>1. \A i \in Txs(modem') : modem'[i].process # e.process
          BY <2>1, <4>3, <4>5 DEF InOrder
        <5>2. \A k \in DOMAIN queue' : ~(queue'[k].id = "feedback" /\ queue'[k].process = e.process)
          <6> SUFFICES ASSUME NEW k \in 1 .. Len(queue) - 1, queue[k + 1].id = "feedback",
                              queue[k + 1].process = e.process
                       PROVE  FALSE
            BY <4>4
          <6>1. k + 1 \in DOMAIN queue /\ k + 1 # 1
            BY <4>4
          <6> QED
            BY <4>5, <6>1
        <5> QED
          BY <5>1, <5>2 DEF Needed
      <4>7. harq \in Harqs
        BY <1>0 DEF Reservations, Harqs
      <4>8. harq' \in Harqs
        BY <4>2, <4>7 DEF Harqs
      <4>9. \A p \in 1 .. Processes : p # e.process => harq'[p] = harq[p]
        BY <4>2, <4>7 DEF Harqs
      <4> QED
        BY <4>6, <4>8, <4>9 DEF HarqStill
    <3> QED
      BY <3>1, <3>2
  <2> QED
    BY <1>3, <2>1, <2>2 DEF PerfStill
<1>7. CASE TakeResultsRx
  <2>1. UNCHANGED <<client, modem, tool, now, shell, harq>> /\ queue # <<>> /\ queue' = Tail(queue)
        /\ perf' = [perf EXCEPT !.on_going = FALSE]
    BY <1>7 DEF TakeResultsRx, Handles, Takes, CmdDone, bounds
  <2> QED
    BY <1>0, <1>3, <2>1, HarqKept DEF PerfStill
<1>8. CASE Drop
  <2>1. UNCHANGED <<client, modem, tool, now, shell, harq, perf>> /\ queue # <<>> /\ queue' = Tail(queue)
    BY <1>8 DEF Drop, users, bounds
  <2> QED
    BY <1>0, <1>3, <2>1, HarqKept DEF PerfStill
<1> QED
  BY <1>4, <1>5, <1>6, <1>7, <1>8

\* The modem, a timer, time, control and the shell.
LEMMA ClientOthersCalm ==
  ASSUME PerfInv, ApartInv, perf.role = "client",
         \/ \E i \in DOMAIN modem : OtherEnds(i)
         \/ TimerExpires \/ Tick \/ \E p \in 1 .. Processes : Age(p)
         \/ TakeDone \/ Stop \/ StopClient \/ \E taken \in 0 .. 2 : StopRequests(taken)
         \/ UNCHANGED vars
  PROVE  Calm
<1>0. Remembers /\ Lists /\ Reservations /\ ClientAlone /\ now \in Nat /\ shell # "report" /\ harq \in Harqs
      /\ IsList(modem)
  BY DEF PerfInv, LendInv, Runs, ApartInv, Remembers, ClientAlone, Reservations, Harqs, Lists, IsList
<1>1. ASSUME UNCHANGED modem
      PROVE  SameTxs /\ OpsStill
  BY <1>1 DEF SameTxs, OpsStill, Txs
<1>2. ASSUME UNCHANGED queue
      PROVE  EventsStill
  <2>1. "timer" \in {"timer", "results_rx"}
    OBVIOUS
  <2> QED
    BY <1>0, <1>2, <2>1, PutStill
<1>3. ASSUME UNCHANGED <<perf, client, modem, tool>>, HarqStill, EventsStill, now' \in Nat, now <= now',
             shell' # "report"
      PROVE  Calm
  BY <1>1, <1>3 DEF Calm, PerfStill
<1>4. ASSUME NEW i \in DOMAIN modem, OtherEnds(i)
      PROVE  Calm
  <2>1. /\ UNCHANGED <<perf, client, harq, tool, shell, now>> /\ modem' = RemoveAt(modem, i)
        /\ modem[i].op \in {"request", "results_rx", "results"}
        /\ i = 1 \/ modem[i].op \in {"server_rx", "results"}
    BY <1>4 DEF OtherEnds, Ends, users, bounds
  <2>2. /\ ToSet(modem) = {modem[i]} \cup ToSet(modem') /\ modem[i] \in ToSet(modem)
    BY <1>0, <2>1, Removed
  <2>3. i = 1 /\ modem[1].op \in {"request", "results_rx"}
    <3>1. modem[i].op \in {"tx", "request", "results_rx"}
      BY <1>0, <2>2 DEF ClientAlone, ClientOnly
    <3> QED
      BY <2>1, <3>1
  <2>4. \A j \in DOMAIN modem : modem[j].op # "tx"
    <3>1. PICK m \in 0 .. LastHandle : InOrder(m)
      BY DEF ApartInv, Told
    <3>2. 1 \notin 1 .. m
      BY <2>3, <3>1 DEF InOrder, Txs
    <3>3. m \in Int
      OBVIOUS
    <3>4. 1 .. m = {}
      BY <3>2, <3>3
    <3> QED
      BY <3>1, <3>4 DEF InOrder, Txs
  <2>5. \A op \in ToSet(modem') : op.op # "tx" /\ op \in ToSet(modem)
    BY <2>2, <2>4 DEF ToSet
  <2>6. Txs(modem') = {} /\ OpsStill
    BY <2>5 DEF Txs, ToSet, OpsStill
  <2>7. EventsStill
    <3>1. CASE modem[i].op = "request"
      <4>1. queue' = queue \/ queue' = queue \o <<>>
        BY <1>4, <3>1 DEF OtherEnds, Put
      <4>2. "timer" \in {"timer", "results_rx"}
        OBVIOUS
      <4> QED
        BY <1>0, <4>1, <4>2, PutStill
    <3>2. CASE modem[i].op = "results_rx"
      <4>1. queue' = queue \/ queue' = queue \o <<Event("results_rx")>>
        BY <1>4, <3>2 DEF OtherEnds, Put
      <4>2. "results_rx" \in {"timer", "results_rx"}
        OBVIOUS
      <4> QED
        BY <1>0, <4>1, <4>2, PutStill
    <3> QED
      BY <2>3, <3>1, <3>2
  <2>8. HarqStill
    BY <1>0, <2>1, HarqKept
  <2> QED
    BY <1>0, <2>1, <2>6, <2>7, <2>8 DEF Calm, PerfStill
<1>5. CASE TimerExpires
  <2>1. UNCHANGED <<perf, client, modem, tool, shell, now>> /\ queue' = Append(queue, Event("timer"))
        /\ harq' = [p \in DOMAIN harq |-> IF harq[p] = "used" /\ Settled(p) THEN "old" ELSE harq[p]]
    BY <1>5 DEF TimerExpires, users, bounds
  <2>2. EventsStill
    BY <1>0, <2>1, PutStill
  <2>3. \A k \in DOMAIN queue' : queue'[k].id = "feedback" => \E l \in DOMAIN queue : queue[l] = queue'[k]
    <3>1. \A k \in DOMAIN queue' : queue'[k].id = "feedback" => queue'[k] \in ToSet(queue)
      BY <2>2 DEF EventsStill, ToSet
    <3> QED
      BY <3>1 DEF ToSet
  <2>4. ASSUME NEW p \in 1 .. Processes, Needed(p)
        PROVE  ~Settled(p)
    BY <2>1, <2>3, <2>4 DEF Needed, Settled, Txs
  <2>5. HarqStill
    <3>1. harq' \in Harqs
      BY <1>0, <2>1 DEF Harqs
    <3>2. ASSUME NEW p \in 1 .. Processes, harq[p] = "used", Needed(p)
          PROVE  harq'[p] = "used"
      <4>1. p \in DOMAIN harq
        BY <1>0 DEF Harqs
      <4>2. ~Settled(p)
        BY <2>4, <3>2
      <4> QED
        BY <2>1, <3>2, <4>1, <4>2
    <3> QED
      BY <3>1, <3>2 DEF HarqStill
  <2> QED
    BY <1>0, <1>3, <2>1, <2>2, <2>5
<1>6. CASE Tick
  <2>1. UNCHANGED <<perf, client, modem, tool, shell, harq, queue>> /\ now' = now + 1
    BY <1>6 DEF Tick, users
  <2> QED
    BY <1>0, <1>2, <1>3, <2>1, HarqKept
<1>7. ASSUME NEW p \in 1 .. Processes, Age(p)
      PROVE  Calm
  <2>1. UNCHANGED <<perf, client, modem, tool, shell, queue, now>> /\ Settled(p)
        /\ harq' = [harq EXCEPT ![p] = "old"]
    BY <1>7 DEF Age, users, bounds
  <2>2. ~Needed(p)
    BY <2>1 DEF Needed, Settled, Txs
  <2>3. HarqStill
    <3>1. harq' \in Harqs /\ \A q \in 1 .. Processes : q # p => harq'[q] = harq[q]
      BY <1>0, <2>1 DEF Harqs
    <3> QED
      BY <2>2, <3>1 DEF HarqStill
  <2> QED
    BY <1>0, <1>2, <1>3, <2>1, <2>3
<1>8. CASE TakeDone
  <2>1. UNCHANGED <<perf, client, shell, harq, queue, now>> /\ modem' = <<>>
    BY <1>8 DEF TakeDone, bounds
  <2>2. Txs(modem') = {} /\ OpsStill
    <3>1. ToSet(modem') = {}
      BY <2>1, HoldsEmpty
    <3> QED
      BY <3>1 DEF Txs, ToSet, OpsStill
  <2> QED
    BY <1>0, <1>2, <2>1, <2>2, HarqKept DEF Calm, PerfStill
<1>9. CASE Stop
  <2>1. UNCHANGED <<perf, client, modem, tool, harq, queue, now>> /\ shell' # "report"
    BY <1>9 DEF Stop, Shell
  <2> QED
    BY <1>0, <1>2, <1>3, <2>1, HarqKept
<1>10. CASE StopClient
  <2>1. UNCHANGED <<client, modem, tool, harq, queue, now>> /\ shell' # "report" /\ (perf' = perf \/ NoTime)
    BY <1>10 DEF StopClient, Shell, bounds
  <2>2. PerfStill
    BY <2>1 DEF PerfStill, NoTime
  <2> QED
    BY <1>0, <1>1, <1>2, <2>1, <2>2, HarqKept DEF Calm
<1>11. ASSUME NEW taken \in 0 .. 2, StopRequests(taken)
       PROVE  Calm
  <2>1. UNCHANGED <<tool, harq, queue, now>> /\ shell' # "report" /\ Request(taken, NoTime)
    BY <1>11 DEF StopRequests, Shell
  <2>2. /\ PerfStill /\ SameTxs /\ OpsStill
        /\ client'.handle = client.handle /\ client'.starting = client.starting /\ client'.middle = client.middle
    BY <1>0, <2>1, RequestCalm
  <2> QED
    BY <1>0, <1>2, <2>1, <2>2, HarqKept DEF Calm
<1>12. CASE UNCHANGED vars
  <2>1. UNCHANGED <<perf, client, modem, tool, shell, harq, queue, now>>
    BY <1>12 DEF vars, users, bounds
  <2> QED
    BY <1>0, <1>2, <1>3, <2>1, HarqKept
<1> QED
  BY <1>4, <1>5, <1>6, <1>7, <1>8, <1>9, <1>10, <1>11, <1>12

--------------------------------------------------------------------------------
(* The end of a TX.                                                        *)

\* One or two entries behind n others.
Behind(new, n, l, q, t) == \A i \in 1 .. n + l : new[i] = IF i <= n THEN q[i] ELSE t[i - n]

\* Where they are.
LEMMA PlacesBehind ==
  ASSUME NEW n \in Nat, NEW l \in {1, 2}, NEW new, NEW q, NEW t, Behind(new, n, l, q, t)
  PROVE  /\ \A k \in 1 .. n : new[k] = q[k]
         /\ new[n + 1] = t[1] /\ (l = 2 => new[n + 2] = t[2])
<1>1. \A k \in 1 .. n : new[k] = q[k]
  BY DEF Behind
<1>2. new[n + 1] = t[1]
  <2>1. n + 1 \in 1 .. n + l /\ ~(n + 1 <= n) /\ n + 1 - n = 1
    OBVIOUS
  <2> QED
    BY <2>1 DEF Behind
<1>3. ASSUME l = 2 PROVE new[n + 2] = t[2]
  <2>1. n + 2 \in 1 .. n + l /\ ~(n + 2 <= n) /\ n + 2 - n = 2
    BY <1>3
  <2> QED
    BY <2>1 DEF Behind
<1> QED
  BY <1>1, <1>2, <1>3

\* Events of TXs, put behind the l of a queue.
SentBehind(q, l, new, c, f, answered) ==
  /\ DOMAIN q = 1 .. l /\ DOMAIN new = 1 .. l + (IF answered THEN 2 ELSE 1)
  /\ \A k \in 1 .. l : new[k] = q[k]
  /\ new[l + 1] = c /\ (answered => new[l + 2] = f)

\* Where the end of a TX, and its feedback, are put.
LEMMA SentQueued ==
  ASSUME NEW q, IsList(q), NEW c, NEW f, NEW answered \in BOOLEAN
  PROVE  \E l \in Nat : SentBehind(q, l, q \o (<<c>> \o IF answered THEN <<f>> ELSE <<>>), c, f, answered)
<1>0. PICK new : new = q \o (<<c>> \o IF answered THEN <<f>> ELSE <<>>)
  OBVIOUS
<1>1. PICK t : t = <<c>> \o IF answered THEN <<f>> ELSE <<>>
  OBVIOUS
<1>2. PICK S : S = {c, f}
  OBVIOUS
<1>3. <<c>> \in Seq(S) /\ <<f>> \in Seq(S) /\ <<>> \in Seq(S)
  BY <1>2
<1>4. /\ t \in Seq(S) /\ Len(t) = IF answered THEN 2 ELSE 1
      /\ t[1] = c /\ (answered => t[2] = f)
  <2>1. CASE answered
    <3>1. t = <<c>> \o <<f>>
      BY <1>1, <2>1
    <3> QED
      BY <1>3, <2>1, <3>1
  <2>2. CASE ~answered
    <3>1. t = <<c>>
      BY <1>1, <1>3, <2>2, ConcatEmptySeq
    <3> QED
      BY <1>3, <2>2, <3>1
  <2> QED
    BY <2>1, <2>2
<1>5. IsList(t)
  BY <1>4, ListOf
<1>6. /\ DOMAIN q = 1 .. Len(q) /\ Len(q) \in Nat /\ Len(t) \in Nat
      /\ DOMAIN new = 1 .. Len(q) + Len(t)
      /\ \A i \in 1 .. Len(q) + Len(t) : new[i] = IF i <= Len(q) THEN q[i] ELSE t[i - Len(q)]
  BY <1>0, <1>1, <1>5, Joined
<1>7. PICK n \in Nat, l \in {1, 2} : n = Len(q) /\ l = Len(t) /\ l = IF answered THEN 2 ELSE 1
  BY <1>4, <1>6
<1>8. Behind(new, n, l, q, t)
  BY <1>6, <1>7 DEF Behind
<1>9. /\ \A k \in 1 .. n : new[k] = q[k]
      /\ new[n + 1] = t[1] /\ (l = 2 => new[n + 2] = t[2])
  BY <1>8, PlacesBehind
<1>10. SentBehind(q, n, new, c, f, answered)
  BY <1>4, <1>6, <1>7, <1>9 DEF SentBehind
<1> QED
  BY <1>0, <1>10

\* A TX ends: the oldest of those on the modem.
LEMMA TxEndsKeeps ==
  ASSUME PerfAssumption, PerfInv, ApartInv, perf.role = "client",
         NEW failed \in BOOLEAN, NEW answered \in BOOLEAN, TxEnds(failed, answered),
         ~perf.use_harq => TimerStays
  PROVE  ApartInv'
<1>0. Remembers /\ Lists /\ Reservations /\ ClientAlone /\ IsList(modem) /\ IsList(queue)
  BY DEF PerfInv, LendInv, Runs, ApartInv, Lists, IsList
<1>1. PICK tx : tx = modem[1]
  OBVIOUS
<1>2. /\ 1 \in DOMAIN modem /\ tx.op = "tx" /\ modem' = RemoveAt(modem, 1) /\ (answered => tx.process # Nobody)
      /\ UNCHANGED <<perf, client, harq, tool, shell, now>>
  BY <1>1 DEF TxEnds, Ends, users
<1>3. PICK m \in 0 .. LastHandle : Told(m)
  BY DEF ApartInv
<1>4. InOrder(m) /\ m \in 1 .. LastHandle /\ m - 1 \in 0 .. LastHandle /\ m - 1 \in Nat
  <2>1. InOrder(m)
    BY <1>3 DEF Told
  <2>2. 1 \in 1 .. m
    BY <1>1, <1>2, <2>1 DEF InOrder, Txs
  <2> QED
    BY <2>1, <2>2 DEF PerfAssumption
<1>5. PICK n \in Nat : /\ DOMAIN modem = 1 .. n /\ DOMAIN modem' = 1 .. n - 1
                       /\ \A i \in 1 .. n - 1 : modem'[i] = modem[i + 1]
  <2>1. modem \in Seq(ToSet(modem)) /\ Len(modem) \in Nat /\ DOMAIN modem = 1 .. Len(modem)
    BY <1>0, LenProperties DEF IsList
  <2>2. /\ modem' \in Seq(ToSet(modem)) /\ Len(modem') = Len(modem) - 1
        /\ \A i \in 1 .. Len(modem) - 1 : modem'[i] = IF i < 1 THEN modem[i] ELSE modem[i + 1]
    <3>1. 1 \in 1 .. Len(modem)
      BY <1>2, <2>1
    <3> QED
      BY <1>2, <2>1, <3>1, RemoveAtProperties
  <2>3. DOMAIN modem' = 1 .. Len(modem) - 1
    BY <2>2, LenProperties
  <2>4. PICK n \in Nat : n = Len(modem)
    BY <2>1
  <2>5. ASSUME NEW i \in 1 .. n - 1 PROVE modem'[i] = modem[i + 1]
    BY <2>2, <2>4
  <2> QED
    BY <2>1, <2>3, <2>4, <2>5
<1>6. Txs(modem') = 1 .. m - 1 /\ 1 .. m - 1 \subseteq DOMAIN modem'
  <2>1. Txs(modem) = 1 .. m /\ 1 .. m \subseteq 1 .. n
    BY <1>4, <1>5 DEF InOrder
  <2>2. ASSUME NEW i \in 1 .. n - 1
        PROVE  modem'[i].op = "tx" <=> i \in 1 .. m - 1
    <3>1. i + 1 \in DOMAIN modem /\ modem'[i] = modem[i + 1]
      BY <1>5
    <3>2. modem[i + 1].op = "tx" <=> i + 1 \in 1 .. m
      BY <2>1, <3>1 DEF Txs
    <3>3. i + 1 \in 1 .. m <=> i \in 1 .. m - 1
      BY <1>4
    <3> QED
      BY <3>1, <3>2, <3>3
  <2>3. \A i \in 1 .. m - 1 : i \in 1 .. n - 1
    BY <1>4, <2>1
  <2> QED
    BY <1>5, <2>2, <2>3 DEF Txs
<1>7. ASSUME NEW i \in 1 .. m - 1
      PROVE  i + 1 \in 1 .. m /\ modem'[i] = modem[i + 1]
  <2>1. i \in 1 .. n - 1
    BY <1>5, <1>6
  <2>2. i + 1 \in 1 .. m
    BY <1>4
  <2> QED
    BY <1>5, <2>1, <2>2
<1>8. InOrder(m - 1)'
  <2>1. ASSUME NEW i \in 1 .. m - 1
        PROVE  modem'[i].handle = Back(Wrapped(client'.handle), m - 1 - i + 1)
    <3>1. modem'[i].handle = Back(Wrapped(client.handle), m - (i + 1) + 1)
      BY <1>4, <1>7 DEF InOrder
    <3>2. m - (i + 1) + 1 = m - 1 - i + 1
      OBVIOUS
    <3> QED
      BY <1>2, <3>1, <3>2
  <2> QED
    BY <1>6, <2>1 DEF InOrder
<1>9. tool
  <2>1. tx \in ToSet(modem)
    BY <1>1, <1>2 DEF ToSet
  <2> QED
    BY <1>0, <1>2, <2>1 DEF ClientAlone
<1>10. PICK l \in Nat : /\ DOMAIN queue = 1 .. l /\ DOMAIN queue' = 1 .. l + (IF answered THEN 2 ELSE 1)
                        /\ \A k \in 1 .. l : queue'[k] = queue[k]
                        /\ queue'[l + 1] = Completed(tx.handle) /\ (answered => queue'[l + 2] = Feedback(tx.process))
  <2>1. queue' = queue \o (<<Completed(tx.handle)>> \o IF answered THEN <<Feedback(tx.process)>> ELSE <<>>)
    BY <1>1, <1>9 DEF TxEnds, Put
  <2>2. PICK c, f : c = Completed(tx.handle) /\ f = Feedback(tx.process)
    OBVIOUS
  <2>3. PICK l \in Nat :
          SentBehind(queue, l, queue \o (<<c>> \o IF answered THEN <<f>> ELSE <<>>), c, f, answered)
    BY <1>0, SentQueued
  <2>4. SentBehind(queue, l, queue', c, f, answered)
    BY <2>1, <2>2, <2>3
  <2> QED
    BY <2>2, <2>4 DEF SentBehind
<1>11. Reserved(m - 1)'
  <2>1. Reserved(m)
    BY <1>3 DEF Told
  <2>2. \A i \in 1 .. m : modem[i].process # Nobody =>
          /\ modem[i].process \in 1 .. Processes /\ harq[modem[i].process] = "used"
          /\ \A j \in 1 .. m : modem[j].process = modem[i].process => j = i
    BY <2>1 DEF Reserved
  <2>3. 1 \in 1 .. m
    BY <1>4
  <2>4. ASSUME tx.process # Nobody, NEW i \in 1 .. m - 1, modem[i + 1].process = tx.process
        PROVE  FALSE
    <3>1. i + 1 \in 1 .. m /\ i + 1 # 1
      BY <1>7
    <3> QED
      BY <1>1, <2>2, <2>3, <2>4, <3>1
  <2>5. ASSUME NEW i \in 1 .. m - 1, modem'[i].process # Nobody
        PROVE  /\ modem'[i].process \in 1 .. Processes /\ harq'[modem'[i].process] = "used"
               /\ \A j \in 1 .. m - 1 : modem'[j].process = modem'[i].process => j = i
    <3>1. i + 1 \in 1 .. m /\ modem'[i] = modem[i + 1]
      BY <1>7
    <3>2. ASSUME NEW j \in 1 .. m - 1, modem'[j].process = modem'[i].process
          PROVE  j = i
      <4>1. j + 1 \in 1 .. m /\ modem'[j] = modem[j + 1]
        BY <1>7
      <4>2. j + 1 = i + 1
        BY <2>2, <2>5, <3>1, <3>2, <4>1
      <4> QED
        BY <4>2
    <3> QED
      BY <1>2, <2>2, <2>5, <3>1, <3>2
  <2>7. \A k \in 1 .. l : queue[k].id = "feedback" =>
          /\ queue[k].process \in 1 .. Processes /\ harq[queue[k].process] = "used"
          /\ \A i \in 1 .. m : modem[i].process # queue[k].process
          /\ \A j \in 1 .. l : queue[j].id = "feedback" /\ queue[j].process = queue[k].process => j = k
    BY <1>10, <2>1 DEF Reserved
  <2>8. \A k \in DOMAIN queue' : queue'[k].id = "feedback" => k \in 1 .. l \/ (answered /\ k = l + 2)
    <3>1. queue'[l + 1].id # "feedback"
      BY <1>10 DEF Completed
    <3>2. \A k \in DOMAIN queue' : k \in 1 .. l \/ k = l + 1 \/ (answered /\ k = l + 2)
      BY <1>10
    <3> QED
      BY <3>1, <3>2
  <2>9. answered => queue'[l + 2].process = tx.process
    BY <1>10 DEF Feedback
  <2>10. answered => tx.process \in 1 .. Processes /\ harq[tx.process] = "used"
    BY <1>1, <1>2, <2>2, <2>3
  <2>11. \A k \in 1 .. l : queue'[k].id = "feedback" => queue'[k].process # tx.process
    BY <1>1, <1>10, <2>3, <2>7
  <2>12. ASSUME NEW k \in DOMAIN queue', queue'[k].id = "feedback"
         PROVE  /\ queue'[k].process \in 1 .. Processes /\ harq'[queue'[k].process] = "used"
                /\ \A i \in 1 .. m - 1 : modem'[i].process # queue'[k].process
                /\ \A j \in DOMAIN queue' :
                     queue'[j].id = "feedback" /\ queue'[j].process = queue'[k].process => j = k
    <3>1. CASE k \in 1 .. l
      <4>1. queue'[k] = queue[k]
        BY <1>10, <3>1
      <4>2. /\ queue[k].process \in 1 .. Processes /\ harq[queue[k].process] = "used"
            /\ \A i \in 1 .. m : modem[i].process # queue[k].process
            /\ \A j \in 1 .. l : queue[j].id = "feedback" /\ queue[j].process = queue[k].process => j = k
        BY <2>7, <2>12, <3>1, <4>1
      <4>3. ASSUME NEW j \in DOMAIN queue', queue'[j].id = "feedback", queue'[j].process = queue'[k].process
            PROVE  j = k
        <5>1. j \in 1 .. l
          BY <2>8, <2>9, <2>11, <2>12, <3>1, <4>3
        <5>2. queue'[j] = queue[j]
          BY <1>10, <5>1
        <5> QED
          BY <4>1, <4>2, <4>3, <5>1, <5>2
      <4> QED
        BY <1>2, <1>7, <4>1, <4>2, <4>3
    <3>2. CASE answered /\ k = l + 2
      <4>1. queue'[k].process = tx.process /\ tx.process # Nobody
        BY <1>2, <2>9, <3>2
      <4>2. ASSUME NEW j \in DOMAIN queue', queue'[j].id = "feedback", queue'[j].process = queue'[k].process
            PROVE  j = k
        BY <2>8, <2>11, <3>2, <4>1, <4>2
      <4>3. \A i \in 1 .. m - 1 : modem'[i].process # queue'[k].process
        BY <1>7, <2>4, <4>1
      <4> QED
        BY <1>2, <2>10, <3>2, <4>1, <4>2, <4>3
    <3> QED
      BY <2>8, <2>12, <3>1, <3>2
  <2> QED
    BY <2>5, <2>12 DEF Reserved
<1>12. Told(m - 1)'
  <2>1. CASE perf.use_harq
    <3>1. \A i \in 1 .. m - 1 : modem'[i].process # Nobody
      BY <1>3, <1>7, <2>1 DEF Told
    <3> QED
      BY <1>2, <1>8, <1>11, <2>1, <3>1 DEF Told
  <2>2. CASE ~perf.use_harq
    <3>1. PICK r \in Nat, a \in 0 .. Most, age \in [DOMAIN queue -> Nat] : Paced(m, r, a, age)
      BY <1>3, <2>2 DEF Told
    <3>2. m \in Nat /\ a \in Nat /\ m <= a /\ Aged(m, a, age)
      BY <1>4, <3>1 DEF Paced
    <3>3. \A k \in DOMAIN queue' : k \in 1 .. l \/ (k = l + 1 /\ queue'[k].id = "tx")
                                   \/ (k > l + 1 /\ queue'[k].id # "tx")
      BY <1>10, SMTT(30) DEF Completed, Feedback
    <3>4. PICK new : new = [k \in DOMAIN queue' |-> IF k = l + 1 THEN m ELSE IF k > l THEN 0 ELSE age[k]]
      OBVIOUS
    <3>5. new \in [DOMAIN queue' -> Nat] /\ new[l + 1] = m /\ \A k \in 1 .. l : new[k] = age[k]
      <4>1. \A k \in DOMAIN queue' : k = l + 1 \/ k > l \/ k \in 1 .. l
        BY <1>10
      <4>2. \A k \in 1 .. l : age[k] \in Nat /\ k # l + 1 /\ ~(k > l) /\ k \in DOMAIN queue'
        BY <1>10
      <4>3. l + 1 \in DOMAIN queue'
        BY <1>10
      <4> QED
        BY <3>2, <3>4, <4>1, <4>2, <4>3
    <3>8. \A k \in 1 .. l : queue[k].id = "tx" =>
            /\ age[k] \in m + 1 .. a
            /\ queue[k].handle = Back(Wrapped(client.handle), age[k])
            /\ \A j \in 1 .. l : queue[j].id = "tx" /\ j > k => age[j] < age[k]
      BY <1>10, <3>2 DEF Aged
    <3>9. tx.handle = Back(Wrapped(client.handle), m)
      <4>1. 1 \in 1 .. m /\ m - 1 + 1 = m
        BY <1>4
      <4> QED
        BY <1>1, <1>4, <4>1 DEF InOrder
    <3>10. ASSUME NEW k \in DOMAIN queue', queue'[k].id = "tx"
           PROVE  /\ new[k] \in m - 1 + 1 .. a
                  /\ queue'[k].handle = Back(Wrapped(client'.handle), new[k])
                  /\ \A j \in DOMAIN queue' : queue'[j].id = "tx" /\ j > k => new[j] < new[k]
      <4>1. CASE k = l + 1
        <5>1. queue'[k].handle = tx.handle /\ new[k] = m
          BY <1>10, <3>5, <4>1 DEF Completed
        <5>2. m \in m - 1 + 1 .. a
          BY <3>2
        <5>3. \A j \in DOMAIN queue' : queue'[j].id = "tx" => ~(j > k)
          BY <3>3, <4>1
        <5> QED
          BY <1>2, <3>9, <5>1, <5>2, <5>3
      <4>2. CASE k \in 1 .. l
        <5>1. queue'[k] = queue[k] /\ new[k] = age[k]
          BY <1>10, <3>5, <4>2
        <5>2. /\ age[k] \in m + 1 .. a
              /\ queue[k].handle = Back(Wrapped(client.handle), age[k])
              /\ \A j \in 1 .. l : queue[j].id = "tx" /\ j > k => age[j] < age[k]
          BY <3>8, <3>10, <4>2, <5>1
        <5>3. ASSUME NEW j \in DOMAIN queue', queue'[j].id = "tx", j > k
              PROVE  new[j] < new[k]
          <6>1. CASE j = l + 1
            <7>1. new[j] = m /\ m < age[k]
              BY <3>2, <3>5, <5>2, <6>1
            <7> QED
              BY <5>1, <7>1
          <6>2. CASE j \in 1 .. l
            <7>1. queue'[j] = queue[j] /\ new[j] = age[j]
              BY <1>10, <3>5, <6>2
            <7> QED
              BY <5>1, <5>2, <5>3, <6>2, <7>1
          <6> QED
            BY <3>3, <5>3, <6>1, <6>2
        <5>4. age[k] \in m - 1 + 1 .. a
          BY <3>2, <5>2
        <5> QED
          BY <1>2, <5>1, <5>2, <5>3, <5>4
      <4> QED
        BY <3>3, <3>10, <4>1, <4>2
    <3>11. Aged(m - 1, a, new)'
      BY <3>10 DEF Aged
    <3>12. m - 1 <= a
      BY <3>2
    <3>13. perf'.on_going => Paces(r, a)'
      BY <1>2, <2>2, <3>1 DEF Paced, Paces, TimerStays
    <3>14. Paced(m - 1, r, a, new)'
      BY <3>11, <3>12, <3>13 DEF Paced
    <3> QED
      BY <1>2, <1>8, <1>11, <2>2, <3>1, <3>5, <3>14 DEF Told, TimerStays
  <2> QED
    BY <2>1, <2>2
<1>13. ClientAlone'
  <2>1. ToSet(modem) = {tx} \cup ToSet(modem')
    BY <1>0, <1>1, <1>2, Removed
  <2>2. \A event \in ToSet(queue') : event \in ToSet(queue) \/ event.id \in {"tx", "feedback"}
    <3>1. \A k \in DOMAIN queue' : k \in 1 .. l \/ k = l + 1 \/ (answered /\ k = l + 2)
      BY <1>10
    <3>2. ASSUME NEW k \in DOMAIN queue'
          PROVE  queue'[k] \in ToSet(queue) \/ queue'[k].id \in {"tx", "feedback"}
      <4>1. CASE k \in 1 .. l
        BY <1>10, <4>1 DEF ToSet
      <4>2. CASE k = l + 1 \/ (answered /\ k = l + 2)
        BY <1>10, <4>2 DEF Completed, Feedback
      <4> QED
        BY <3>1, <4>1, <4>2
    <3> QED
      BY <3>2 DEF ToSet
  <2>3. ClientOnly'
    BY <1>0, <2>1, <2>2 DEF ClientAlone, ClientOnly
  <2>4. perf'.on_going /\ (\E op \in ToSet(modem') : op.op # "tx") => TimeIsOver'
    BY <1>0, <1>2, <2>1 DEF ClientAlone, TimeIsOver
  <2> QED
    BY <1>0, <1>2, <1>9, <2>3, <2>4 DEF ClientAlone
<1>14. Reservations'
  BY <1>0, <1>2 DEF Reservations
<1> QED
  BY <1>2, <1>4, <1>13, <1>14, <1>12 DEF ApartInv

--------------------------------------------------------------------------------
(* The rounds of a client.                                                 *)

\* What follows the head of a list of l.
Follows(t, q, l) ==
  /\ DOMAIN q = 1 .. l /\ DOMAIN t = 1 .. l - 1 /\ Head(q) = q[1]
  /\ \A k \in 1 .. l - 1 : t[k] = q[k + 1]

\* A tail follows its head.
LEMMA TailFollows == ASSUME NEW q, IsList(q), q # <<>> PROVE \E l \in Nat \ {0} : Follows(Tail(q), q, l)
<1>1. q \in Seq(ToSet(q))
  BY DEF IsList
<1>2. PICK l : l = Len(q)
  OBVIOUS
<1>3. l \in Nat \ {0} /\ DOMAIN q = 1 .. l
  BY <1>1, <1>2, EmptySeq, LenProperties
<1>4. /\ Tail(q) \in Seq(ToSet(q)) /\ Len(Tail(q)) = l - 1
      /\ \A k \in 1 .. l - 1 : Tail(q)[k] = q[k + 1]
  BY <1>1, <1>2, HeadTailProperties
<1>5. DOMAIN Tail(q) = 1 .. l - 1 /\ Head(q) = q[1]
  BY <1>1, <1>4, LenProperties
<1> QED
  BY <1>3, <1>4, <1>5 DEF Follows

\* Where the elements of a tail come from.
LEMMA FollowsPlaces ==
  ASSUME NEW q, NEW t, NEW l \in Nat \ {0}, Follows(t, q, l)
  PROVE  /\ 1 \in DOMAIN q /\ q[1] = Head(q)
         /\ \A k \in DOMAIN t : k \in Nat /\ k + 1 \in DOMAIN q /\ k + 1 > 1 /\ t[k] = q[k + 1]
<1>1. DOMAIN q = 1 .. l /\ DOMAIN t = 1 .. l - 1 /\ q[1] = Head(q)
  BY DEF Follows
<1>2. ASSUME NEW k \in DOMAIN t
      PROVE  k \in Nat /\ k + 1 \in DOMAIN q /\ k + 1 > 1 /\ t[k] = q[k + 1]
  <2>1. k \in 1 .. l - 1 /\ t[k] = q[k + 1]
    BY <1>1 DEF Follows
  <2> QED
    BY <1>1, <2>1
<1>3. 1 \in DOMAIN q
  BY <1>1
<1> QED
  BY <1>1, <1>2, <1>3

\* The feedback that is left has processes of its own.
LEMMA FeedbackLeft ==
  ASSUME NEW m \in Nat, Reserved(m), NEW l \in Nat \ {0}, Follows(queue', queue, l)
  PROVE  \A k \in DOMAIN queue' : queue'[k].id = "feedback" =>
           /\ queue'[k].process \in 1 .. Processes /\ harq[queue'[k].process] = "used"
           /\ \A i \in 1 .. m : modem[i].process # queue'[k].process
           /\ \A j \in DOMAIN queue' :
                queue'[j].id = "feedback" /\ queue'[j].process = queue'[k].process => j = k
<1>1. \A k \in DOMAIN queue' : k + 1 \in DOMAIN queue /\ queue'[k] = queue[k + 1] /\ k \in Nat
  BY DEF Follows
<1> SUFFICES ASSUME NEW k \in DOMAIN queue', queue'[k].id = "feedback"
             PROVE  /\ queue'[k].process \in 1 .. Processes /\ harq[queue'[k].process] = "used"
                    /\ \A i \in 1 .. m : modem[i].process # queue'[k].process
                    /\ \A j \in DOMAIN queue' :
                         queue'[j].id = "feedback" /\ queue'[j].process = queue'[k].process => j = k
  OBVIOUS
<1>2. PICK g : g = k + 1
  OBVIOUS
<1>3. g \in DOMAIN queue /\ queue'[k] = queue[g] /\ queue[g].id = "feedback"
  BY <1>1, <1>2
<1>4. /\ queue[g].process \in 1 .. Processes /\ harq[queue[g].process] = "used"
      /\ \A i \in 1 .. m : modem[i].process # queue[g].process
      /\ \A j \in DOMAIN queue : queue[j].id = "feedback" /\ queue[j].process = queue[g].process => j = g
  BY <1>3 DEF Reserved
<1>5. ASSUME NEW j \in DOMAIN queue', queue'[j].id = "feedback", queue'[j].process = queue'[k].process
      PROVE  j = k
  <2>1. j + 1 = g
    BY <1>1, <1>3, <1>4, <1>5
  <2> QED
    BY <1>1, <1>2, <2>1
<1> QED
  BY <1>3, <1>4, <1>5

\* When an event is taken, and no timer is started but in the place of the one that is over,
\* there is one timer at most, and none after that.
LEMMA TimerTaken ==
  ASSUME OneTimer, IsList(queue), queue # <<>>, queue' = Tail(queue),
         timer' => timer \/ Head(queue).id = "timer"
  PROVE  /\ TimerStays
         /\ Head(queue).id = "timer" /\ (timer' => timer) => ~Timed'
<1>1. PICK l \in Nat \ {0} : Follows(queue', queue, l)
  BY TailFollows
<1>2. 1 \in DOMAIN queue /\ queue[1] = Head(queue)
  BY <1>1, FollowsPlaces
<1>3. \A k \in DOMAIN queue' : k \in Nat /\ k + 1 \in DOMAIN queue /\ k + 1 > 1 /\ queue'[k] = queue[k + 1]
  BY <1>1, FollowsPlaces
<1>4. CASE Head(queue).id = "timer"
  <2>1. \A k \in DOMAIN queue' : queue'[k].id # "timer"
    <3> SUFFICES ASSUME NEW k \in DOMAIN queue', queue'[k].id = "timer" PROVE FALSE
      OBVIOUS
    <3>1. k + 1 = 1
      BY <1>2, <1>3, <1>4 DEF OneTimer
    <3> QED
      BY <1>3, <3>1
  <2>2. ~timer
    BY <1>2, <1>4 DEF OneTimer
  <2> QED
    BY <1>2, <1>4, <2>1, <2>2 DEF OneTimer, TimerStays, Timed
<1>5. CASE Head(queue).id # "timer"
  <2>1. \A k, j \in DOMAIN queue' : queue'[k].id = "timer" /\ queue'[j].id = "timer" => k = j
    <3> SUFFICES ASSUME NEW k \in DOMAIN queue', NEW j \in DOMAIN queue',
                        queue'[k].id = "timer", queue'[j].id = "timer"
                 PROVE  k = j
      OBVIOUS
    <3>1. k + 1 = j + 1
      BY <1>3 DEF OneTimer
    <3> QED
      BY <1>3, <3>1
  <2>2. timer' => timer
    BY <1>5
  <2>3. \A k \in DOMAIN queue' : queue'[k].id = "timer" => queue[k + 1].id = "timer" /\ k + 1 \in DOMAIN queue
    BY <1>3
  <2> QED
    BY <1>5, <2>1, <2>2, <2>3 DEF OneTimer, TimerStays, Timed
<1> QED
  BY <1>4, <1>5

\* A step puts no event of the timer into the queue.
NoTimerPut == \A k \in DOMAIN queue' : queue'[k].id = "timer" => k \in DOMAIN queue /\ queue[k].id = "timer"

\* So there is one at most.
LEMMA TimerKept == ASSUME OneTimer, NoTimerPut, timer' => timer PROVE TimerStays
BY DEF OneTimer, NoTimerPut, TimerStays, Timed

\* While there is time for a round, a client has only TXs on its modem.
LEMMA OnlyTxs ==
  ASSUME ClientAlone, perf.on_going, ~TimeIsOver, IsList(modem), NEW m \in Nat, InOrder(m)
  PROVE  DOMAIN modem = 1 .. m /\ Len(modem) = m
<1>1. DOMAIN modem = 1 .. Len(modem) /\ Len(modem) \in Nat
  BY LenProperties DEF IsList
<1>2. \A i \in DOMAIN modem : modem[i].op = "tx"
  BY DEF ClientAlone, ToSet
<1>3. 1 .. Len(modem) = 1 .. m
  BY <1>1, <1>2 DEF InOrder, Txs
<1>4. Len(modem) = m
  <2>1. PICK l \in Nat : l = Len(modem) /\ \A i \in Nat : i \in 1 .. l <=> i \in 1 .. m
    BY <1>1, <1>3
  <2>2. l <= m
    <3>1. l \in 1 .. l <=> l \in 1 .. m
      BY <2>1
    <3> QED
      BY <2>1, <3>1
  <2>3. m <= l
    <3>1. m \in 1 .. l <=> m \in 1 .. m
      BY <2>1
    <3> QED
      BY <2>1, <3>1
  <2> QED
    BY <2>1, <2>2, <2>3
<1> QED
  BY <1>1, <1>3, <1>4

\* The ages of the TXs before a round.
LEMMA AgesReach ==
  ASSUME NEW l \in Nat, NEW m \in Nat, NEW sent \in Nat, m + sent <= l, NEW i \in 1 .. m
  PROVE  m - i + 1 \in 0 .. l - sent /\ m - i + 1 + sent = m + sent - i + 1
OBVIOUS

\* A place behind others.
LEMMA PlaceBehind ==
  ASSUME NEW m \in Nat, NEW sent \in Nat, NEW j \in 1 .. sent
  PROVE  m + j \in 1 .. m + sent /\ ~(m + j <= m) /\ m + j - m = j
OBVIOUS

\* Places behind others.
LEMMA BehindOthers ==
  ASSUME NEW m \in Nat, NEW sent \in Nat, NEW i \in 1 .. m + sent, ~(i <= m)
  PROVE  i - m \in 1 .. sent /\ i = m + (i - m)
OBVIOUS

\* The ages of the TXs of a round.
LEMMA NextAges ==
  ASSUME NEW l \in Nat, NEW m \in Nat, NEW sent \in Nat, m + sent <= l, NEW j \in 1 .. sent
  PROVE  j \in 1 .. l /\ m + sent - (m + j) + 1 = sent - j + 1
OBVIOUS

\* Nothing but TXs, in order.
LEMMA IsInOrder ==
  ASSUME NEW n \in Nat, DOMAIN modem' = 1 .. n, \A i \in 1 .. n : modem'[i].op = "tx",
         \A i \in 1 .. n : modem'[i].handle = Back(Wrapped(client'.handle), n - i + 1)
  PROVE  InOrder(n)'
<1>1. {i \in DOMAIN modem' : modem'[i].op = "tx"} = 1 .. n
  OBVIOUS
<1> QED
  BY <1>1 DEF InOrder, Txs

\* What a round puts on the modem continues the order of the handles.
Appended(m, sent, txs) ==
  /\ DOMAIN modem' = 1 .. m + sent
  /\ \A i \in 1 .. m : modem'[i] = modem[i]
  /\ \A j \in 1 .. sent : modem'[m + j] = txs[j]

\* A round leaves the TXs on the modem in the order of their handles.
LEMMA RoundInOrder ==
  ASSUME PerfAssumption, Remembers, IsList(modem), NEW m \in Nat, InOrder(m), DOMAIN modem = 1 .. m,
         NEW sent \in Nat, m + sent <= LastHandle,
         NEW txs, txs = [j \in 1 .. sent |-> txs[j]],
         \A j \in 1 .. sent : txs[j].op = "tx" /\ txs[j].handle = RoundHandle(j),
         modem' = modem \o txs, Wrapped(client'.handle) = Fold(Wrapped(client.handle) + sent)
  PROVE  Appended(m, sent, txs) /\ InOrder(m + sent)'
<1>1. LastHandle \in Nat /\ sent \in 0 .. LastHandle
  BY DEF PerfAssumption
<1>2. PICK w \in 1 .. LastHandle : /\ w = Wrapped(client.handle)
                                   /\ \A j \in 1 .. LastHandle : RoundHandle(j) = Fold(w + j - 1)
  BY RoundHandles
<1>3. PICK v : v = Fold(w + sent)
  OBVIOUS
<1>4. /\ \A a \in 0 .. LastHandle - sent : Back(v, a + sent) = Back(w, a)
      /\ \A j \in 1 .. sent : Back(v, sent - j + 1) = Fold(w + j - 1)
  <2>1. /\ \A a \in 0 .. LastHandle - sent : Back(Fold(w + sent), a + sent) = Back(w, a)
        /\ \A j \in 1 .. sent : Back(Fold(w + sent), sent - j + 1) = Fold(w + j - 1)
    BY <1>1, BackMoves
  <2> QED
    BY <1>3, <2>1
<1>5. Wrapped(client'.handle) = v
  BY <1>2, <1>3
<1>6. IsList(txs) /\ DOMAIN txs = 1 .. sent
  BY TxsListed
<1>7. Len(modem) = m /\ Len(txs) = sent
  <2>1. DOMAIN modem = 1 .. Len(modem) /\ Len(modem) \in Nat /\ DOMAIN txs = 1 .. Len(txs) /\ Len(txs) \in Nat
    BY <1>6, LenProperties DEF IsList
  <2> QED
    BY <1>6, <2>1
<1>8. /\ DOMAIN modem' = 1 .. m + sent
      /\ \A i \in 1 .. m + sent : modem'[i] = IF i <= m THEN modem[i] ELSE txs[i - m]
  BY <1>6, <1>7, Joined
<1>9. \A i \in 1 .. m : i \in 1 .. m + sent /\ i <= m
  OBVIOUS
<1>10. \A i \in 1 .. m : modem'[i] = modem[i]
  BY <1>8, <1>9
<1>11. ASSUME NEW j \in 1 .. sent PROVE modem'[m + j] = txs[j]
  <2>1. PICK i : i = m + j
    OBVIOUS
  <2>2. i \in 1 .. m + sent /\ ~(i <= m) /\ i - m = j
    BY <2>1, PlaceBehind
  <2> QED
    BY <1>8, <2>1, <2>2
<1>12. \A i \in 1 .. m + sent : i \in 1 .. m \/ \E j \in 1 .. sent : i = m + j
  <2> SUFFICES ASSUME NEW i \in 1 .. m + sent, i \notin 1 .. m
               PROVE  \E j \in 1 .. sent : i = m + j
    OBVIOUS
  <2>1. i - m \in 1 .. sent /\ i = m + (i - m)
    OBVIOUS
  <2> QED
    BY <2>1
<1>13. Appended(m, sent, txs)
  BY <1>8, <1>10, <1>11 DEF Appended
<1>14. ASSUME NEW i \in 1 .. m + sent
       PROVE  modem'[i].op = "tx" /\ modem'[i].handle = Back(v, m + sent - i + 1)
  <2>1. CASE i \in 1 .. m
    <3>1. modem'[i] = modem[i] /\ modem[i].op = "tx" /\ modem[i].handle = Back(w, m - i + 1)
      BY <1>2, <1>10, <2>1 DEF InOrder, Txs
    <3>2. m - i + 1 \in 0 .. LastHandle - sent /\ m - i + 1 + sent = m + sent - i + 1
      BY <1>1, <2>1, AgesReach
    <3> QED
      BY <1>4, <3>1, <3>2
  <2>2. ASSUME NEW j \in 1 .. sent, i = m + j
        PROVE  modem'[i].op = "tx" /\ modem'[i].handle = Back(v, m + sent - i + 1)
    <3>1. modem'[i].op = "tx" /\ modem'[i].handle = RoundHandle(j)
      BY <1>11, <2>2
    <3>2. j \in 1 .. LastHandle /\ m + sent - i + 1 = sent - j + 1
      <4>1. j \in 1 .. LastHandle /\ m + sent - (m + j) + 1 = sent - j + 1
        BY <1>1, NextAges
      <4> QED
        BY <2>2, <4>1
    <3> QED
      BY <1>2, <1>4, <3>1, <3>2
  <2> QED
    BY <1>12, <2>1, <2>2
<1>15. InOrder(m + sent)'
  <2>0. PICK n \in Nat : n = m + sent
    OBVIOUS
  <2>1. \A i \in 1 .. n : modem'[i].op = "tx" /\ modem'[i].handle = Back(v, n - i + 1)
    <3> SUFFICES ASSUME NEW i \in 1 .. n
                 PROVE  modem'[i].op = "tx" /\ modem'[i].handle = Back(v, n - i + 1)
      OBVIOUS
    <3>1. i \in 1 .. m + sent /\ n - i + 1 = m + sent - i + 1
      BY <2>0
    <3>2. modem'[i].op = "tx" /\ modem'[i].handle = Back(v, m + sent - i + 1)
      BY <1>14, <3>1
    <3> QED
      BY <3>1, <3>2
  <2>2. \A i \in 1 .. n : modem'[i].handle = Back(Wrapped(client'.handle), n - i + 1)
    BY <1>5, <2>1
  <2>3. DOMAIN modem' = 1 .. n
    BY <1>8, <2>0
  <2>4. InOrder(n)'
    BY <2>1, <2>2, <2>3, IsInOrder
  <2> QED
    BY <2>0, <2>4
<1> QED
  BY <1>13, <1>15

\* A round is an affair of the client alone.
LEMMA RoundAlone ==
  ASSUME PerfInv, ApartInv, perf.role = "client", perf.on_going, ~TimeIsOver, RoundDone,
         UNCHANGED <<perf, tool, shell, now>>, queue # <<>>, queue' = Tail(queue)
  PROVE  ClientAlone'
<1>1. ClientAlone /\ tool /\ Lists
  BY DEF ApartInv, PerfInv, LendInv, ToolAgrees, Runs
<1>2. \A op \in ToSet(modem') : op \in ToSet(modem) \/ op.op = "tx"
  BY DEF RoundDone
<1>3. ToSet(queue') \subseteq ToSet(queue)
  BY <1>1, Took
<1>4. \A op \in ToSet(modem) : op.op = "tx"
  BY <1>1 DEF ClientAlone
<1> QED
  BY <1>1, <1>2, <1>3, <1>4 DEF ClientAlone, ClientOnly

\* A round without a free process sends nothing.
LEMMA FullRoundCalm ==
  ASSUME PerfInv, ApartInv, perf.role = "client", NEW sent, TxWithHarq(sent), FreeProcesses = <<>>,
         UNCHANGED <<perf, tool, shell, now>>, queue # <<>>, queue' = Tail(queue)
  PROVE  Calm
<1>0. Remembers /\ Lists /\ Reservations /\ ClientAlone /\ now \in Nat
  BY DEF PerfInv, LendInv, Runs, ApartInv, Remembers
<1>1. harq' = Cleaned /\ UNCHANGED <<client, modem>>
  BY DEF TxWithHarq
<1>2. HarqStill /\ EventsStill
  BY <1>0, <1>1, HarqKept, TakenStill
<1> QED
  BY <1>0, <1>1, <1>2 DEF Calm, PerfStill, SameTxs, OpsStill, Txs, ClientAlone

\* The ages of the TXs that are left when the head of the queue is taken and sent
\* handles are given: those of the c last are left.
LEMMA AgesGoOn ==
  ASSUME PerfAssumption, NEW w \in 1 .. LastHandle, w = Wrapped(client.handle),
         NEW m \in Nat, NEW a \in Nat, NEW age \in [DOMAIN queue -> Nat], Aged(m, a, age),
         NEW l \in Nat \ {0}, Follows(queue', queue, l),
         NEW sent \in Nat, Wrapped(client'.handle) = Fold(w + sent),
         NEW c \in Nat, c + sent <= LastHandle,
         \A k \in DOMAIN queue : queue[k].id = "tx" /\ k > 1 => age[k] <= c
  PROVE  \E new \in [DOMAIN queue' -> Nat] : Aged(m + sent, c + sent, new)'
<1>0. PICK v : v = Fold(w + sent)
  OBVIOUS
<1>1. LastHandle \in Nat /\ sent \in 0 .. LastHandle
  BY DEF PerfAssumption
<1>2. \A b \in 0 .. LastHandle - sent : Back(v, b + sent) = Back(w, b)
  BY <1>0, <1>1, BackMoves
<1>3. \A k \in DOMAIN queue' : k \in Nat /\ k + 1 \in DOMAIN queue /\ k + 1 > 1 /\ queue'[k] = queue[k + 1]
  BY FollowsPlaces
<1>4. PICK new : new = [k \in DOMAIN queue' |-> IF queue'[k].id = "tx" THEN age[k + 1] + sent ELSE 0]
  OBVIOUS
<1>5. \A k \in DOMAIN queue' : k + 1 \in DOMAIN queue
  BY <1>3
<1>6. new \in [DOMAIN queue' -> Nat]
  BY <1>4, <1>5
<1>7. ASSUME NEW k \in DOMAIN queue', queue'[k].id = "tx"
      PROVE  /\ new[k] \in m + sent + 1 .. c + sent
             /\ queue'[k].handle = Back(v, new[k])
             /\ \A j \in DOMAIN queue' : queue'[j].id = "tx" /\ j > k => new[j] < new[k]
  <2>1. PICK g : g = k + 1
    OBVIOUS
  <2>2. g \in DOMAIN queue /\ queue'[k] = queue[g] /\ new[k] = age[g] + sent /\ g > 1 /\ k \in Nat
    BY <1>3, <1>4, <1>5, <1>7, <2>1
  <2>3. /\ age[g] \in m + 1 .. a /\ age[g] <= c /\ age[g] \in Nat
        /\ queue[g].handle = Back(w, age[g])
        /\ \A j \in DOMAIN queue : queue[j].id = "tx" /\ j > g => age[j] < age[g]
    BY <1>7, <2>2 DEF Aged
  <2>4. PICK b : b = age[g]
    OBVIOUS
  <2>5. b \in 0 .. LastHandle - sent /\ b + sent \in m + sent + 1 .. c + sent
    BY <1>1, <2>3, <2>4
  <2>6. new[k] \in m + sent + 1 .. c + sent /\ queue'[k].handle = Back(v, new[k])
    BY <1>2, <2>2, <2>3, <2>4, <2>5
  <2>7. ASSUME NEW j \in DOMAIN queue', queue'[j].id = "tx", j > k
        PROVE  new[j] < new[k]
    <3>1. PICK h : h = j + 1
      OBVIOUS
    <3>2. h \in DOMAIN queue /\ queue'[j] = queue[h] /\ new[j] = age[h] + sent /\ j \in Nat
      BY <1>3, <1>4, <1>5, <2>7, <3>1
    <3>3. h > g
      BY <2>1, <2>2, <2>7, <3>1, <3>2
    <3>4. age[h] < age[g] /\ age[h] \in Nat /\ age[g] \in Nat
      BY <2>2, <2>3, <2>7, <3>2, <3>3
    <3> QED
      BY <1>1, <2>2, <3>2, <3>4
  <2> QED
    BY <2>6, <2>7
<1>8. Aged(m + sent, c + sent, new)'
  BY <1>0, <1>7 DEF Aged
<1> QED
  BY <1>6, <1>8

\* The first handle of a round is as old as the round.
LEMMA RoundStarts ==
  ASSUME PerfAssumption, NEW w \in 1 .. LastHandle, NEW sent \in 0 .. LastHandle
  PROVE  Back(Fold(w + sent), sent) = w
<1>1. (sent > 0 => Back(Fold(w + sent), sent) = w) /\ Back(w, 0) = w
  BY BackMoves
<1>2. sent = 0 => Fold(w + sent) = w
  BY DEF PerfAssumption, Fold
<1>3. sent > 0 \/ sent = 0
  BY DEF PerfAssumption
<1> QED
  BY <1>1, <1>2, <1>3

\* The middle handle that drove a client is not that of a TX before the new round.
LEMMA OthersLeft ==
  ASSUME PerfAssumption, NEW w \in 1 .. LastHandle, NEW sent \in Nat, NEW k \in Nat \ {0},
         k < LastHandle, k - 1 + sent < LastHandle, NEW b \in sent + 1 .. k - 1 + sent
  PROVE  Back(Fold(w + sent), b) # Back(w, k)
<1>1. LastHandle \in Nat /\ sent \in 0 .. LastHandle
  BY DEF PerfAssumption
<1>2. PICK c : c = b - sent
  OBVIOUS
<1>3. c \in 1 .. k - 1 /\ c \in 0 .. LastHandle - sent /\ c + sent = b
  BY <1>1, <1>2
<1>4. Back(Fold(w + sent), c + sent) = Back(w, c)
  BY <1>1, <1>3, BackMoves, ZenonT(60)
<1>5. Back(w, c) # Back(w, k)
  <2> SUFFICES ASSUME Back(w, c) = Back(w, k) PROVE FALSE
    OBVIOUS
  <2>1. c \in Nat /\ c < LastHandle
    BY <1>1, <1>3
  <2>2. c = k
    BY <2>1, BackApart
  <2> QED
    BY <1>3, <2>2
<1> QED
  BY <1>3, <1>4, <1>5

\* How the end of the TX k handles ago, the first of the last round or the middle one,
\* paces a client that sends the next.
LEMMA PacesOn ==
  ASSUME PerfAssumption, HandlesReach, Remembers, NEW w \in 1 .. LastHandle, w = Wrapped(client.handle),
         NEW r \in Nat, NEW a \in 0 .. Most, Paces(r, a), NEW k \in 1 .. a,
         Back(w, k) \in {client.starting, client.middle},
         NEW sent \in 0 .. Window, Wrapped(client'.handle) = Fold(w + sent),
         client'.starting = w, client'.middle = client.middle, Timed' => Timed
  PROVE  k - 1 + sent \in 0 .. Most /\ Paces(sent, k - 1 + sent)'
<1>1. /\ Window \in Nat \ {0} /\ Processes \in Nat \ {0} /\ LastHandle \in Nat \ {0}
      /\ Most \in Nat /\ Most < LastHandle /\ Most = 3 * Window + Processes - 2
      /\ sent \in 0 .. LastHandle /\ sent \in Nat /\ sent <= Window /\ a \in Nat /\ k \in Nat \ {0}
      /\ k <= a /\ a <= Most
  BY MostReach
<1>2. PICK v : v = Fold(w + sent)
  OBVIOUS
<1>3. client'.starting = Back(v, sent)
  BY <1>1, <1>2, RoundStarts
<1>4. /\ client.starting = Back(w, r) /\ (r <= Window \/ r <= Processes)
      /\ Timed => client.middle = 0 /\ r <= Window /\ a <= 2 * Window - 1
      /\ \/ a <= 2 * Window + Processes - 1
         \/ r <= Window /\ \A b \in r + 1 .. a : Back(w, b) # client.middle
  BY DEF Paces
<1>5. k > r => Back(w, k) = client.middle
  <2> SUFFICES ASSUME k > r, Back(w, k) = Back(w, r) PROVE FALSE
    BY <1>4
  <2>1. k < LastHandle /\ r < LastHandle
    BY <1>1
  <2>2. k = r
    BY <1>1, <2>1, BackApart
  <2> QED
    BY <2>2
<1>6. Timed => k <= r
  <2>1. Back(w, k) # 0
    BY <1>1 DEF Back
  <2> QED
    BY <1>1, <1>4, <1>5, <2>1
<1>7. CASE k <= r
  <2>1. PICK c : c = k - 1 + sent
    OBVIOUS
  <2>2. /\ c \in 0 .. Most /\ c <= 2 * Window + Processes - 1
        /\ Timed => c <= 2 * Window - 1
    BY <1>1, <1>4, <1>7, <2>1
  <2>3. Paces(sent, c)'
    BY <1>1, <1>2, <1>3, <1>4, <2>2 DEF Paces
  <2> QED
    BY <2>1, <2>2, <2>3
<1>8. CASE k > r
  <2>1. PICK c : c = k - 1 + sent
    OBVIOUS
  <2>2. ~Timed' /\ a <= 2 * Window + Processes - 1
    <3>1. k \in r + 1 .. a
      BY <1>1, <1>8
    <3> QED
      BY <1>1, <1>4, <1>5, <1>6, <1>8, <3>1
  <2>3. c \in 0 .. Most /\ c < LastHandle /\ k < LastHandle
    BY <1>1, <2>1, <2>2
  <2>4. \A b \in sent + 1 .. c : Back(v, b) # client'.middle
    <3> SUFFICES ASSUME NEW b \in sent + 1 .. c PROVE Back(v, b) # client'.middle
      OBVIOUS
    <3>1. Back(v, b) # Back(w, k)
      BY <1>1, <1>2, <2>1, <2>3, OthersLeft
    <3> QED
      BY <1>5, <1>8, <3>1
  <2>5. Paces(sent, c)'
    BY <1>1, <1>2, <1>3, <2>2, <2>4 DEF Paces
  <2> QED
    BY <2>1, <2>3, <2>5
<1> QED
  BY <1>1, <1>7, <1>8

\* A round with HARQ: it takes processes that were free, so that there are no more TXs than
\* processes, and no more than handles. The timer may have one sent in a client without
\* HARQ, between its own rounds, but only once.
LEMMA HarqRoundKeeps ==
  ASSUME PerfAssumption, HandlesReach, PerfInv, ApartInv, perf.role = "client", perf.on_going, ~TimeIsOver,
         NEW sent \in Nat, TxWithHarq(sent), FreeProcesses # <<>>,
         UNCHANGED <<perf, tool, shell, now>>, queue # <<>>, queue' = Tail(queue),
         ~perf.use_harq => Timed /\ ~Timed' /\ OneTimer'
  PROVE  ApartInv'
<1>0. Remembers /\ Lists /\ Reservations /\ ClientAlone /\ IsList(modem) /\ IsList(queue)
      /\ Processes \in Nat /\ LastHandle \in Nat /\ Processes <= LastHandle
  <2>1. Processes \in Nat /\ LastHandle \in Nat /\ Processes <= LastHandle
    BY MostReach
  <2> QED
    BY <2>1 DEF PerfInv, LendInv, Runs, ApartInv, Lists, IsList
<1>1. PICK n \in 0 .. perf.usable :
        /\ FreeProcesses = [i \in 1 .. n |-> FreeProcesses[i]] /\ Len(FreeProcesses) = n
        /\ \A i \in 1 .. n : /\ FreeProcesses[i] \in 1 .. Processes
                             /\ harq[FreeProcesses[i]] # "used"
                             /\ \A j \in 1 .. n : FreeProcesses[i] = FreeProcesses[j] => i = j
  BY <1>0, FreeApart DEF Reservations
<1>2. PICK free : free = FreeProcesses
  OBVIOUS
<1>3. /\ n \in 0 .. Processes /\ n \in Nat
      /\ \A i \in 1 .. n : /\ free[i] \in 1 .. Processes /\ harq[free[i]] # "used"
                           /\ \A j \in 1 .. n : free[i] = free[j] => i = j
  BY <1>0, <1>1, <1>2 DEF Reservations
<1>4. PICK txs : txs = [i \in 1 .. sent |-> Tx(RoundHandle(i), free[i])]
  OBVIOUS
<1>5. /\ sent <= n /\ modem' = modem \o txs
      /\ client' = [client EXCEPT !.starting = Wrapped(client.handle), !.handle = NextHandle(sent, n),
                                   !.middle = (client.handle + NextHandle(sent, n) - 1) \div 2]
      /\ harq' = [p \in DOMAIN harq |->
                    IF \E i \in 1 .. sent + 1 : i <= n /\ free[i] = p THEN "used" ELSE Cleaned[p]]
  <2>1. /\ sent <= Len(FreeProcesses)
        /\ modem' = modem \o [i \in 1 .. sent |-> Tx(RoundHandle(i), FreeProcesses[i])]
        /\ client' = [client EXCEPT !.starting = Wrapped(client.handle),
                         !.handle = NextHandle(sent, Len(FreeProcesses)),
                         !.middle = (client.handle + NextHandle(sent, Len(FreeProcesses)) - 1) \div 2]
        /\ harq' = [p \in DOMAIN harq |->
                      IF \E i \in 1 .. sent + 1 : i <= Len(FreeProcesses) /\ FreeProcesses[i] = p
                      THEN "used" ELSE Cleaned[p]]
    BY DEF TxWithHarq
  <2>2. modem' = modem \o txs
    BY <1>2, <1>4, <2>1
  <2> QED
    BY <1>1, <1>2, <2>1, <2>2
<1>6. PICK m \in 0 .. LastHandle : Told(m)
  BY DEF ApartInv
<1>7. InOrder(m) /\ Reserved(m)
  BY <1>6 DEF Told
<1>8. m \in Nat /\ DOMAIN modem = 1 .. m
  BY <1>0, <1>7, OnlyTxs
<1>9. sent \in 0 .. n /\ n \in 0 .. LastHandle
  BY <1>0, <1>3, <1>5
<1>10. Wrapped(client'.handle) = Fold(Wrapped(client.handle) + sent)
  <2>1. client'.handle = NextHandle(sent, n)
    BY <1>0, <1>5 DEF Remembers
  <2>2. PICK w : w = Wrapped(client.handle)
    OBVIOUS
  <2>3. Wrapped(NextHandle(sent, n)) = Fold(w + sent)
    BY <1>0, <1>9, <2>2, RoundHandles
  <2> QED
    BY <2>1, <2>2, <2>3
<1>11. \A j \in 1 .. sent : j \in 1 .. n /\ txs[j].op = "tx" /\ txs[j].handle = RoundHandle(j) /\ txs[j].process = free[j]
  BY <1>4, <1>9 DEF Tx
<1>12. txs = [j \in 1 .. sent |-> txs[j]]
  BY <1>4
<1>13. harq \in Harqs
  BY <1>0 DEF Reservations, Harqs
<1>14. \A i \in 1 .. m : modem[i].process # Nobody =>
         /\ modem[i].process \in 1 .. Processes /\ harq[modem[i].process] = "used"
         /\ \A j \in 1 .. m : modem[j].process = modem[i].process => j = i
  BY <1>7 DEF Reserved
<1>15. ASSUME perf.use_harq PROVE m + sent <= Processes
  <2>0. /\ \A i \in 1 .. m : modem[i].process \in 1 .. Processes /\ harq[modem[i].process] = "used"
        /\ \A i, j \in 1 .. m : modem[i].process = modem[j].process => i = j
    BY <1>6, <1>14, <1>15 DEF Told
  <2> DEFINE f == [i \in 1 .. m + sent |-> IF i \in 1 .. m THEN modem[i].process ELSE free[i - m]]
  <2>1. \A i \in 1 .. m + sent : i \in 1 .. m \/ i - m \in 1 .. n
    BY <1>8, <1>9
  <2>2. \A i \in 1 .. m + sent : f[i] \in 1 .. Processes
    BY <1>3, <2>0, <2>1
  <2>3. \A i \in 1 .. m + sent : harq[f[i]] = "used" <=> i \in 1 .. m
    BY <1>3, <2>0, <2>1
  <2>4. ASSUME NEW i \in 1 .. m + sent, NEW j \in 1 .. m + sent, f[i] = f[j]
        PROVE  i = j
    <3>1. i \in 1 .. m <=> j \in 1 .. m
      <4> HIDE DEF f
      <4> QED
        BY <2>3, <2>4
    <3>2. CASE i \in 1 .. m
      <4>1. modem[i].process = modem[j].process
        BY <2>4, <3>1, <3>2
      <4> QED
        BY <2>0, <3>1, <3>2, <4>1
    <3>3. CASE i \notin 1 .. m
      <4>1. free[i - m] = free[j - m]
        BY <2>4, <3>1, <3>3
      <4>2. i - m \in 1 .. n /\ j - m \in 1 .. n
        BY <2>1, <3>1, <3>3
      <4>3. i - m = j - m
        BY <1>3, <4>1, <4>2
      <4> QED
        BY <1>8, <4>3
    <3> QED
      BY <3>2, <3>3
  <2>5. f \in [1 .. m + sent -> 1 .. Processes]
    <3>1. f = [i \in 1 .. m + sent |-> f[i]]
      OBVIOUS
    <3> HIDE DEF f
    <3> QED
      BY <2>2, <3>1
  <2> HIDE DEF f
  <2>6. f \in Injection(1 .. m + sent, 1 .. Processes)
    BY <2>4, <2>5 DEF Injection, IsInjective
  <2>7. PICK k \in Nat : k = m + sent
    BY <1>8
  <2>8. /\ IsFiniteSet(1 .. Processes) /\ Cardinality(1 .. Processes) = Processes
        /\ Cardinality(1 .. k) = k
    BY <1>0, NatInterval
  <2>9. Cardinality(1 .. k) <= Cardinality(1 .. Processes)
    BY <2>6, <2>7, <2>8, FS_Injection
  <2> QED
    BY <2>7, <2>8, <2>9
<1>16. ASSUME ~perf.use_harq
       PROVE  /\ \E a \in Nat, age \in [DOMAIN queue -> Nat] : m <= a /\ a <= 2 * Window - 1 /\ Aged(m, a, age)
              /\ \A a \in Nat : a <= 2 * Window - 1 =>
                   /\ a + sent <= LastHandle /\ a + sent \in 0 .. Most
                   /\ a + sent <= 2 * Window + Processes - 1
              /\ sent <= Processes
  <2>1. PICK r \in Nat, a \in 0 .. Most, age \in [DOMAIN queue -> Nat] : Paced(m, r, a, age)
    BY <1>6, <1>16 DEF Told
  <2>2. a \in Nat /\ m <= a /\ a <= 2 * Window - 1 /\ Aged(m, a, age)
    BY <1>16, <2>1, MostReach DEF Paced, Paces
  <2>3. sent <= Processes
    BY <1>0, <1>3, <1>5
  <2>4. ASSUME NEW b \in Nat, b <= 2 * Window - 1
        PROVE  b + sent <= LastHandle /\ b + sent \in 0 .. Most /\ b + sent <= 2 * Window + Processes - 1
    <3>1. /\ Window \in Nat /\ Window >= 1 /\ Processes \in Nat /\ LastHandle \in Nat
          /\ Most \in Nat /\ Most < LastHandle /\ Most = 3 * Window + Processes - 2
      BY MostReach, SMTT(30)
    <3>2. PICK most : most = Most
      OBVIOUS
    <3>3. b + sent <= 2 * Window + Processes - 1 /\ b + sent \in Nat
      BY <2>3, <2>4, <3>1
    <3>4. 2 * Window + Processes - 1 <= most /\ most < LastHandle /\ most \in Nat
      BY <3>1, <3>2
    <3>5. b + sent <= LastHandle /\ b + sent \in 0 .. most
      BY <3>1, <3>3, <3>4
    <3> QED
      BY <3>2, <3>3, <3>5
  <2> QED
    BY <2>2, <2>3, <2>4
<1>17. m + sent <= LastHandle /\ m + sent \in 0 .. LastHandle
  <2>1. m + sent <= LastHandle
    <3>1. CASE perf.use_harq
      BY <1>0, <1>8, <1>15, <3>1
    <3>2. CASE ~perf.use_harq
      BY <1>0, <1>8, <1>16, <3>2
    <3> QED
      BY <3>1, <3>2
  <2> QED
    BY <1>0, <1>8, <2>1
<1>18. Appended(m, sent, txs) /\ InOrder(m + sent)'
  BY <1>0, <1>5, <1>7, <1>8, <1>10, <1>11, <1>12, <1>17, RoundInOrder
<1>19. /\ \A i \in 1 .. m : modem'[i] = modem[i]
       /\ \A j \in 1 .. sent : modem'[m + j].process = free[j]
       /\ \A i \in 1 .. m + sent : i \in 1 .. m \/ \E j \in 1 .. sent : i = m + j
  <2>1. \A i \in 1 .. m + sent : i \in 1 .. m \/ (i - m \in 1 .. sent /\ i = m + (i - m))
    BY <1>8
  <2>2. \A i \in 1 .. m + sent : i \in 1 .. m \/ \E j \in 1 .. sent : i = m + j
    BY <2>1
  <2> QED
    BY <1>11, <1>18, <2>2 DEF Appended
<1>20. harq' \in Harqs /\ \A p \in 1 .. Processes : harq[p] = "used" => harq'[p] = "used"
  <2>1. DOMAIN harq = 1 .. Processes
    BY <1>13 DEF Harqs
  <2>2. Cleaned \in Harqs /\ \A p \in 1 .. Processes : harq[p] = "used" => Cleaned[p] = "used"
    BY <1>13, <2>1 DEF Cleaned, Harqs
  <2> QED
    BY <1>5, <2>1, <2>2 DEF Harqs
<1>21. \A j \in 1 .. sent : free[j] \in 1 .. Processes /\ harq[free[j]] # "used" /\ harq'[free[j]] = "used"
  <2>1. ASSUME NEW j \in 1 .. sent PROVE harq'[free[j]] = "used"
    <3>1. j \in 1 .. sent + 1 /\ j <= n /\ free[j] \in DOMAIN harq
      <4>1. j \in 1 .. n /\ free[j] \in 1 .. Processes
        BY <1>3, <1>11
      <4> QED
        BY <1>3, <1>13, <4>1 DEF Harqs
    <3>2. PICK q \in DOMAIN harq : q = free[j] /\ \E i \in 1 .. sent + 1 : i <= n /\ free[i] = q
      BY <3>1
    <3>3. harq'[q] = "used"
      BY <1>5, <3>2
    <3> QED
      BY <3>2, <3>3
  <2> QED
    BY <1>3, <1>11, <2>1
<1>22. Reserved(m + sent)'
  <2>1. ASSUME NEW i \in 1 .. m + sent, modem'[i].process # Nobody
        PROVE  modem'[i].process \in 1 .. Processes /\ harq'[modem'[i].process] = "used"
    <3>1. CASE i \in 1 .. m
      <4>1. modem'[i] = modem[i]
        BY <1>19, <3>1
      <4>2. modem[i].process \in 1 .. Processes /\ harq[modem[i].process] = "used"
        BY <1>14, <2>1, <3>1, <4>1
      <4>3. harq'[modem[i].process] = "used"
        BY <1>20, <4>2
      <4> QED
        BY <4>1, <4>2, <4>3
    <3>2. ASSUME NEW j \in 1 .. sent, i = m + j
          PROVE  modem'[i].process \in 1 .. Processes /\ harq'[modem'[i].process] = "used"
      <4>1. modem'[m + j].process = free[j]
        BY <1>19
      <4>2. free[j] \in 1 .. Processes /\ harq'[free[j]] = "used"
        BY <1>21
      <4> QED
        BY <3>2, <4>1, <4>2
    <3> QED
      BY <1>19, <3>1, <3>2
  <2>2. ASSUME NEW i \in 1 .. m + sent, NEW k \in 1 .. m + sent, modem'[i].process # Nobody,
               modem'[k].process = modem'[i].process
        PROVE  k = i
    <3>1. CASE i \in 1 .. m /\ k \in 1 .. m
      <4>1. modem'[i] = modem[i] /\ modem'[k] = modem[k]
        BY <1>19, <3>1
      <4> QED
        BY <1>14, <2>2, <3>1, <4>1
    <3>2. \A a \in 1 .. m : \A b \in 1 .. sent : modem'[a].process # modem'[m + b].process
      <4> SUFFICES ASSUME NEW a \in 1 .. m, NEW b \in 1 .. sent
                   PROVE  modem'[a].process # modem'[m + b].process
        OBVIOUS
      <4>1. modem'[a] = modem[a] /\ (modem[a].process # Nobody => harq[modem[a].process] = "used")
        BY <1>14, <1>19
      <4>2. modem'[m + b].process = free[b] /\ harq[free[b]] # "used" /\ free[b] \in 1 .. Processes
        BY <1>19, <1>21
      <4>3. free[b] # Nobody
        BY <1>0, <4>2 DEF Nobody
      <4> QED
        BY <4>1, <4>2, <4>3
    <3>3. ASSUME NEW a \in 1 .. sent, NEW b \in 1 .. sent, i = m + a, k = m + b
          PROVE  k = i
      <4>1. free[a] = free[b] /\ a \in 1 .. n /\ b \in 1 .. n
        BY <1>11, <1>19, <2>2, <3>3
      <4>2. a = b
        BY <1>3, <4>1
      <4> QED
        BY <3>3, <4>2
    <3>4. CASE i \in 1 .. m /\ k \notin 1 .. m
      <4>1. PICK b \in 1 .. sent : k = m + b
        BY <1>19, <3>4
      <4> QED
        BY <2>2, <3>2, <3>4, <4>1
    <3>5. CASE i \notin 1 .. m /\ k \in 1 .. m
      <4>1. PICK b \in 1 .. sent : i = m + b
        BY <1>19, <3>5
      <4> QED
        BY <2>2, <3>2, <3>5, <4>1
    <3>6. CASE i \notin 1 .. m /\ k \notin 1 .. m
      BY <1>19, <3>3, <3>6
    <3> QED
      BY <3>1, <3>4, <3>5, <3>6
  <2>3. PICK l \in Nat \ {0} : Follows(queue', queue, l)
    BY <1>0, TailFollows
  <2>4. \A k \in DOMAIN queue' : queue'[k].id = "feedback" =>
          /\ queue'[k].process \in 1 .. Processes /\ harq[queue'[k].process] = "used"
          /\ \A i \in 1 .. m : modem[i].process # queue'[k].process
          /\ \A j \in DOMAIN queue' :
               queue'[j].id = "feedback" /\ queue'[j].process = queue'[k].process => j = k
    BY <1>7, <1>8, <2>3, FeedbackLeft
  <2>5. ASSUME NEW k \in DOMAIN queue', queue'[k].id = "feedback"
        PROVE  \A i \in 1 .. m + sent : modem'[i].process # queue'[k].process
    <3> SUFFICES ASSUME NEW i \in 1 .. m + sent PROVE modem'[i].process # queue'[k].process
      OBVIOUS
    <3>1. CASE i \in 1 .. m
      <4>1. modem'[i] = modem[i]
        BY <1>19, <3>1
      <4>2. modem[i].process # queue'[k].process
        BY <2>4, <2>5, <3>1
      <4> QED
        BY <4>1, <4>2
    <3>2. ASSUME NEW j \in 1 .. sent, i = m + j PROVE modem'[i].process # queue'[k].process
      <4>1. modem'[i].process = free[j] /\ harq[free[j]] # "used"
        BY <1>19, <1>21, <3>2
      <4>2. harq[queue'[k].process] = "used"
        BY <2>4, <2>5
      <4> QED
        BY <4>1, <4>2
    <3> QED
      BY <1>19, <3>1, <3>2
  <2> QED
    BY <1>20, <2>1, <2>2, <2>4, <2>5 DEF Reserved
<1>23. ClientAlone'
  BY <1>0, HarqRound, RoundAlone
<1>24. Reservations'
  BY <1>0, <1>20 DEF Reservations, Harqs
<1>25. Told(m + sent)'
  <2>1. CASE perf.use_harq
    <3>1. ASSUME NEW i \in 1 .. m + sent PROVE modem'[i].process # Nobody
      <4>1. CASE i \in 1 .. m
        BY <1>6, <1>19, <2>1, <4>1 DEF Told
      <4>2. ASSUME NEW j \in 1 .. sent, i = m + j PROVE modem'[i].process # Nobody
        <5>1. modem'[i].process = free[j] /\ free[j] \in 1 .. Processes
          BY <1>19, <1>21, <4>2
        <5> QED
          BY <1>0, <5>1 DEF Nobody
      <4> QED
        BY <1>19, <4>1, <4>2
    <3> QED
      BY <1>18, <1>22, <2>1, <3>1 DEF Told
  <2>2. CASE ~perf.use_harq
    <3>1. PICK a \in Nat, age \in [DOMAIN queue -> Nat] :
            /\ m <= a /\ a <= 2 * Window - 1 /\ Aged(m, a, age)
            /\ a + sent <= LastHandle /\ a + sent \in 0 .. Most /\ a + sent <= 2 * Window + Processes - 1
      BY <1>16, <2>2
    <3>2. PICK l \in Nat \ {0} : Follows(queue', queue, l)
      BY <1>0, TailFollows
    <3>3. PICK w \in 1 .. LastHandle : w = Wrapped(client.handle) /\ Wrapped(client'.handle) = Fold(w + sent)
      BY <1>0, <1>10, RoundHandles
    <3>4. \A k \in DOMAIN queue : queue[k].id = "tx" /\ k > 1 => age[k] <= a
      BY <1>8, <3>1, SMTT(30) DEF Aged
    <3>5. PICK new \in [DOMAIN queue' -> Nat] : Aged(m + sent, a + sent, new)'
      BY <1>8, <3>1, <3>2, <3>3, <3>4, AgesGoOn
    <3>6. client'.starting = Back(Wrapped(client'.handle), sent)
      <4>1. Back(Fold(w + sent), sent) = w
        BY <1>9, RoundStarts
      <4>2. client'.starting = w
        BY <1>0, <1>5, <3>3 DEF Remembers
      <4> QED
        BY <3>3, <4>1, <4>2
    <3>7. Paces(sent, a + sent)'
      BY <1>16, <2>2, <3>1, <3>6 DEF Paces
    <3>8. Paced(m + sent, sent, a + sent, new)'
      BY <1>8, <3>1, <3>5, <3>7 DEF Paced
    <3> QED
      BY <1>18, <1>22, <2>2, <3>1, <3>8 DEF Told
  <2> QED
    BY <2>1, <2>2
<1> QED
  BY <1>17, <1>23, <1>24, <1>25 DEF ApartInv

\* A round without HARQ: its handles are new to all that is outstanding, since that is not
\* older than the TX that drove the client.
LEMMA PlainRoundKeeps ==
  ASSUME PerfAssumption, HandlesReach, PerfInv, ApartInv, perf.role = "client", perf.on_going, ~TimeIsOver,
         ~perf.use_harq, NEW sent \in Nat, TxNoHarq(sent), UNCHANGED <<perf, tool, shell, now>>,
         queue # <<>>, Head(queue).id = "tx", Drives(Head(queue).handle), queue' = Tail(queue), TimerStays
  PROVE  ApartInv'
<1>0. Remembers /\ Lists /\ Reservations /\ ClientAlone /\ IsList(modem) /\ IsList(queue)
  BY DEF PerfInv, LendInv, Runs, ApartInv, Lists, IsList
<1>1. /\ LastHandle \in Nat /\ Window \in Nat \ {0} /\ Window \in 0 .. LastHandle
      /\ Most \in Nat /\ Most < LastHandle
  BY MostReach
<1>2. PICK w \in 1 .. LastHandle :
        /\ w = Wrapped(client.handle)
        /\ \A window \in 0 .. LastHandle : \A n \in 0 .. window :
             Wrapped(NextHandle(n, window)) = Fold(w + n)
  BY <1>0, RoundHandles
<1>3. PICK m \in 0 .. LastHandle : Told(m)
  BY DEF ApartInv
<1>4. PICK r \in Nat, a \in 0 .. Most, age \in [DOMAIN queue -> Nat] : Paced(m, r, a, age)
  BY <1>3 DEF Told
<1>5. /\ m \in Nat /\ InOrder(m) /\ Reserved(m) /\ a \in Nat /\ a <= Most
      /\ m <= a /\ Aged(m, a, age) /\ Paces(r, a)
  BY <1>1, <1>3, <1>4 DEF Told, Paced
<1>6. DOMAIN modem = 1 .. m
  BY <1>0, <1>5, OnlyTxs
<1>7. PICK l \in Nat \ {0} : Follows(queue', queue, l)
  BY <1>0, TailFollows
<1>8. 1 \in DOMAIN queue /\ queue[1] = Head(queue)
  BY <1>7, FollowsPlaces
<1>9. PICK k : k = age[1]
  OBVIOUS
<1>10. /\ k \in m + 1 .. a /\ queue[1].handle = Back(w, k)
       /\ \A j \in DOMAIN queue : queue[j].id = "tx" /\ j > 1 => age[j] < k
  BY <1>2, <1>5, <1>8, <1>9 DEF Aged
<1>11. k \in 1 .. a /\ k - 1 \in Nat /\ m <= k - 1
  BY <1>5, <1>10, SMTT(30)
<1>12. PICK txs : txs = [i \in 1 .. sent |-> Tx(RoundHandle(i), Nobody)]
  OBVIOUS
<1>13. /\ sent <= Window /\ modem' = modem \o txs /\ harq' = harq
       /\ client' = [client EXCEPT !.starting = Wrapped(client.handle), !.handle = NextHandle(sent, Window)]
  BY <1>12 DEF TxNoHarq
<1>14. sent \in 0 .. Window
  BY <1>1, <1>13
<1>15. /\ client'.starting = w /\ client'.middle = client.middle
       /\ Wrapped(client'.handle) = Fold(w + sent)
  <2>1. client'.starting = w /\ client'.handle = NextHandle(sent, Window) /\ client'.middle = client.middle
    BY <1>0, <1>2, <1>13 DEF Remembers
  <2>2. Wrapped(NextHandle(sent, Window)) = Fold(w + sent)
    BY <1>1, <1>2, <1>14
  <2> QED
    BY <2>1, <2>2
<1>16. k - 1 + sent \in 0 .. Most /\ Paces(sent, k - 1 + sent)'
  <2>1. Back(w, k) \in {client.starting, client.middle}
    BY <1>8, <1>10 DEF Drives
  <2> QED
    BY <1>0, <1>2, <1>5, <1>11, <1>14, <1>15, <2>1, PacesOn DEF TimerStays
<1>17. PICK c \in Nat : c = k - 1
  BY <1>11
<1>18. /\ c + sent \in 0 .. Most /\ c + sent <= LastHandle /\ m + sent <= c + sent
       /\ m + sent <= LastHandle /\ m + sent \in 0 .. LastHandle
  BY <1>1, <1>5, <1>11, <1>16, <1>17
<1>19. PICK new \in [DOMAIN queue' -> Nat] : Aged(m + sent, c + sent, new)'
  <2>1. \A j \in DOMAIN queue : queue[j].id = "tx" /\ j > 1 => age[j] <= c
    BY <1>4, <1>5, <1>10, <1>17, SMTT(30)
  <2> QED
    BY <1>2, <1>5, <1>7, <1>15, <1>18, <2>1, AgesGoOn
<1>20. Paced(m + sent, sent, c + sent, new)'
  <2>1. Paces(sent, c + sent)'
    BY <1>16, <1>17
  <2> QED
    BY <1>18, <1>19, <2>1 DEF Paced
<1>21. /\ \A j \in 1 .. sent : txs[j].op = "tx" /\ txs[j].handle = RoundHandle(j) /\ txs[j].process = Nobody
       /\ txs = [j \in 1 .. sent |-> txs[j]]
  BY <1>12 DEF Tx
<1>22. Appended(m, sent, txs) /\ InOrder(m + sent)'
  <2>1. Wrapped(client'.handle) = Fold(Wrapped(client.handle) + sent)
    BY <1>2, <1>15
  <2> QED
    BY <1>0, <1>5, <1>6, <1>13, <1>18, <1>21, <2>1, RoundInOrder
<1>23. \A i \in 1 .. m + sent : (i \in 1 .. m /\ modem'[i] = modem[i]) \/ modem'[i].process = Nobody
  <2> SUFFICES ASSUME NEW i \in 1 .. m + sent
               PROVE  (i \in 1 .. m /\ modem'[i] = modem[i]) \/ modem'[i].process = Nobody
    OBVIOUS
  <2>1. CASE i <= m
    <3>1. i \in 1 .. m
      BY <1>5, <2>1
    <3> QED
      BY <1>22, <3>1 DEF Appended
  <2>2. CASE ~(i <= m)
    <3>1. i - m \in 1 .. sent /\ i = m + (i - m)
      BY <1>5, <2>2, BehindOthers
    <3>2. PICK j \in 1 .. sent : i = m + j
      BY <3>1
    <3>3. modem'[m + j] = txs[j]
      BY <1>22, <3>2 DEF Appended
    <3> QED
      BY <1>21, <3>2, <3>3
  <2> QED
    BY <2>1, <2>2
<1>24. Reserved(m + sent)'
  <2>1. ASSUME NEW i \in 1 .. m + sent, modem'[i].process # Nobody
        PROVE  /\ modem'[i].process \in 1 .. Processes /\ harq'[modem'[i].process] = "used"
               /\ \A j \in 1 .. m + sent : modem'[j].process = modem'[i].process => j = i
    <3>1. i \in 1 .. m /\ modem'[i] = modem[i]
      BY <1>23, <2>1
    <3>2. /\ modem[i].process \in 1 .. Processes /\ harq[modem[i].process] = "used"
          /\ \A j \in 1 .. m : modem[j].process = modem[i].process => j = i
      BY <1>5, <2>1, <3>1 DEF Reserved
    <3>3. ASSUME NEW j \in 1 .. m + sent, modem'[j].process = modem'[i].process PROVE j = i
      <4>1. j \in 1 .. m /\ modem'[j] = modem[j]
        BY <1>23, <2>1, <3>3
      <4> QED
        BY <3>1, <3>2, <3>3, <4>1
    <3> QED
      BY <1>13, <3>1, <3>2, <3>3
  <2>2. \A e \in DOMAIN queue' : queue'[e].id = "feedback" =>
          /\ queue'[e].process \in 1 .. Processes /\ harq[queue'[e].process] = "used"
          /\ \A i \in 1 .. m : modem[i].process # queue'[e].process
          /\ \A j \in DOMAIN queue' :
               queue'[j].id = "feedback" /\ queue'[j].process = queue'[e].process => j = e
    BY <1>5, <1>7, FeedbackLeft
  <2>3. ASSUME NEW e \in DOMAIN queue', queue'[e].id = "feedback", NEW i \in 1 .. m + sent
        PROVE  modem'[i].process # queue'[e].process
    <3>1. queue'[e].process \in 1 .. Processes /\ \A j \in 1 .. m : modem[j].process # queue'[e].process
      BY <2>2, <2>3
    <3>2. queue'[e].process # Nobody
      <4>1. PICK q : q = queue'[e].process
        OBVIOUS
      <4>2. q \in 1 .. Processes
        BY <3>1, <4>1
      <4>3. Processes \in Nat
        BY MostReach
      <4>4. q # Nobody
        BY <4>2, <4>3 DEF Nobody
      <4> QED
        BY <4>1, <4>4
    <3>3. CASE i \in 1 .. m /\ modem'[i] = modem[i]
      BY <3>1, <3>3
    <3>4. CASE modem'[i].process = Nobody
      BY <3>2, <3>4
    <3> QED
      BY <1>23, <3>3, <3>4
  <2> QED
    BY <1>13, <2>1, <2>2, <2>3 DEF Reserved
<1>25. ClientAlone'
  <2>1. RoundDone
    BY <1>0, PlainRound
  <2> QED
    BY <2>1, RoundAlone
<1>26. Reservations'
  BY <1>0, <1>13 DEF Reservations
<1>27. Told(m + sent)'
  BY <1>18, <1>20, <1>22, <1>24 DEF Told, TimerStays
<1> QED
  BY <1>18, <1>25, <1>26, <1>27 DEF ApartInv

--------------------------------------------------------------------------------
(* Starts.                                                                 *)

\* The rounds that follow the end of a TX and the timer.
LEMMA RoundsKeep ==
  ASSUME PerfAssumption, HandlesReach, PerfInv, ApartInv, perf.role = "client", NEW sent \in Rounds,
         \/ \E taken \in 0 .. 2 : TakeTx(sent, taken) /\ ~TimeIsOver /\ Drives(Head(queue).handle)
         \/ TakeTimer(sent),
         IsList(modem'), IsList(queue'), ~perf.use_harq => TimerStays
  PROVE  ApartInv'
<1>0. Remembers /\ Reservations /\ ClientAlone /\ sent \in Nat
  BY DEF PerfInv, LendInv, ApartInv, Rounds, PerfAssumption
<1>1. /\ perf.on_going /\ queue # <<>> /\ queue' = Tail(queue) /\ UNCHANGED <<perf, tool, shell, now>>
      /\ \/ (perf.use_harq \/ TakeTimer(sent)) /\ TxWithHarq(sent)
         \/ Head(queue).id = "tx" /\ Drives(Head(queue).handle) /\ ~perf.use_harq /\ TxNoHarq(sent)
  BY DEF TakeTx, TakeTimer, Handles, Takes, ClientTx, users
<1>2. ~TimeIsOver
  <2>1. CASE TakeTimer(sent)
    <3>1. SecsLeft # 0 /\ perf.duration \in Int /\ perf.duration >= 0 /\ perf.started \in Nat /\ now \in Nat
      BY <1>0, <2>1 DEF TakeTimer, Remembers, ClientAlone
    <3>2. perf.duration > now - perf.started
      BY <3>1 DEF SecsLeft, Infinite
    <3> QED
      BY <3>1, <3>2 DEF TimeIsOver
  <2> QED
    BY <2>1
<1>3. CASE TxWithHarq(sent) /\ FreeProcesses = <<>>
  <2>1. Calm
    BY <1>1, <1>3, FullRoundCalm
  <2> QED
    BY <2>1, CalmKeeps
<1>4. CASE (perf.use_harq \/ TakeTimer(sent)) /\ TxWithHarq(sent) /\ FreeProcesses # <<>>
  <2>1. ASSUME ~perf.use_harq PROVE Timed /\ ~Timed' /\ OneTimer'
    <3>1. PICK m \in 0 .. LastHandle : Told(m)
      BY DEF ApartInv
    <3>2. OneTimer /\ IsList(queue)
      BY <2>1, <3>1 DEF Told, PerfInv, Runs, Lists, IsList
    <3>3. TimerStays
      BY <2>1
    <3>4. Head(queue).id = "timer" /\ timer' = timer
      BY <1>4, <2>1 DEF TakeTimer, Handles, Takes, TxWithHarq
    <3>5. ~Timed'
      BY <1>1, <3>2, <3>4, TimerTaken
    <3>6. 1 \in DOMAIN queue /\ queue[1] = Head(queue)
      BY <1>1, <3>2, TailFollows, FollowsPlaces
    <3> QED
      BY <3>3, <3>4, <3>5, <3>6 DEF TimerStays, Timed
  <2> QED
    BY <1>0, <1>1, <1>2, <1>4, <2>1, HarqRoundKeeps
<1>5. CASE ~((perf.use_harq \/ TakeTimer(sent)) /\ TxWithHarq(sent))
  <2>1. Head(queue).id = "tx" /\ Drives(Head(queue).handle) /\ ~perf.use_harq /\ TxNoHarq(sent)
    BY <1>1, <1>5
  <2> QED
    BY <1>0, <1>1, <1>2, <2>1, PlainRoundKeeps
<1> QED
  BY <1>1, <1>3, <1>4, <1>5

\* A client that starts has the handles from 1 on, and the processes, too.
LEMMA StartClientKeeps ==
  ASSUME PerfAssumption, HandlesReach, PerfInv, NEW useHarq \in BOOLEAN, NEW usable \in 0 .. Processes,
         NEW duration \in Durations, NEW sent \in Rounds,
         StartClient(useHarq, usable, duration, sent)
  PROVE  ApartInv'
<1> DEFINE window == IF useHarq THEN usable ELSE Window
<1>1. PICK txs : txs = [i \in 1 .. sent |-> Tx(i, IF useHarq THEN i ELSE Nobody)]
  OBVIOUS
<1>2. /\ queue = <<>> /\ queue' = <<>> /\ modem' = txs /\ shell' = "idle" /\ tool' /\ sent <= window
      /\ perf' = [on_going |-> TRUE, role |-> "client", use_harq |-> useHarq, usable |-> usable,
                  started |-> now, duration |-> duration]
      /\ client' = [NoClient EXCEPT !.handle = sent + 1,
                      !.starting = IF window = 0 THEN 0 ELSE 1,
                      !.middle = IF useHarq /\ window # 0 THEN (sent + 1) \div 2 ELSE 0]
      /\ harq' = [p \in DOMAIN AllFree |->
                    IF useHarq /\ p <= usable /\ p <= sent + 1 THEN "used" ELSE "free"]
      /\ now' = now
  BY <1>1 DEF StartClient, Start, Shell
<1>3. /\ sent \in Nat /\ window \in Nat /\ now \in Nat /\ duration \in Nat
      /\ LastHandle \in Nat \ {0} /\ Window \in Nat \ {0} /\ Processes \in Nat \ {0}
  BY DEF Rounds, PerfAssumption, PerfInv, LendInv, Remembers, Durations
<1>4. sent \in 0 .. LastHandle /\ window <= LastHandle
  BY <1>2, <1>3, MostReach, SMTT(30)
<1>5. /\ DOMAIN txs = 1 .. sent
      /\ \A i \in 1 .. sent : txs[i].op = "tx" /\ txs[i].handle = i
                              /\ txs[i].process = IF useHarq THEN i ELSE Nobody
  BY <1>1 DEF Tx
<1>6. /\ perf'.on_going /\ perf'.role = "client" /\ perf'.use_harq = useHarq /\ perf'.usable = usable
      /\ perf'.started = now /\ perf'.duration = duration
  BY <1>2
<1>7. /\ client'.handle = sent + 1 /\ client'.starting = IF window = 0 THEN 0 ELSE 1
      /\ ~useHarq => client'.middle = 0
  BY <1>2 DEF NoClient
<1>8. PICK v : v = Fold(1 + sent)
  OBVIOUS
<1>9. /\ \A j \in 1 .. sent : Back(v, sent - j + 1) = Fold(1 + j - 1)
      /\ sent > 0 => Back(v, sent) = 1
      /\ Back(1, 0) = 1
  <2>1. 1 \in 1 .. LastHandle
    BY <1>3
  <2>2. /\ \A j \in 1 .. sent : Back(Fold(1 + sent), sent - j + 1) = Fold(1 + j - 1)
        /\ sent > 0 => Back(Fold(1 + sent), sent) = 1
        /\ Back(1, 0) = 1
    BY <1>4, <2>1, BackMoves
  <2> QED
    BY <1>8, <2>2
<1>10. Wrapped(client'.handle) = v
  BY <1>3, <1>4, <1>7, <1>8 DEF Wrapped, Fold
<1>11. \A i \in 1 .. sent : modem'[i].handle = Back(Wrapped(client'.handle), sent - i + 1)
  <2> SUFFICES ASSUME NEW i \in 1 .. sent
               PROVE  modem'[i].handle = Back(Wrapped(client'.handle), sent - i + 1)
    OBVIOUS
  <2>1. modem'[i].handle = i
    BY <1>2, <1>5
  <2>2. Fold(1 + i - 1) = i
    BY <1>3, <1>4 DEF Fold
  <2> QED
    BY <1>9, <1>10, <2>1, <2>2
<1>12. InOrder(sent)'
  BY <1>2, <1>3, <1>5, <1>11, IsInOrder
<1>13. harq' \in Harqs /\ \A p \in 1 .. Processes :
         useHarq /\ p <= usable /\ p <= sent + 1 => harq'[p] = "used"
  BY <1>2 DEF AllFree, Harqs
<1>14. Reservations'
  BY <1>2, <1>3, <1>6, <1>13 DEF Reservations, Harqs
<1>15. DOMAIN queue' = {} /\ ToSet(queue') = {}
  BY <1>2, HoldsEmpty
<1>16. ClientAlone'
  <2>1. \A op \in ToSet(modem') : op.op = "tx"
    BY <1>2, <1>5 DEF ToSet
  <2> QED
    BY <1>2, <1>3, <1>6, <1>15, <2>1 DEF ClientAlone, ClientOnly
<1>17. CASE useHarq
  <2>1. \A i \in 1 .. sent : modem'[i].process = i
    BY <1>2, <1>5, <1>17
  <2>2. \A i \in 1 .. sent : i \in 1 .. Processes /\ i <= usable /\ i <= sent + 1 /\ i # Nobody
    BY <1>2, <1>3, <1>17 DEF Nobody
  <2>3. Reserved(sent)'
    BY <1>13, <1>15, <1>17, <2>1, <2>2 DEF Reserved
  <2>4. \A i \in 1 .. sent : modem'[i].process # Nobody
    BY <2>1, <2>2
  <2>5. Told(sent)'
    BY <1>6, <1>12, <1>17, <2>3, <2>4 DEF Told
  <2> QED
    BY <1>4, <1>6, <1>14, <1>16, <2>5 DEF ApartInv
<1>18. CASE ~useHarq
  <2>1. Reserved(sent)'
    <3>1. \A i \in 1 .. sent : modem'[i].process = Nobody
      BY <1>2, <1>5, <1>18
    <3> QED
      BY <1>15, <3>1 DEF Reserved
  <2>2. client'.starting = 1 /\ client'.middle = 0 /\ sent <= Window
    BY <1>2, <1>3, <1>7, <1>18
  <2>3. Back(v, sent) = 1
    <3>1. sent = 0 => v = 1
      BY <1>3, <1>8 DEF Fold
    <3>2. sent > 0 \/ sent = 0
      BY <1>3
    <3> QED
      BY <1>9, <3>1, <3>2
  <2>4. PICK age : age = [k \in DOMAIN queue' |-> 0]
    OBVIOUS
  <2>5. age \in [DOMAIN queue' -> Nat]
    BY <2>4
  <2>6. sent \in 0 .. Most /\ sent <= 2 * Window - 1 /\ sent <= 2 * Window + Processes - 1
    BY <1>3, <2>2, MostReach
  <2>7. Paces(sent, sent)'
    BY <1>10, <2>2, <2>3, <2>6 DEF Paces
  <2>8. Paced(sent, sent, sent, age)'
    BY <1>3, <1>15, <2>7 DEF Paced, Aged
  <2>9. OneTimer'
    BY <1>15 DEF OneTimer
  <2>10. Told(sent)'
    BY <1>3, <1>6, <1>12, <1>18, <2>1, <2>5, <2>6, <2>8, <2>9 DEF Told
  <2> QED
    BY <1>4, <1>6, <1>14, <1>16, <2>10 DEF ApartInv
<1> QED
  BY <1>17, <1>18

\* A server that starts has an RX.
LEMMA StartServerKeeps ==
  ASSUME PerfInv, NEW useHarq \in BOOLEAN, NEW duration \in Durations \cup {Infinite},
         StartServer(useHarq, duration), PerfAssumption
  PROVE  ApartInv'
<1>1. /\ queue' = <<>> /\ modem' = <<ServerRx(now + 1, FALSE)>> /\ harq' = AllFree /\ now' = now
      /\ perf' = [on_going |-> TRUE, role |-> "server", use_harq |-> useHarq, usable |-> 0,
                  started |-> now, duration |-> duration]
  BY DEF StartServer, Start, Shell
<1>2. ToSet(queue') = {} /\ ToSet(modem') = {ServerRx(now + 1, FALSE)}
  BY <1>1, HoldsEmpty, HoldsSingle
<1>3. NoneSent'
  BY <1>2 DEF NoneSent, ServerRx
<1>4. perf'.role = "server" /\ perf'.usable = 0 /\ perf'.started = now /\ now \in Nat /\ Processes \in Nat
  BY <1>1 DEF PerfInv, LendInv, Remembers, PerfAssumption
<1>5. AllFree \in Harqs
  BY DEF AllFree, Harqs
<1>6. Reservations'
  BY <1>1, <1>4, <1>5 DEF Reservations, Harqs
<1> QED
  BY <1>3, <1>4, <1>6 DEF ApartInv

\* Without a perf nothing is outstanding.
LEMMA IdleApart ==
  ASSUME PerfAssumption, HandlesReach, PerfInit
  PROVE  ApartInv
<1>1. /\ queue = <<>> /\ modem = <<>> /\ harq = AllFree /\ now = 1 /\ shell = "idle"
      /\ client.handle = 1 /\ ~perf.on_going /\ perf.role = "client" /\ ~perf.use_harq
      /\ perf.usable = 0 /\ perf.started = 0 /\ perf.duration = 0
  BY DEF PerfInit, NoPerf, NoClient
<1>2. ToSet(queue) = {} /\ ToSet(modem) = {} /\ DOMAIN queue = {} /\ DOMAIN modem = {}
  BY <1>1, HoldsEmpty
<1>3. Window \in Nat \ {0} /\ LastHandle \in Nat \ {0} /\ Processes \in Nat
  BY DEF PerfAssumption
<1>4. AllFree \in Harqs
  BY DEF AllFree, Harqs
<1>5. Reservations
  BY <1>1, <1>3, <1>4 DEF Reservations, Harqs
<1>6. ClientAlone
  BY <1>1, <1>2 DEF ClientAlone, ClientOnly
<1>7. PICK age : age = [k \in DOMAIN queue |-> 0]
  OBVIOUS
<1>8. age \in [DOMAIN queue -> Nat] /\ 0 \in Nat /\ 0 \in 0 .. Most /\ 0 \in 0 .. LastHandle
      /\ 1 .. 0 = {} /\ 0 <= 0
  BY <1>3, <1>7, MostReach
<1>9. Paced(0, 0, 0, age) /\ Reserved(0) /\ OneTimer
  BY <1>1, <1>2, <1>8 DEF Paced, Aged, Reserved, OneTimer
<1>10. InOrder(0)
  BY <1>2, <1>8 DEF InOrder, Txs
<1>11. Told(0)
  BY <1>1, <1>8, <1>9, <1>10 DEF Told
<1> QED
  BY <1>1, <1>5, <1>6, <1>8, <1>11 DEF ApartInv

\* A start that fails leaves nothing outstanding.
LEMMA StartFailsKeeps ==
  ASSUME PerfAssumption, HandlesReach, PerfInv, StartFails
  PROVE  ApartInv'
<1>1. /\ queue' = <<>> /\ modem' = <<>> /\ harq' = AllFree /\ now' = now /\ shell' = "idle"
      /\ client'.handle = 1 /\ ~perf'.on_going /\ perf'.role = "client" /\ ~perf'.use_harq
      /\ perf'.usable = 0 /\ perf'.started = 0 /\ perf'.duration = 0
  BY DEF StartFails, Shell, NoPerf, NoClient
<1>2. ToSet(queue') = {} /\ ToSet(modem') = {} /\ DOMAIN queue' = {} /\ DOMAIN modem' = {}
  BY <1>1, HoldsEmpty
<1>3. Window \in Nat \ {0} /\ LastHandle \in Nat \ {0} /\ Processes \in Nat /\ now \in Nat
  BY DEF PerfAssumption, PerfInv, LendInv, Remembers
<1>4. AllFree \in Harqs
  BY DEF AllFree, Harqs
<1>5. Reservations'
  BY <1>1, <1>3, <1>4 DEF Reservations, Harqs
<1>6. ClientAlone'
  BY <1>1, <1>2 DEF ClientAlone, ClientOnly
<1>7. PICK age : age = [k \in DOMAIN queue' |-> 0]
  OBVIOUS
<1>8. age \in [DOMAIN queue' -> Nat] /\ 0 \in Nat /\ 0 \in 0 .. Most /\ 0 \in 0 .. LastHandle
      /\ 1 .. 0 = {} /\ 0 <= 0
  BY <1>3, <1>7, MostReach
<1>9. Paced(0, 0, 0, age)' /\ Reserved(0)' /\ OneTimer'
  BY <1>1, <1>2, <1>8 DEF Paced, Aged, Reserved, OneTimer
<1>10. InOrder(0)'
  BY <1>2, <1>8 DEF InOrder, Txs
<1>11. Told(0)'
  BY <1>1, <1>8, <1>9, <1>10 DEF Told
<1> QED
  BY <1>1, <1>5, <1>6, <1>8, <1>11 DEF ApartInv

--------------------------------------------------------------------------------
(* Every step.                                                             *)

\* A client has nothing that a server's actions handle.
LEMMA ClientsOnly ==
  ASSUME PerfInv, ApartInv, perf.role = "client"
  PROVE  /\ ~ServerRuns /\ ~Air /\ ~StopServer /\ ~StopServerEnds
         /\ \A i \in DOMAIN modem : \A failed \in BOOLEAN : ~RxEnds(i, failed)
<1>1. Lists /\ ClientOnly /\ shell # "report"
  BY DEF PerfInv, Runs, ApartInv, ClientAlone
<1>2. \A i \in DOMAIN modem : modem[i].op # "server_rx"
  BY <1>1 DEF ClientOnly, ToSet
<1>3. queue # <<>> => Head(queue).id \in {"tx", "feedback", "timer", "results_rx"}
  <2> SUFFICES ASSUME queue # <<>> PROVE Head(queue) \in ToSet(queue)
    BY <1>1 DEF ClientOnly
  <2> QED
    BY <1>1, Took
<1>4. ~ServerRuns
  BY <1>3 DEF ServerRuns, TakeServerRx, TakeReport, TakeResultsSent, TakeServerRxFailed, TakeRequest,
              TakeCmdDone, Handles, Takes
<1>5. ~Air
  BY <1>2 DEF Air, HearRequest, Header, Listens
<1>6. ~StopServer /\ ~StopServerEnds
  BY <1>1 DEF StopServer, StopServerEnds, Shell
<1>7. \A i \in DOMAIN modem : \A failed \in BOOLEAN : ~RxEnds(i, failed)
  BY <1>2 DEF RxEnds
<1> QED
  BY <1>4, <1>5, <1>6, <1>7

\* Behind other events, no event of the timer is put.
LEMMA PutNoTimer ==
  ASSUME IsList(queue), NEW t, IsList(t), \A event \in ToSet(t) : event.id # "timer", queue' = queue \o t
  PROVE  NoTimerPut
<1>1. PICK new : new = queue'
  OBVIOUS
<1>2. /\ DOMAIN queue = 1 .. Len(queue) /\ Len(queue) \in Nat /\ Len(t) \in Nat /\ DOMAIN t = 1 .. Len(t)
      /\ DOMAIN new = 1 .. Len(queue) + Len(t)
      /\ \A i \in 1 .. Len(queue) + Len(t) : new[i] = IF i <= Len(queue) THEN queue[i] ELSE t[i - Len(queue)]
  BY <1>1, Joined
<1>3. ASSUME NEW k \in DOMAIN new, new[k].id = "timer"
      PROVE  k \in DOMAIN queue /\ queue[k].id = "timer"
  <2>1. CASE k > Len(queue)
    <3>1. k - Len(queue) \in DOMAIN t /\ new[k] = t[k - Len(queue)]
      BY <1>2, <2>1
    <3>2. new[k] \in ToSet(t)
      BY <3>1 DEF ToSet
    <3> QED
      BY <1>3, <3>2
  <2> QED
    BY <1>2, <1>3, <2>1
<1> QED
  BY <1>1, <1>3 DEF NoTimerPut

\* A client without HARQ starts no timer but in the place of the one that is over.
LEMMA ClientTimes ==
  ASSUME PerfAssumption, PerfInv, ApartInv, perf.role = "client", ~perf.use_harq,
         \/ Threads \/ ShellGoesOn \/ Stop \/ ModemRuns \/ Air \/ TimerExpires \/ Tick
         \/ \E p \in 1 .. Processes : Age(p)
         \/ UNCHANGED vars
  PROVE  TimerStays
<1>0. OneTimer /\ IsList(queue) /\ timer \in BOOLEAN
  <2>1. PICK m \in 0 .. LastHandle : Told(m)
    BY DEF ApartInv
  <2> QED
    BY <2>1 DEF Told, PerfInv, LendInv, Remembers, Runs, Lists, IsList
<1>1. ASSUME queue' = queue, timer' = timer
      PROVE  TimerStays
  <2>1. NoTimerPut
    BY <1>1 DEF NoTimerPut
  <2> QED
    BY <1>0, <1>1, <2>1, TimerKept
<1>2. ASSUME queue # <<>>, queue' = Tail(queue), timer' = timer \/ Head(queue).id = "timer"
      PROVE  TimerStays
  <2>1. timer' => timer \/ Head(queue).id = "timer"
    BY <1>2
  <2> QED
    BY <1>0, <1>2, <2>1, TimerTaken
<1>3. CASE ClientRuns \/ Drop
  <2>1. ASSUME NEW sent \in Rounds, NEW taken \in 0 .. 2, TakeTx(sent, taken) PROVE TimerStays
    <3>1. queue # <<>> /\ queue' = Tail(queue) /\ timer' = timer
      BY <2>1 DEF TakeTx, Handles, Takes, ClientTx, TxNoHarq
    <3> QED
      BY <1>2, <3>1
  <2>2. ASSUME NEW sent \in Rounds, TakeTimer(sent) PROVE TimerStays
    BY <1>2, <2>2 DEF TakeTimer, Handles, Takes
  <2>3. ASSUME NEW taken \in 0 .. 2, TakeTimeout(taken) PROVE TimerStays
    BY <1>2, <2>3 DEF TakeTimeout, Handles, Takes
  <2>4. ASSUME NEW reset \in BOOLEAN, TakeFeedback(reset) PROVE TimerStays
    BY <1>2, <2>4 DEF TakeFeedback, Takes
  <2>5. CASE TakeResultsRx \/ Drop
    BY <1>2, <2>5 DEF TakeResultsRx, Drop, Handles, Takes
  <2> QED
    BY <1>3, <2>1, <2>2, <2>3, <2>4, <2>5 DEF ClientRuns
<1>4. CASE TakeDone \/ Stop \/ StopClient \/ Tick \/ UNCHANGED vars
           \/ (\E taken \in 0 .. 2 : StopRequests(taken)) \/ (\E p \in 1 .. Processes : Age(p))
  <2>1. queue' = queue /\ timer' = timer
    BY <1>4 DEF TakeDone, Stop, StopClient, Tick, StopRequests, Age, vars
  <2> QED
    BY <1>1, <2>1
<1>5. ASSUME NEW failed \in BOOLEAN, NEW answered \in BOOLEAN, TxEnds(failed, answered)
      PROVE  TimerStays
  <2>1. PICK c, f : c = Completed(modem[1].handle) /\ f = Feedback(modem[1].process)
    OBVIOUS
  <2>2. /\ timer' = timer
        /\ queue' = IF tool THEN queue \o (<<c>> \o IF answered THEN <<f>> ELSE <<>>) ELSE queue
    BY <1>5, <2>1 DEF TxEnds, Put
  <2>3. CASE tool
    <3>1. PICK l \in Nat : SentBehind(queue, l, queue', c, f, answered)
      BY <1>0, <2>2, <2>3, SentQueued
    <3>2. c.id # "timer" /\ f.id # "timer"
      BY <2>1 DEF Completed, Feedback
    <3>3. NoTimerPut
      <4> SUFFICES ASSUME NEW k \in DOMAIN queue', queue'[k].id = "timer"
                   PROVE  k \in DOMAIN queue /\ queue[k].id = "timer"
        BY DEF NoTimerPut
      <4>1. k \in 1 .. l \/ k = l + 1 \/ (answered /\ k = l + 2)
        BY <3>1 DEF SentBehind
      <4>2. queue'[l + 1] = c /\ (answered => queue'[l + 2] = f)
        BY <3>1 DEF SentBehind
      <4>3. k \in 1 .. l
        BY <3>2, <4>1, <4>2
      <4> QED
        BY <3>1, <4>3 DEF SentBehind
    <3> QED
      BY <1>0, <2>2, <3>3, TimerKept
  <2>4. CASE ~tool
    BY <1>1, <2>2, <2>4
  <2> QED
    BY <2>3, <2>4
<1>6. ASSUME NEW i \in DOMAIN modem, OtherEnds(i)
      PROVE  TimerStays
  <2>1. PICK t : t = IF modem[i].op = "request" THEN <<>> ELSE <<Event(modem[i].op)>>
    OBVIOUS
  <2>2. timer' = timer /\ queue' = (IF tool THEN queue \o t ELSE queue)
    BY <1>6, <2>1 DEF OtherEnds, Put
  <2>3. IsList(t) /\ \A event \in ToSet(t) : event.id # "timer"
    <3>1. CASE t = <<>>
      BY <3>1, ListEmpty
    <3>2. CASE t = <<Event(modem[i].op)>> /\ modem[i].op \in {"results_rx", "results"}
      BY <3>2, HoldsSingle, ListSingle DEF Event
    <3> QED
      BY <1>6, <2>1, <3>1, <3>2 DEF OtherEnds
  <2>4. CASE tool
    BY <1>0, <2>2, <2>3, <2>4, PutNoTimer, TimerKept
  <2>5. CASE ~tool
    BY <1>1, <2>2, <2>5
  <2> QED
    BY <2>4, <2>5
<1>7. CASE TimerExpires
  <2>1. timer /\ ~timer' /\ queue' = Append(queue, Event("timer"))
    BY <1>7 DEF TimerExpires
  <2>2. /\ DOMAIN queue = 1 .. Len(queue) /\ Len(queue) \in Nat /\ DOMAIN queue' = 1 .. Len(queue) + 1
        /\ \A k \in 1 .. Len(queue) : queue'[k] = queue[k]
    <3>1. queue \in Seq(ToSet(queue) \cup {Event("timer")})
      BY <1>0, SeqWider DEF IsList
    <3> QED
      BY <2>1, <3>1, AppendProperties, LenProperties
  <2>3. \A k \in DOMAIN queue' : queue'[k].id = "timer" => k = Len(queue) + 1
    <3> SUFFICES ASSUME NEW k \in DOMAIN queue', queue'[k].id = "timer" PROVE k = Len(queue) + 1
      OBVIOUS
    <3>1. k \in 1 .. Len(queue) \/ k = Len(queue) + 1
      BY <2>2
    <3>2. k \notin 1 .. Len(queue)
      BY <1>0, <2>1, <2>2 DEF OneTimer
    <3> QED
      BY <3>1, <3>2
  <2>4. OneTimer'
    BY <2>1, <2>3 DEF OneTimer
  <2> QED
    BY <2>1, <2>4 DEF TimerStays, Timed
<1> QED
  BY <1>3, <1>4, <1>5, <1>6, <1>7, ClientsOnly DEF Threads, ShellGoesOn, ModemRuns

\* The steps of a client.
LEMMA ClientSteps ==
  ASSUME PerfAssumption, HandlesReach, PerfInv, ApartInv, perf.role = "client", IsList(modem'), IsList(queue'),
         \/ Threads \/ ShellGoesOn \/ Stop \/ ModemRuns \/ Air \/ TimerExpires \/ Tick
         \/ \E p \in 1 .. Processes : Age(p)
         \/ UNCHANGED vars
  PROVE  ApartInv'
<1>0. ~perf.use_harq => TimerStays
  BY ClientTimes
<1>1. CASE ClientRuns \/ Drop
  <2>1. CASE \E sent \in Rounds, taken \in 0 .. 2 : TakeTx(sent, taken)
    <3>1. PICK sent \in Rounds, taken \in 0 .. 2 : TakeTx(sent, taken)
      BY <2>1
    <3>2. CASE TimeIsOver \/ ~Drives(Head(queue).handle)
      BY <1>0, <3>1, <3>2, ClientRunsCalm, CalmKeeps
    <3>3. CASE ~TimeIsOver /\ Drives(Head(queue).handle)
      BY <1>0, <3>1, <3>3, RoundsKeep
    <3> QED
      BY <3>2, <3>3
  <2>2. CASE \E sent \in Rounds : TakeTimer(sent)
    BY <1>0, <2>2, RoundsKeep
  <2>3. CASE (\E taken \in 0 .. 2 : TakeTimeout(taken)) \/ (\E reset \in BOOLEAN : TakeFeedback(reset))
             \/ TakeResultsRx \/ Drop
    BY <1>0, <2>3, ClientRunsCalm, CalmKeeps
  <2> QED
    BY <1>1, <2>1, <2>2, <2>3 DEF ClientRuns
<1>2. CASE TakeDone \/ Stop \/ StopClient \/ (\E taken \in 0 .. 2 : StopRequests(taken))
           \/ (\E i \in DOMAIN modem : OtherEnds(i)) \/ TimerExpires \/ Tick
           \/ (\E p \in 1 .. Processes : Age(p)) \/ UNCHANGED vars
  BY <1>0, <1>2, ClientOthersCalm, CalmKeeps
<1>3. CASE \E failed, answered \in BOOLEAN : TxEnds(failed, answered)
  BY <1>0, <1>3, TxEndsKeeps
<1> QED
  BY <1>1, <1>2, <1>3, ClientsOnly DEF Threads, ShellGoesOn, ModemRuns

\* The invariant holds after each step.
LEMMA ApartSteps ==
  ASSUME PerfAssumption, HandlesReach, PerfInv, ApartInv, [PerfNext]_vars
  PROVE  ApartInv'
<1>1. IsList(modem') /\ IsList(queue')
  <2>1. Lists'
    BY PerfSteps DEF PerfInv, Runs
  <2> QED
    BY <2>1 DEF Lists, IsList
<1>2. perf.role \in {"client", "server"}
  BY DEF PerfInv, LendInv, Remembers
<1>3. CASE User /\ ~Stop
  BY <1>3, StartClientKeeps, StartServerKeeps, StartFailsKeeps DEF User
<1>4. CASE PerfNext /\ (Stop \/ ~User)
  <2>1. \/ Threads \/ ShellGoesOn \/ Stop \/ ModemRuns \/ Air \/ TimerExpires \/ Tick
        \/ \E p \in 1 .. Processes : Age(p)
    BY <1>4 DEF PerfNext
  <2>2. CASE perf.role = "client"
    BY <1>1, <2>1, <2>2, ClientSteps
  <2>3. CASE perf.role = "server"
    BY <2>1, <2>3, ServerSteps
  <2> QED
    BY <1>2, <2>2, <2>3
<1>5. CASE UNCHANGED vars
  <2>1. CASE perf.role = "client"
    BY <1>1, <1>5, <2>1, ClientSteps
  <2>2. CASE perf.role = "server"
    <3>1. UNCHANGED <<perf, modem, queue, harq, now>>
      BY <1>5 DEF vars, bounds
    <3>2. Reservations
      BY DEF ApartInv
    <3>3. ServerCalm
      BY <2>2, <3>1, <3>2 DEF ServerCalm, RunCalm, OpsCalm, EventsCalm, Reservations, Harqs
    <3> QED
      BY <2>2, <3>3, ServerKeeps
  <2> QED
    BY <1>2, <2>1, <2>2
<1> QED
  BY <1>3, <1>4, <1>5

\* What the ages tell apart.
LEMMA AgesApart ==
  ASSUME PerfAssumption, PerfInv, ApartInv
  PROVE  TxApart
<1>1. CASE perf.role = "server"
  <2>1. Txs(modem) = {}
    BY <1>1 DEF ApartInv, NoneSent, Txs, ToSet
  <2> QED
    BY <2>1 DEF TxApart, Txs
<1>2. CASE perf.role = "client"
  <2>1. PICK m \in 0 .. LastHandle : Told(m)
    BY <1>2 DEF ApartInv
  <2>2. PICK w \in 1 .. LastHandle : w = Wrapped(client.handle)
    BY WrappedType DEF PerfInv, LendInv, Remembers
  <2>3. LastHandle \in Nat /\ m \in Nat
    BY DEF PerfAssumption
  <2>4. Txs(modem) = 1 .. m /\ \A i \in 1 .. m : modem[i].handle = Back(w, m - i + 1)
    BY <2>1, <2>2 DEF Told, InOrder
  <2>5. ASSUME NEW i \in 1 .. m, NEW j \in 1 .. m, modem[i].handle = modem[j].handle
        PROVE  i = j
    <3>1. PICK a \in Nat, b \in Nat : a = m - i + 1 /\ b = m - j + 1
      BY <2>3
    <3>2. a \in 1 .. LastHandle /\ b \in 1 .. LastHandle /\ Back(w, a) = Back(w, b)
      BY <2>3, <2>4, <2>5, <3>1
    <3>3. a = b
      BY <3>2, BackApart
    <3> QED
      BY <2>3, <3>1, <3>3
  <2>6. /\ \A i, j \in 1 .. m : modem[i].process = modem[j].process /\ modem[i].process # Nobody => i = j
        /\ \A i \in 1 .. m : modem[i].process # Nobody => harq[modem[i].process] = "used"
    <3>1. Reserved(m)
      BY <2>1 DEF Told
    <3> QED
      BY <3>1 DEF Reserved
  <2> QED
    BY <2>4, <2>5, <2>6 DEF TxApart, Txs
<1> QED
  BY <1>1, <1>2 DEF PerfInv, LendInv, Remembers

\* When the handles suffice for a round, for what is outstanding of the rounds before and
\* for the TXs that the timer of a run before has sent in a client without HARQ (the code
\* has 50 for a window of 7 and 8 processes, which asks for 28), the TXs of a client have
\* handles of their own, and those with a HARQ process have one of their own that is
\* reserved: the perf thread never takes the end of one for that of another, in whatever
\* order it handles ends, feedback and its timer.
THEOREM TxsStayApart == ASSUME HandlesReach PROVE PerfSpec => []TxApart
<1>1. PerfAssumption /\ HandlesReach
  BY PerfAssumption
<1>2. PerfInit => PerfInv /\ ApartInv
  BY <1>1, PerfStarts, IdleApart
<1>3. PerfInv /\ ApartInv /\ [PerfNext]_vars => (PerfInv /\ ApartInv)'
  BY <1>1, PerfSteps, ApartSteps
<1>4. PerfInv /\ ApartInv => TxApart
  BY <1>1, AgesApart
<1> QED
  BY <1>2, <1>3, <1>4, PTL DEF PerfSpec

=================================================================================
