---------------------------------- MODULE Perf ----------------------------------
(***************************************************************************)
(* The perf tool, perf/dect_phy_perf.c, on one device: a client that keeps *)
(* its modem sending, with HARQ or without, or a server that listens and   *)
(* sends its results. The role is chosen at each start, everything else    *)
(* that is left of the run before (a timer, a queued event) stays. The     *)
(* other device is the environment.                                        *)
(*                                                                         *)
(* Time is counted in units of the longest RX, UINT32_MAX modem ticks or   *)
(* 62 seconds. The control thread is cooperative and runs at once, the     *)
(* perf thread (priority 5) preempts the shell, the modem's handler runs   *)
(* in between.                                                             *)
(***************************************************************************)
EXTENDS Integers, Sequences, SequencesExt, FiniteSets

CONSTANTS
  Processes,   \* HARQ processes, DECT_PHY_PERF_HARQ_TX_PROCESS_COUNT
  Window,      \* DECT_PHY_PERF_CLIENT_TX_WINDOW_COUNT
  LastHandle,  \* DECT_PHY_PERF_TX_HANDLE_END, when ..._START is 1
  MaxTime,     \* bound: the end of time
  MaxTroubles, \* bound: refused and failed operations
  Backlog,     \* bound: events left to the perf thread when the modem reports one
  MaxCommands  \* bound: perf commands, stops included

ASSUME PerfAssumption ==
  /\ {Processes, Window, LastHandle, MaxTime} \subseteq Nat \ {0}
  /\ {MaxTroubles, Backlog, MaxCommands} \subseteq Nat

Nobody == 0         \* the process of a TX without HARQ
Infinite == -1      \* DECT_PHY_PERF_DURATION_INFINITE

VARIABLES
  perf,     \* perf_data: perf_ongoing, cmd_params, time_started_ms
  client,   \* perf_data.client_data
  harq,     \* tx_harq_processes: free, in use, or in use for 2 seconds and more
  server,   \* rx_results_sent, rx_req_count_on_going, rx_enabled_z_ticks
  timer,    \* harq_tx_window_timer runs
  modem,    \* the operations of the modem
  queue,    \* dect_phy_perf_op_event_msgq
  tool,     \* ctrl_data.perf_ongoing, as long as the modem's handler is perf's
  done,     \* DECT_PHY_CTRL_OP_PERF_CMD_DONE is in the queue of control
  shell,    \* where the command of the shell is
  now,
  commands, \* perf commands so far
  troubles, \* what went wrong so far
  hitch     \* history: the running perf lost what would end it

bounds == <<now, commands, troubles>>
users == <<tool, done, shell>>
vars == <<perf, client, harq, server, timer, modem, queue, users, bounds, hitch>>

NoPerf == [on_going |-> FALSE, role |-> "client", use_harq |-> FALSE, usable |-> 0,
           started |-> 0, duration |-> 0]
NoClient == [requested |-> FALSE, handle |-> 1, starting |-> 0, middle |-> 0]
NoServer == [sent |-> FALSE, count |-> 0, enabled |-> 0]
AllFree == [p \in 1 .. Processes |-> "free"]

PerfInit ==
  /\ perf = NoPerf /\ client = NoClient /\ server = NoServer
  /\ harq = AllFree /\ timer = FALSE
  /\ modem = <<>> /\ queue = <<>>
  /\ tool = FALSE /\ done = FALSE /\ shell = "idle"
  /\ now = 1 /\ commands = 0 /\ troubles = 0 /\ hitch = FALSE

Tx(handle, process) == [op |-> "tx", handle |-> handle, process |-> process]
ServerRx(until, lost) == [op |-> "server_rx", until |-> until, heard |-> "nothing", lost |-> lost]
Other(op) == [op |-> op]
Event(id) == [id |-> id]
Completed(handle) == [id |-> "tx", handle |-> handle]
RxFailed(at_once) == [id |-> "server_rx_failed", at_once |-> at_once]
Feedback(process) == [id |-> "feedback", process |-> process]

\* Something may go wrong, within the bound.
May(trouble) ==
  /\ trouble => troubles < MaxTroubles
  /\ troubles' = IF trouble THEN troubles + 1 ELSE troubles

\* dect_phy_perf_time_secs_left()
SecsLeft ==
  IF perf.duration = Infinite THEN Infinite
  ELSE IF perf.duration > now - perf.started THEN perf.duration - (now - perf.started) ELSE 0

\* Mutant of CmdDone: control is not told.
CmdDone_Silent == perf' = [perf EXCEPT !.on_going = FALSE] /\ UNCHANGED done

\* dect_phy_perf_cmd_done()
CmdDone == perf' = [perf EXCEPT !.on_going = FALSE] /\ done' = (done \/ perf.on_going)

--------------------------------------------------------------------------------
(* The client's rounds of transmissions.                                   *)

\* The handle after another, and the handles of a round that starts at one.
Wrapped(handle) == IF handle > LastHandle THEN 1 ELSE handle
RoundHandle(i) == ((Wrapped(client.handle) + i - 2) % LastHandle) + 1

\* The handle left by a round of which sent were taken and, when they are fewer
\* than the window, the next was refused.
NextHandle(sent, window) ==
  IF sent = 0 THEN Wrapped(client.handle)
  ELSE IF sent < window THEN Wrapped(RoundHandle(sent) + 1) ELSE RoundHandle(sent) + 1

\* A round that could not even start leaves the client to what it scheduled before.
Refused(sent, window) == May(sent < window) /\ hitch' = (hitch \/ (sent = 0 /\ shell = "idle"))

\* dect_phy_perf_client_tx_no_harq()
TxNoHarq(sent) ==
  /\ sent <= Window /\ Refused(sent, Window)
  /\ client' = [client EXCEPT !.starting = Wrapped(client.handle), !.handle = NextHandle(sent, Window)]
  /\ modem' = modem \o [i \in 1 .. sent |-> Tx(RoundHandle(i), Nobody)]
  /\ UNCHANGED <<harq, timer>>

\* dect_phy_perf_harq_tx_process_cleanup()
Cleaned == [p \in DOMAIN harq |-> IF harq[p] = "old" THEN "free" ELSE harq[p]]

\* The processes that are free, as dect_phy_perf_harq_tx_process_reserve() finds them:
\* the lowest first.
FreeProcesses ==
  LET free == {p \in 1 .. perf.usable : Cleaned[p] = "free"}
  IN [i \in 1 .. Cardinality(free) |-> CHOOSE p \in free : Cardinality({q \in free : q < p}) = i - 1]

\* Mutant of WindowFull: no timer for a window that is full.
WindowFull_NoTimer == UNCHANGED timer

\* The client comes back in 2 seconds.
WindowFull == timer' = TRUE

\* dect_phy_perf_client_tx_with_harq(): as many TXs as there are free processes, and
\* the timer when there is none. A process whose TX is refused stays reserved.
TxWithHarq(sent) ==
  LET free == FreeProcesses
      last == NextHandle(sent, Len(free))
  IN
  IF free = <<>>
  THEN sent = 0 /\ WindowFull /\ harq' = Cleaned /\ UNCHANGED <<client, modem, troubles, hitch>>
  ELSE /\ sent <= Len(free) /\ Refused(sent, Len(free))
       /\ harq' = [p \in DOMAIN harq |->
                     IF \E i \in 1 .. sent + 1 : i <= Len(free) /\ free[i] = p THEN "used" ELSE Cleaned[p]]
       /\ client' = [client EXCEPT !.starting = Wrapped(client.handle), !.handle = last,
                                   !.middle = (client.handle + last - 1) \div 2]
       /\ modem' = modem \o [i \in 1 .. sent |-> Tx(RoundHandle(i), free[i])]
       /\ UNCHANGED timer

ClientTx(sent) == IF perf.use_harq THEN TxWithHarq(sent) ELSE TxNoHarq(sent)
Rounds == 0 .. IF Window > Processes THEN Window ELSE Processes

\* dect_phy_perf_client_report_local_results_and_req_srv_results(): the modem takes
\* the TX and the RX, or the TX alone, or none. Then is what follows a success.
Request(taken, then) ==
  /\ modem' = modem \o SubSeq(<<Other("request"), Other("results_rx")>>, 1, taken)
  /\ May(taken # 2)
  /\ IF taken = 2 THEN client' = [client EXCEPT !.requested = TRUE] /\ then
     ELSE CmdDone /\ UNCHANGED client

Report(taken, then) ==
  IF client.requested THEN taken = 2 /\ then /\ UNCHANGED <<client, modem, troubles>>
  ELSE Request(taken, then)

--------------------------------------------------------------------------------
(* The server's RX.                                                        *)

\* The modem performs an RX that has heard nothing yet: another in its time comes to nothing.
Receives(ops) == \E i \in DOMAIN ops : ops[i].op = "server_rx" /\ ops[i].heard = "nothing" /\ ~ops[i].lost

\* dect_phy_perf_server_rx_start() for a duration, of a server with these data and
\* operations. When the modem refuses, the perf is over without a word to control.
RxStart(duration, taken, data, ops) ==
  IF taken
  THEN /\ modem' = Append(ops, ServerRx(now + (IF duration = 0 THEN 0 ELSE 1), Receives(ops)))
       /\ server' = [data EXCEPT !.count = @ + 1, !.enabled = now]
       /\ UNCHANGED <<hitch, troubles>>
  ELSE server' = data /\ hitch' = TRUE /\ May(TRUE) /\ modem' = ops

\* One counted RX less.
Fewer == [server EXCEPT !.count = IF @ = 0 THEN 0 ELSE @ - 1]

\* Mutant of NoneCounted: asked before the RX that is over is taken off.
NoneCounted_Before == server.count = 0

\* No RX is counted, or none started since: the server may listen again.
NoneCounted == Fewer.count = 0 \/ now > server.enabled

\* dect_phy_perf_start() of mode RESTART: the start time stays.
Restart(taken) ==
  /\ perf' = [perf EXCEPT !.on_going = taken, !.duration = SecsLeft]
  /\ RxStart(SecsLeft, taken, Fewer, modem)

\* dect_phy_perf_start() of mode RESTART_AFTER_RESULT_SENDING: all is cleared.
RestartAfterResults(taken) ==
  /\ perf' = [perf EXCEPT !.on_going = taken, !.duration = SecsLeft, !.started = now]
  /\ client' = NoClient /\ harq' = AllFree
  /\ RxStart(SecsLeft, taken, NoServer, modem)

--------------------------------------------------------------------------------
(* The modem, the other device and time.                                   *)

Put(events) == queue' = IF tool THEN queue \o events ELSE queue
Reports == Len(queue) <= Backlog

\* A client's operations are performed in order, those of a server overlap. What was
\* cancelled, or cannot be performed, ends first.
Lost(i) == modem[i].op = "server_rx" /\ modem[i].lost
Ends(i) ==
  /\ i \in DOMAIN modem /\ Reports
  /\ i = 1 \/ modem[i].op \in {"server_rx", "results"}
  /\ Lost(i) \/ \A j \in DOMAIN modem : ~Lost(j)
  /\ modem' = RemoveAt(modem, i)

\* A TX is sent or not; with HARQ the server's feedback may be heard after it.
TxEnds(failed, answered) ==
  LET tx == modem[1] IN
  /\ Ends(1) /\ tx.op = "tx"
  /\ answered => ~failed /\ tx.process # Nobody
  /\ Put(<<Completed(tx.handle)>> \o IF answered THEN <<Feedback(tx.process)>> ELSE <<>>)
  /\ May(failed)
  /\ UNCHANGED <<perf, client, harq, server, timer, users, hitch, now, commands>>

\* The request for results, the RX for them and the results.
OtherEnds(i) ==
  /\ Ends(i) /\ modem[i].op \in {"request", "results_rx", "results"}
  /\ Put(IF modem[i].op = "request" THEN <<>> ELSE <<Event(modem[i].op)>>)
  /\ UNCHANGED <<perf, client, harq, server, timer, users, bounds, hitch>>

\* The RX that the server's modem performs: they come one after the other.
Listens(i) ==
  /\ i \in DOMAIN modem /\ modem[i].op = "server_rx"
  /\ \A j \in DOMAIN modem : ~Lost(j)
  /\ \A j \in 1 .. i - 1 : modem[j].op # "server_rx"

\* The server hears a header: with HARQ it gives its feedback and listens again
\* after that, right in the modem's handler, a perf that is over included (whose count
\* nobody reads). The perf thread is done with the packet before.
Header(i, taken) ==
  /\ Listens(i) /\ modem[i].heard = "nothing"
  /\ tool /\ perf.use_harq /\ queue = <<>>
  /\ perf' = [perf EXCEPT !.on_going = @ /\ taken]
  /\ RxStart(perf.duration, taken, IF perf.on_going THEN server ELSE NoServer,
             [modem EXCEPT ![i].heard = "header"])
  /\ UNCHANGED <<client, harq, timer, queue, users, now, commands>>

\* The server hears a client that requests its results, one client at a time.
HearRequest(i) ==
  /\ ~server.sent /\ \A j \in DOMAIN queue : queue[j].id \notin {"requested", "report"}
  /\ Listens(i) /\ modem[i].heard = IF perf.use_harq THEN "header" ELSE "nothing"
  /\ tool /\ Reports
  /\ modem' = IF perf.use_harq THEN [modem EXCEPT ![i].heard = "data"] ELSE modem
  /\ Put(<<Event("requested")>>)
  /\ UNCHANGED <<perf, client, harq, server, timer, users, bounds, hitch>>

Air == \E i \in DOMAIN modem : HearRequest(i) \/ \E taken \in BOOLEAN : Header(i, taken)

\* An RX of the server is over; a single shot RX ends with what it heard.
RxEnds(i, failed) ==
  LET rx == modem[i] IN
  /\ Ends(i) /\ rx.op = "server_rx"
  /\ failed \/ (Listens(i) /\ (rx.heard # "nothing" \/ now >= rx.until))
  /\ Put(<<IF failed THEN RxFailed(rx.lost) ELSE Event("server_rx")>>)
  /\ May(failed /\ ~rx.lost)
  /\ UNCHANGED <<perf, client, harq, server, timer, users, hitch, now, commands>>

ModemRuns ==
  \/ \E failed, answered \in BOOLEAN : TxEnds(failed, answered)
  \/ \E i \in DOMAIN modem : OtherEnds(i) \/ \E failed \in BOOLEAN : RxEnds(i, failed)

\* Nothing is left to come of a transmission with this process: it is performed, and
\* its feedback handled, long before 2 seconds are over.
Settled(p) ==
  /\ \A i \in DOMAIN modem : modem[i].op = "tx" => modem[i].process # p
  /\ \A i \in DOMAIN queue : queue[i].id = "feedback" => queue[i].process # p

\* 2 seconds after its reservation a process may be taken again.
Age(p) ==
  /\ harq[p] = "used" /\ Settled(p) /\ harq' = [harq EXCEPT ![p] = "old"]
  /\ UNCHANGED <<perf, client, server, timer, modem, queue, users, bounds, hitch>>

\* Then the timer is over, too; nothing stops it before.
TimerExpires ==
  /\ timer /\ timer' = FALSE /\ Reports
  /\ harq' = [p \in DOMAIN harq |-> IF harq[p] = "used" /\ Settled(p) THEN "old" ELSE harq[p]]
  /\ queue' = Append(queue, Event("timer"))
  /\ UNCHANGED <<perf, client, server, modem, users, bounds, hitch>>

\* No RX lasts longer than it should; a server handles a packet and its end in no time.
Tick ==
  /\ now < MaxTime /\ now' = now + 1
  /\ perf.role = "server" => queue = <<>>
  /\ \A i \in DOMAIN modem : modem[i].op = "server_rx" =>
       modem[i].until > now /\ modem[i].heard = "nothing" /\ ~modem[i].lost
  /\ UNCHANGED <<perf, client, harq, server, timer, modem, queue, users, commands, troubles, hitch>>

--------------------------------------------------------------------------------
(* The perf thread. Control preempts it.                                   *)

Takes(id) == ~done /\ queue # <<>> /\ Head(queue).id = id
Handles(id) == Takes(id) /\ perf.on_going

TimeIsOver == now - perf.started >= perf.duration

\* Mutant of Drives: every TX drives the client.
Drives_Every(handle) == handle # 0

\* The TXs that drive the client on: the first of a round and, with HARQ, the middle.
Drives(handle) == handle \in {client.starting, client.middle}

\* A TX of the client is over, sent or not.
TakeTx(sent, taken) ==
  /\ Handles("tx") /\ queue' = Tail(queue)
  /\ IF TimeIsOver
     THEN /\ Report(taken, UNCHANGED <<perf, done>>) /\ sent = 0
          /\ UNCHANGED <<harq, timer, hitch>>
     ELSE /\ IF Drives(Head(queue).handle) THEN ClientTx(sent)
             ELSE sent = 0 /\ UNCHANGED <<client, harq, timer, modem, hitch, troubles>>
          /\ taken = 2 /\ UNCHANGED <<perf, done>>
  /\ UNCHANGED <<server, tool, shell, now, commands>>

\* HARQ feedback releases its process, if that is in use; a reset does not.
TakeFeedback(reset) ==
  /\ Takes("feedback") /\ queue' = Tail(queue)
  /\ harq' = IF perf.use_harq /\ perf.role = "client" /\ ~reset
             THEN [harq EXCEPT ![Head(queue).process] = "free"] ELSE harq
  /\ UNCHANGED <<perf, client, server, timer, modem, users, bounds, hitch>>

\* Mutant of TakeResultsRx: that ends nothing.
TakeResultsRx_Only ==
  /\ Handles("results_rx") /\ queue' = Tail(queue)
  /\ UNCHANGED <<perf, done, client, harq, server, timer, modem, tool, shell, bounds, hitch>>

\* The RX for the results is over, whatever it received.
TakeResultsRx ==
  /\ Handles("results_rx") /\ queue' = Tail(queue) /\ CmdDone
  /\ UNCHANGED <<client, harq, server, timer, modem, tool, shell, bounds, hitch>>

\* An RX of the server is over: the end, or a restart when no other is counted (or
\* only older ones) and no results are to be sent before.
TakeServerRx(taken) ==
  /\ Handles("server_rx")
  /\ IF SecsLeft = 0
     THEN /\ queue' = Append(Tail(queue), Event("report")) /\ CmdDone
          /\ server' = Fewer /\ taken /\ UNCHANGED <<modem, hitch, troubles>>
     ELSE /\ queue' = Tail(queue) /\ UNCHANGED done
          /\ IF ~server.sent /\ perf.role = "server" /\ NoneCounted
             THEN Restart(taken)
             ELSE server' = Fewer /\ taken /\ UNCHANGED <<perf, modem, hitch, troubles>>
  /\ UNCHANGED <<client, harq, timer, tool, shell, now, commands>>

\* It failed: less than 500 ms after the last start of an RX, or while another is
\* counted, this is the end.
TakeServerRxFailed(fast, taken) ==
  /\ Handles("server_rx_failed") /\ queue' = Tail(queue)
  /\ fast => server.enabled = now
  /\ Head(queue).at_once /\ server.enabled # 0 => fast
  /\ IF perf.role = "server" /\ Fewer.count = 0 /\ ~fast THEN Restart(taken) /\ UNCHANGED done
     ELSE CmdDone /\ server' = Fewer /\ taken /\ UNCHANGED <<modem, hitch, troubles>>
  /\ UNCHANGED <<client, harq, timer, tool, shell, now, commands>>

\* The request is from the device heard last, or it is ignored.
TakeRequest(known) ==
  /\ Handles("requested")
  /\ queue' = IF known THEN Append(Tail(queue), Event("report")) ELSE Tail(queue)
  /\ UNCHANGED <<perf, client, harq, server, timer, modem, users, bounds, hitch>>

Cancelled(op) == IF op.op = "server_rx" THEN [op EXCEPT !.lost = TRUE] ELSE op

\* dect_phy_perf_server_report_local_and_tx_results(), of a perf that may be over: RX
\* is cancelled, the results are sent in 2 seconds, and all about the RX is forgotten.
TakeReport(taken) ==
  /\ Takes("report") /\ queue' = Tail(queue)
  /\ modem' = [i \in DOMAIN modem |-> Cancelled(modem[i])]
                \o IF taken THEN <<Other("results")>> ELSE <<>>
  /\ server' = [NoServer EXCEPT !.sent = taken]
  /\ May(~taken)
  /\ UNCHANGED <<perf, client, harq, timer, users, hitch, now, commands>>

\* The results are sent, or not: the server goes on for the time left.
TakeResultsSent(taken) ==
  /\ Handles("results") /\ queue' = Tail(queue)
  /\ IF SecsLeft = 0
     THEN /\ CmdDone /\ server' = [server EXCEPT !.sent = FALSE] /\ taken
          /\ UNCHANGED <<client, harq, modem, hitch, troubles>>
     ELSE RestartAfterResults(taken) /\ UNCHANGED done
  /\ UNCHANGED <<timer, tool, shell, now, commands>>

NoTime == perf' = [perf EXCEPT !.duration = 0] /\ UNCHANGED done

\* HARQ_TX_WIN_TIMER, of this perf or of one before, when there is time: a round. In a
\* server that would write through a null pointer: what comes of it is left open.
TakeTimer(sent) ==
  /\ Handles("timer") /\ SecsLeft # 0 /\ queue' = Tail(queue)
  /\ IF perf.role = "client" THEN TxWithHarq(sent)
     ELSE sent = 0 /\ hitch' = TRUE /\ UNCHANGED <<client, harq, timer, modem, troubles>>
  /\ UNCHANGED <<perf, server, users, now, commands>>

\* When there is none, dect_phy_perf_cmd_stop().
TakeTimeout(taken) ==
  /\ Handles("timer") /\ SecsLeft = 0
  /\ IF perf.role = "client"
     THEN Report(taken, NoTime) /\ queue' = Tail(queue) /\ UNCHANGED server
     ELSE /\ queue' = Tail(queue) \o <<Event("report"), Event("cmd_done")>> /\ server' = Fewer
          /\ taken = 2 /\ UNCHANGED <<perf, done, client, modem, troubles>>
  /\ UNCHANGED <<harq, timer, tool, shell, now, commands, hitch>>

TakeCmdDone ==
  /\ Takes("cmd_done") /\ queue' = Tail(queue) /\ CmdDone
  /\ UNCHANGED <<client, harq, server, timer, modem, tool, shell, bounds, hitch>>

\* Without a perf the other events are dropped.
Drop ==
  /\ ~done /\ queue # <<>> /\ ~perf.on_going
  /\ Head(queue).id \notin {"report", "cmd_done", "feedback"}
  /\ queue' = Tail(queue)
  /\ UNCHANGED <<perf, client, harq, server, timer, modem, users, bounds, hitch>>

ClientRuns ==
  \/ \E sent \in Rounds, taken \in 0 .. 2 : TakeTx(sent, taken)
  \/ \E sent \in Rounds : TakeTimer(sent)
  \/ \E taken \in 0 .. 2 : TakeTimeout(taken)
  \/ \E reset \in BOOLEAN : TakeFeedback(reset)
  \/ TakeResultsRx

ServerRuns ==
  \/ \E taken \in BOOLEAN :
       \/ TakeServerRx(taken) \/ TakeReport(taken) \/ TakeResultsSent(taken)
       \/ \E fast \in BOOLEAN : TakeServerRxFailed(fast, taken)
  \/ \E known \in BOOLEAN : TakeRequest(known)
  \/ TakeCmdDone

--------------------------------------------------------------------------------
(* Control and the shell.                                                  *)

\* PERF_CMD_DONE: operations are cancelled and control takes the modem back.
TakeDone ==
  /\ done /\ done' = FALSE /\ tool' = FALSE /\ modem' = <<>>
  /\ UNCHANGED <<perf, client, harq, server, timer, queue, shell, bounds, hitch>>

\* The shell's turn, at a label of its command.
Shell(label, next) ==
  /\ shell = label /\ queue = <<>> /\ ~done /\ shell' = next

\* dect_phy_ctrl_perf_cmd() and dect_phy_perf_start(): operations are cancelled,
\* perf_data is cleared.
Start(role, useHarq, usable, duration) ==
  /\ Shell("idle", "idle") /\ ~tool /\ tool' = TRUE
  /\ commands < MaxCommands /\ commands' = commands + 1
  /\ perf' = [on_going |-> TRUE, role |-> role, use_harq |-> useHarq, usable |-> usable,
              started |-> now, duration |-> duration]

\* A client starts with its first round.
StartClient(useHarq, usable, duration, sent) ==
  LET window == IF useHarq THEN usable ELSE Window IN
  /\ Start("client", useHarq, usable, duration)
  /\ sent <= window /\ May(sent < window) /\ hitch' = (sent = 0 /\ window # 0)
  /\ timer' = (timer \/ window = 0)
  /\ modem' = [i \in 1 .. sent |-> Tx(i, IF useHarq THEN i ELSE Nobody)]
  /\ harq' = [p \in DOMAIN AllFree |->
                IF useHarq /\ p <= usable /\ p <= sent + 1 THEN "used" ELSE "free"]
  /\ client' = [NoClient EXCEPT !.handle = sent + 1,
                  !.starting = IF window = 0 THEN 0 ELSE 1,
                  !.middle = IF useHarq /\ window # 0 THEN (sent + 1) \div 2 ELSE 0]
  /\ server' = NoServer
  /\ UNCHANGED <<queue, done, now>>

StartServer(useHarq, duration) ==
  /\ Start("server", useHarq, 0, duration)
  /\ server' = [NoServer EXCEPT !.count = 1, !.enabled = now]
  /\ modem' = <<ServerRx(now + 1, FALSE)>>
  /\ client' = NoClient /\ harq' = AllFree /\ hitch' = FALSE
  /\ UNCHANGED <<timer, queue, done, now, troubles>>

\* The slots and the MCS of a client do not fit, or the modem refuses a server.
StartFails ==
  /\ Shell("idle", "idle") /\ ~tool /\ tool' = TRUE /\ done' = TRUE
  /\ commands < MaxCommands /\ commands' = commands + 1
  /\ perf' = NoPerf /\ client' = NoClient /\ harq' = AllFree /\ server' = NoServer
  /\ modem' = <<>> /\ hitch' = FALSE
  /\ UNCHANGED <<timer, queue, now, troubles>>

\* dect_phy_perf_cmd_stop() finds a perf to stop.
Stop ==
  /\ Shell("idle", "stop") /\ perf.on_going
  /\ commands < MaxCommands /\ commands' = commands + 1
  /\ hitch' = FALSE
  /\ UNCHANGED <<perf, client, harq, server, timer, modem, queue, tool, done, now, troubles>>

\* The client: the results may be requested already, by the perf thread.
StopClient ==
  /\ perf.role = "client"
  /\ IF client.requested THEN Shell("stop", "idle") /\ NoTime
     ELSE Shell("stop", "request") /\ UNCHANGED <<perf, done>>
  /\ UNCHANGED <<client, harq, server, timer, modem, queue, tool, bounds, hitch>>

\* If not, it requests them, even if the perf thread has done so in between.
StopRequests(taken) ==
  /\ Shell("request", "idle") /\ Request(taken, NoTime)
  /\ UNCHANGED <<harq, server, timer, queue, tool, now, commands, hitch>>

\* The server: its thread reports before the shell goes on.
StopServer ==
  /\ perf.role = "server" /\ Shell("stop", "report")
  /\ queue' = Append(queue, Event("report"))
  /\ UNCHANGED <<perf, client, harq, server, timer, modem, tool, done, bounds, hitch>>

StopServerEnds ==
  /\ Shell("report", "idle") /\ server' = Fewer
  /\ queue' = Append(queue, Event("cmd_done"))
  /\ UNCHANGED <<perf, client, harq, timer, modem, tool, done, bounds, hitch>>

ShellGoesOn ==
  \/ StopClient \/ StopServer \/ StopServerEnds
  \/ \E taken \in 0 .. 2 : StopRequests(taken)

Durations == 1 .. MaxTime - now

User ==
  \/ \E useHarq \in BOOLEAN, usable \in 0 .. Processes, duration \in Durations, sent \in Rounds :
       StartClient(useHarq, usable, duration, sent)
  \/ \E useHarq \in BOOLEAN, duration \in Durations \cup {Infinite} : StartServer(useHarq, duration)
  \/ StartFails \/ Stop

Threads == ClientRuns \/ ServerRuns \/ Drop \/ TakeDone

PerfNext ==
  \/ User \/ Threads \/ ShellGoesOn \/ ModemRuns \/ Air \/ TimerExpires \/ Tick
  \/ \E p \in 1 .. Processes : Age(p)

PerfSpec == PerfInit /\ [][PerfNext]_vars

\* The kernel runs ready threads and timers, the modem performs what it took, time
\* goes on. The perf thread starves no shell: a TX gives it little to do and lasts
\* longer. Nothing makes the user, the other device or a process's age move.
PerfFairness ==
  /\ WF_vars(Threads) /\ SF_vars(ShellGoesOn) /\ WF_vars(ModemRuns)
  /\ WF_vars(TimerExpires) /\ SF_vars(Tick)
FairPerfSpec == PerfSpec /\ PerfFairness

--------------------------------------------------------------------------------
(* Properties.                                                             *)

Pending(handle) ==
  \/ \E i \in DOMAIN modem : modem[i].op = "tx" /\ modem[i].handle = handle
  \/ \E i \in DOMAIN queue : queue[i].id = "tx" /\ queue[i].handle = handle

\* A client that is on going has something that drives it: a TX whose end starts the
\* next round, the timer, or the RX for the results. Whatever order ends, feedback,
\* timeouts and full windows come in, it never sits there with nothing to wait for.
ClientDriven ==
  perf.on_going /\ perf.role = "client" =>
    \/ Pending(client.starting) \/ Pending(client.middle) \/ timer
    \/ hitch \/ shell # "idle"
    \/ \E i \in DOMAIN queue : queue[i].id \in {"timer", "results_rx"}
    \/ \E i \in DOMAIN modem : modem[i].op = "results_rx"

\* Outstanding TXs have handles of their own, or the end of one would pass for that of
\* another; with HARQ they have processes of their own, which are all reserved, or the
\* server would combine different packets.
TxApart ==
  LET txs == {i \in DOMAIN modem : modem[i].op = "tx"} IN
  /\ \A i, j \in txs : modem[i].handle = modem[j].handle => i = j
  /\ \A i, j \in txs : modem[i].process = modem[j].process /\ modem[i].process # Nobody => i = j
  /\ \A i \in txs : modem[i].process # Nobody => harq[modem[i].process] = "used"

\* A server that is on going listens or sends its results, or the end of that is just
\* about to be handled: it never stays on with its modem idle.
ServerListens ==
  perf.on_going /\ perf.role = "server" =>
    \/ \E i \in DOMAIN modem : modem[i].op \in {"server_rx", "results"}
    \/ \E i \in DOMAIN queue :
         queue[i].id \in {"server_rx", "server_rx_failed", "results", "cmd_done"}
    \/ hitch

\* Control has lent its modem exactly to a perf that is on going or about to be handed
\* back: nobody can start over a running perf, and after it everybody can.
ToolAgrees == (perf.on_going => tool) /\ (tool => perf.on_going \/ done \/ hitch)

\* A perf ends when its time is over, and when it is stopped.
PerfEnds ==
  /\ perf.on_going /\ perf.duration # Infinite ~> ~perf.on_going \/ hitch
  /\ shell # "idle" ~> ~perf.on_going
================================================================================
