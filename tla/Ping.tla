---------------------------------- MODULE Ping ----------------------------------
(***************************************************************************)
(* The ping tool, ping/dect_phy_ping.c: a client device that pings and a   *)
(* server device that answers, each with its ping thread, its queue, its   *)
(* modem and its shell. The client's pings are one interval operation in   *)
(* the scheduler's list; a ping the server could not decode is sent again  *)
(* when HARQ is used. At the end the client asks for the server's results. *)
(*                                                                         *)
(* The modem performs its operations in order. A combined TX and RX is two *)
(* operations in a row. The control thread is cooperative, the ping thread *)
(* (priority 5) preempts the shell: a shell goes on when its ping thread   *)
(* has nothing to do.                                                      *)
(***************************************************************************)
EXTENDS Naturals, Sequences, SequencesExt, FiniteSets

CONSTANTS
  Pings,      \* ping_count of the client
  MaxTroubles,\* bound: NACKs, late turns, refused operations, failed RXs
  Backlog,    \* bound: events left to a ping thread when its modem ends an operation
  MaxCommands \* bound: ping commands, stops included

ASSUME PingAssumption ==
  Pings \in Nat \ {0} /\ MaxTroubles \in Nat /\ Backlog \in Nat /\ MaxCommands \in Nat

Roles == {"client", "server"}
Other(r) == CHOOSE p \in Roles : p # r

VARIABLES
  on_going,  \* ping_data.on_going of each device
  client,    \* ping_data.client_data, use_harq, and the pings counted
  harq,      \* harq_processes[DECT_HARQ_CLIENT]; seq: of the stored ping
  list,      \* the scheduler's list: the turns left of the ping operation and its
             \* sequence number; the retransmissions listed
  server,    \* ping_data.server_data; heard: rx_total_data_amount is not 0
  modem,     \* the operations of each modem
  queue,     \* dect_phy_ping_op_event_msgq of each device
  tool,      \* ctrl_data.ping_ongoing, as long as the modem's handler is ping's
  done,      \* DECT_PHY_CTRL_OP_PING_CMD_DONE is in the queue of control
  shell,     \* where the command of each shell is
  commands,  \* ping commands so far
  troubles,  \* NACKs, and what went wrong so far
  hitch      \* history: what keeps a ping from ending by itself

users == <<shell, commands>>
bounds == <<troubles, hitch>>
vars == <<on_going, client, harq, list, server, modem, queue, tool, done, users, bounds>>

NoClient == [intervals_done |-> FALSE, requested |-> FALSE, harq |-> FALSE, next |-> 0, sent |-> 0]
NoHarq == [in_use |-> FALSE, rtx_ongoing |-> FALSE, seq |-> 0]
NoServer == [on_going_rx_count |-> 0, heard |-> FALSE]

PingInit ==
  /\ on_going = [r \in Roles |-> FALSE]
  /\ client = NoClient /\ harq = NoHarq /\ server = NoServer
  /\ list = [left |-> 0, seq |-> 0, retx |-> {}]
  /\ modem = [r \in Roles |-> <<>>] /\ queue = [r \in Roles |-> <<>>]
  /\ tool = [r \in Roles |-> FALSE] /\ done = [r \in Roles |-> FALSE]
  /\ shell = [r \in Roles |-> "idle"] /\ commands = 0 /\ troubles = 0
  /\ hitch = [r \in Roles |-> FALSE]

Op(op, seq) == [op |-> op, seq |-> seq]
Event(id, seq) == [id |-> id, seq |-> seq]

\* The operations of tx_rx, and those of a request for results.
PingOps(seq) == <<Op("tx", seq), Op("rx", 0)>>
RetxOps(seq) == <<Op("retx", seq), Op("rx", 0)>>
AnswerOps(seq) == <<Op("answer", seq), Op("server_rx", 0)>>
ResultOps == <<Op("results", 0), Op("server_rx", 0)>>
RequestOps == <<Op("request", 0), Op("results_rx", 0)>>

Sends == {"tx", "retx", "request", "answer", "results"}

\* Something may go wrong, within the bound; a hitch is trouble to the end.
May(trouble) ==
  /\ trouble => troubles < MaxTroubles
  /\ troubles' = IF trouble THEN troubles + 1 ELSE troubles

\* Nothing keeps a client that is stopped or has requested the results.
Hitch(r) ==
  hitch' = [hitch EXCEPT ![r] = @ \/ r = "server" \/ (shell[r] = "idle" /\ ~client.requested)]

\* Mutant of CmdDone: control is not told.
CmdDone_Silent(r) == on_going' = [on_going EXCEPT ![r] = FALSE] /\ UNCHANGED done

\* dect_phy_ping_cmd_done()
CmdDone(r) ==
  /\ on_going' = [on_going EXCEPT ![r] = FALSE]
  /\ done' = [done EXCEPT ![r] = @ \/ on_going[r]]

--------------------------------------------------------------------------------
(* The scheduler of the client.                                            *)

Answering ==
  \/ \E i \in DOMAIN queue["server"] : queue["server"][i].id = "ping"
  \/ \E i \in DOMAIN modem["server"] : modem["server"][i].op \in {"answer", "results"}

\* A ping goes to the modem 500 ms ahead, at least a second after the one before:
\* by then what that one brought about is over on both devices, but for its RX.
Quiet ==
  /\ list.left > 0 /\ list.retx = {} /\ queue["client"] = <<>> /\ ~Answering
  /\ \A i \in DOMAIN modem["client"] : modem["client"][i].op = "rx"

LastTurn == IF list.left = 1 THEN <<Event("intervals_done", 0)>> ELSE <<>>
Stored == IF client.harq THEN <<Event("stored", 0)>> ELSE <<>>

SendTurn ==
  /\ Quiet
  /\ list' = [list EXCEPT !.left = @ - 1]
  /\ modem' = [modem EXCEPT !["client"] = @ \o PingOps(list.seq)]
  /\ queue' = [queue EXCEPT !["client"] = LastTurn]
  /\ UNCHANGED <<on_going, client, harq, server, tool, done, users, bounds>>

\* A turn is late, or the modem refuses it: only control is told of that.
LoseTurn ==
  /\ Quiet
  /\ list' = [list EXCEPT !.left = @ - 1]
  /\ queue' = [queue EXCEPT !["client"] = LastTurn \o Stored]
  /\ harq' = IF client.harq THEN [harq EXCEPT !.seq = list.seq] ELSE harq
  /\ May(TRUE) /\ Hitch("client")
  /\ UNCHANGED <<on_going, client, server, modem, tool, done, users>>

\* A retransmission comes before a ping that the modem has for later.
SendRetx(seq) ==
  /\ seq \in list.retx /\ list' = [list EXCEPT !.retx = @ \ {seq}]
  /\ modem' = [modem EXCEPT !["client"] = RetxOps(seq) \o @]
  /\ UNCHANGED <<on_going, client, harq, server, queue, tool, done, users, bounds>>

\* Refused, it is stored; late, it is not, since it has no callback.
LoseRetx(seq, late) ==
  /\ seq \in list.retx /\ list' = [list EXCEPT !.retx = @ \ {seq}]
  /\ queue' = [queue EXCEPT !["client"] = IF late THEN @ ELSE @ \o Stored]
  /\ Hitch("client")
  /\ UNCHANGED <<on_going, client, harq, server, modem, tool, done, users, troubles>>

SchedulerRuns ==
  \/ SendTurn \/ LoseTurn
  \/ \E seq \in list.retx : SendRetx(seq) \/ \E late \in BOOLEAN : LoseRetx(seq, late)

--------------------------------------------------------------------------------
(* The modems and the air.                                                 *)

Current(r) == Head(modem[r])
Listens(r) == modem[r] # <<>> /\ Current(r).op \notin Sends

\* The handler is ping's: the completion and, through the scheduler, the store.
Sent(op) ==
  CASE op.op = "tx" -> <<Event("tx", 0)>> \o Stored
    [] op.op = "retx" -> <<Event("retx", 0)>> \o Stored
    [] OTHER -> <<>>

\* What the other device receives; its single shot RX ends with it.
Received(op) ==
  CASE op.op \in {"tx", "retx"} -> <<Event("ping", op.seq), Event("server_rx", 0)>>
    [] op.op = "request" -> <<Event("request", 0), Event("server_rx", 0)>>
    [] op.op = "answer" -> <<Event("answer", op.seq)>>
    [] OTHER -> <<Event("results", 0)>>

Put(r, events) == IF tool[r] THEN queue[r] \o events ELSE queue[r]

\* fate: "heard", "garbled" (only the header), "lost" or not sent at all. The
\* server's modem answers a ping with HARQ by ack or nack, if that comes through.
Transmit(r, fate, feedback) ==
  LET op == Current(r)
      pinged == r = "client" /\ op.op # "request"
      answers == pinged /\ client.harq /\ feedback
      ack == Event(IF fate = "heard" THEN "ack" ELSE "nack", 0)
  IN
  /\ modem[r] # <<>> /\ op.op \in Sends /\ Len(queue[r]) <= Backlog
  /\ fate # "lost" => Listens(Other(r)) /\ tool[Other(r)]
  /\ feedback => fate # "lost"
  /\ modem' = [modem EXCEPT ![r] = Tail(@),
                 ![Other(r)] = IF r = "client" /\ fate = "heard" THEN Tail(@) ELSE @]
  /\ queue' = [queue EXCEPT
                 ![r] = Put(r, Sent(op) \o IF answers THEN <<ack>> ELSE <<>>),
                 ![Other(r)] = IF fate = "heard" THEN Put(Other(r), Received(op)) ELSE @]
  /\ harq' = IF pinged /\ client.harq THEN [harq EXCEPT !.seq = op.seq] ELSE harq
  /\ May(answers /\ fate = "garbled")
  /\ UNCHANGED <<on_going, client, list, server, tool, done, users, hitch>>

\* An RX is over; that of the server may also fail.
RxEnds(r, failed) ==
  /\ Listens(r) /\ Len(queue[r]) <= Backlog /\ (failed => r = "server")
  /\ modem' = [modem EXCEPT ![r] = Tail(@)]
  /\ queue' = [queue EXCEPT ![r] =
                 Put(r, <<Event(IF failed THEN "failed" ELSE Current(r).op, 0)>>)]
  /\ May(failed)
  /\ UNCHANGED <<on_going, client, harq, list, server, tool, done, users, hitch>>

ModemRuns(r) ==
  \/ \E fate \in {"heard", "garbled", "lost"}, feedback \in BOOLEAN : Transmit(r, fate, feedback)
  \/ \E failed \in BOOLEAN : RxEnds(r, failed)

--------------------------------------------------------------------------------
(* The client's ping thread.                                               *)

Takes(r, id) ==
  /\ queue[r] # <<>> /\ Head(queue[r]).id = id
  /\ queue' = [queue EXCEPT ![r] = Tail(@)]

Handles(r, id) == on_going[r] /\ Takes(r, id)

\* dect_phy_ping_client_report_local_results_and_req_server_results(), when the
\* results were not requested yet. The modem takes the TX and the RX, or it takes
\* the TX alone, or none.
Report(taken) ==
  /\ list' = [list EXCEPT !.left = 0]
  /\ modem' = [modem EXCEPT !["client"] = @ \o SubSeq(RequestOps, 1, taken)]
  /\ client' = [client EXCEPT !.sent = 0, !.requested = @ \/ taken = 2]
  /\ IF taken = 2 THEN UNCHANGED <<on_going, done>> ELSE CmdDone("client")
  /\ May(taken # 2)

TakeIntervalsDone ==
  /\ Takes("client", "intervals_done") /\ client' = [client EXCEPT !.intervals_done = TRUE]
  /\ UNCHANGED <<on_going, harq, list, server, modem, tool, done, users, bounds>>

\* Mutant of NextPing: the listed operation keeps its payload.
NextPing_Kept == list

\* The payload of the listed operation is updated for the next round.
NextPing ==
  IF client.intervals_done \/ list.left = 0 THEN list ELSE [list EXCEPT !.seq = client.next + 1]

\* A ping was sent or failed: both count.
TakeTx ==
  /\ Handles("client", "tx")
  /\ client' = [client EXCEPT !.sent = @ + 1, !.next = @ + 1]
  /\ list' = NextPing
  /\ UNCHANGED <<on_going, harq, server, modem, tool, done, users, bounds>>

AllSent == client.intervals_done /\ ~harq.rtx_ongoing /\ client.sent = Pings

TakeRx(taken) ==
  /\ Handles("client", "rx")
  /\ IF AllSent /\ ~client.requested THEN Report(taken)
     ELSE taken = 2 /\ UNCHANGED <<on_going, client, list, modem, done, troubles>>
  /\ UNCHANGED <<harq, server, tool, users, hitch>>

TakeRetx ==
  /\ Handles("client", "retx") /\ harq' = [harq EXCEPT !.rtx_ongoing = FALSE]
  /\ UNCHANGED <<on_going, client, list, server, modem, tool, done, users, bounds>>

\* HARQ_PAYLOAD_STORED starts a round, an ACK ends it.
TakeStored ==
  /\ Takes("client", "stored") /\ harq' = [harq EXCEPT !.in_use = TRUE]
  /\ UNCHANGED <<on_going, client, list, server, modem, tool, done, users, bounds>>

TakeAck ==
  /\ Takes("client", "ack") /\ harq' = [harq EXCEPT !.in_use = FALSE]
  /\ UNCHANGED <<on_going, client, list, server, modem, tool, done, users, bounds>>

\* Its RX is cancelled, which the ping thread does not look at.
Cancelled(ops) == IF ops # <<>> /\ Head(ops).op = "rx" THEN Tail(ops) ELSE ops

\* A NACK: the ping is sent again unless its time is over (which ends the round)
\* or the scheduler does not take it.
TakeNack(again, over) ==
  /\ Takes("client", "nack")
  /\ again => ~over
  /\ IF ~harq.in_use THEN ~again /\ ~over /\ UNCHANGED <<harq, list, modem, hitch>>
     ELSE /\ modem' = [modem EXCEPT !["client"] = Cancelled(@)]
          /\ IF again
             THEN /\ list' = [list EXCEPT !.retx = @ \cup {harq.seq}]
                  /\ harq' = [harq EXCEPT !.rtx_ongoing = TRUE]
                  /\ UNCHANGED hitch
             ELSE /\ harq' = [harq EXCEPT !.in_use = @ /\ ~over]
                  /\ Hitch("client") /\ UNCHANGED list
  /\ UNCHANGED <<on_going, client, server, tool, done, users, troubles>>

\* A ping response is only counted.
TakeAnswer ==
  /\ Handles("client", "answer")
  /\ UNCHANGED <<on_going, client, harq, list, server, modem, tool, done, users, bounds>>

\* Mutant of TakeResults: the end of the RX for them ends nothing.
TakeResults_Heard ==
  /\ \/ Handles("client", "results") /\ client' = [client EXCEPT !.requested = FALSE] /\ CmdDone("client")
     \/ Handles("client", "results_rx") /\ UNCHANGED <<client, on_going, done>>
  /\ UNCHANGED <<harq, list, server, modem, tool, users, bounds>>

\* The results, or the end of the RX for them.
TakeResults ==
  /\ \/ Handles("client", "results") /\ client' = [client EXCEPT !.requested = FALSE]
     \/ Handles("client", "results_rx") /\ UNCHANGED client
  /\ CmdDone("client")
  /\ UNCHANGED <<harq, list, server, modem, tool, users, bounds>>

ClientRuns ==
  \/ TakeIntervalsDone \/ TakeTx \/ (\E taken \in 0 .. 2 : TakeRx(taken)) \/ TakeRetx
  \/ TakeStored \/ TakeAck \/ (\E again, over \in BOOLEAN : TakeNack(again, over))
  \/ TakeAnswer \/ TakeResults

--------------------------------------------------------------------------------
(* The server's ping thread.                                               *)

\* Mutant of Answers: what the modem refused is counted too.
Answers_Refused(ops, taken) ==
  /\ May(~taken)
  /\ modem' = [modem EXCEPT !["server"] = IF taken THEN @ \o ops ELSE @]
  /\ server' = [server EXCEPT !.on_going_rx_count = @ + 1, !.heard = TRUE]

\* A TX and RX that the modem takes or refuses.
Answers(ops, taken) ==
  /\ May(~taken)
  /\ modem' = [modem EXCEPT !["server"] = IF taken THEN @ \o ops ELSE @]
  /\ server' = [server EXCEPT !.on_going_rx_count = IF taken THEN @ + 1 ELSE @, !.heard = TRUE]

TakePing(taken) ==
  /\ Handles("server", "ping") /\ Answers(AnswerOps(Head(queue["server"]).seq), taken)
  /\ UNCHANGED <<on_going, client, harq, list, tool, done, users, hitch>>

\* dect_phy_ping_server_report_local_and_tx_results()
Results(taken) ==
  IF ~server.heard THEN taken /\ UNCHANGED <<modem, server, troubles>>
  ELSE /\ May(~taken)
       /\ modem' = [modem EXCEPT !["server"] = IF taken THEN @ \o ResultOps ELSE @]
       /\ server' = [on_going_rx_count |-> server.on_going_rx_count + (IF taken THEN 1 ELSE 0),
                     heard |-> FALSE]

\* A request of the client, or of the shell's stop.
TakeRequest(taken) ==
  /\ Handles("server", "request") \/ Takes("server", "report")
  /\ Results(taken)
  /\ UNCHANGED <<on_going, client, harq, list, tool, done, users, hitch>>

Fewer(n) == IF n = 0 THEN 0 ELSE n - 1

\* dect_phy_ping_server_rx_start() of a restart: when the modem refuses it, the
\* server is not on going any more, and nobody is told.
ServerRestarts(taken) ==
  IF taken
  THEN /\ modem' = [modem EXCEPT !["server"] = Append(@, Op("server_rx", 0))]
       /\ server' = [server EXCEPT !.on_going_rx_count = 1]
       /\ UNCHANGED <<on_going, done, troubles, hitch>>
  ELSE /\ on_going' = [on_going EXCEPT !["server"] = FALSE]
       /\ server' = [server EXCEPT !.on_going_rx_count = 0]
       /\ May(TRUE) /\ Hitch("server") /\ UNCHANGED <<modem, done>>

\* An RX is over. Those still counted are younger than 62 s, so only the count matters.
TakeServerRx(taken) ==
  /\ Handles("server", "server_rx")
  /\ IF Fewer(server.on_going_rx_count) = 0 THEN ServerRestarts(taken)
     ELSE /\ server' = [server EXCEPT !.on_going_rx_count = Fewer(@)]
          /\ taken /\ UNCHANGED <<on_going, modem, done, troubles, hitch>>
  /\ UNCHANGED <<client, harq, list, tool, users>>

\* An RX failed: the server gives up if it failed fast, or another is counted.
TakeFailed(fast, taken) ==
  /\ Handles("server", "failed")
  /\ IF Fewer(server.on_going_rx_count) = 0 /\ ~fast THEN ServerRestarts(taken)
     ELSE /\ server' = [server EXCEPT !.on_going_rx_count = Fewer(@)]
          /\ taken /\ CmdDone("server") /\ UNCHANGED <<modem, troubles, hitch>>
  /\ UNCHANGED <<client, harq, list, tool, users>>

TakeCmdDone ==
  /\ Takes("server", "cmd_done") /\ CmdDone("server")
  /\ UNCHANGED <<client, harq, list, server, modem, tool, users, bounds>>

ServerRuns ==
  \/ \E taken \in BOOLEAN :
       \/ TakePing(taken) \/ TakeRequest(taken) \/ TakeServerRx(taken)
       \/ \E fast \in BOOLEAN : TakeFailed(fast, taken)
  \/ TakeCmdDone

\* Completions and data of a ping that is not on going are dropped.
Drop(r) ==
  /\ ~on_going[r] /\ queue[r] # <<>>
  /\ Head(queue[r]).id \notin {"intervals_done", "stored", "ack", "nack", "report", "cmd_done"}
  /\ queue' = [queue EXCEPT ![r] = Tail(@)]
  /\ UNCHANGED <<on_going, client, harq, list, server, modem, tool, done, users, bounds>>

--------------------------------------------------------------------------------
(* Control and the shell.                                                  *)

\* PING_CMD_DONE: operations are cancelled and control takes the modem back.
TakeDone(r) ==
  /\ done[r] /\ done' = [done EXCEPT ![r] = FALSE]
  /\ tool' = [tool EXCEPT ![r] = FALSE] /\ modem' = [modem EXCEPT ![r] = <<>>]
  /\ UNCHANGED <<on_going, client, harq, list, server, queue, users, bounds>>

\* The shell's turn, at a label of its command.
Shell(r, label, next) ==
  /\ shell[r] = label /\ queue[r] = <<>> /\ ~done[r]
  /\ shell' = [shell EXCEPT ![r] = next]

\* dect_phy_ctrl_ping_cmd(). Nobody starts a client while its last ping is sent
\* again or an answer is on its way.
StartPing(r, unlisted) ==
  /\ Shell(r, "idle", "idle") /\ ~tool[r]
  /\ r = "client" => ~Answering /\ list.retx = {}
  /\ commands < MaxCommands /\ commands' = commands + 1
  /\ tool' = [tool EXCEPT ![r] = TRUE] /\ hitch' = [hitch EXCEPT ![r] = unlisted]

\* A client that the scheduler does not take is on going all the same.
StartClient(useHarq, listed) ==
  /\ StartPing("client", ~listed)
  /\ on_going' = [on_going EXCEPT !["client"] = TRUE]
  /\ client' = [NoClient EXCEPT !.harq = useHarq, !.next = 1]
  /\ harq' = [harq EXCEPT !.in_use = FALSE, !.rtx_ongoing = FALSE]
  /\ list' = [list EXCEPT !.left = IF listed THEN Pings ELSE 0, !.seq = 1]
  /\ modem' = [modem EXCEPT !["client"] = <<>>]
  /\ May(~listed)
  /\ UNCHANGED <<server, queue, done>>

\* A server that the modem refuses is not.
StartServer(taken) ==
  /\ StartPing("server", FALSE)
  /\ on_going' = [on_going EXCEPT !["server"] = taken]
  /\ done' = [done EXCEPT !["server"] = ~taken]
  /\ server' = [NoServer EXCEPT !.on_going_rx_count = IF taken THEN 1 ELSE 0]
  /\ modem' = [modem EXCEPT !["server"] = IF taken THEN <<Op("server_rx", 0)>> ELSE <<>>]
  /\ May(~taken)
  /\ UNCHANGED <<client, harq, list, queue>>

\* dect_phy_ping_cmd_stop() finds a ping to stop; a client that has requested the
\* results already just goes on.
Stop(r) ==
  /\ Shell(r, "idle", "stop") /\ on_going[r]
  /\ r = "client" => ~client.requested
  /\ commands < MaxCommands /\ commands' = commands + 1
  /\ hitch' = [hitch EXCEPT ![r] = FALSE]
  /\ UNCHANGED <<on_going, client, harq, list, server, modem, queue, tool, done, troubles>>

\* By now the ping thread may have requested the results, or have ended the ping.
StopClient(taken) ==
  /\ Shell("client", "stop", "idle")
  /\ IF client.requested THEN taken = 2 /\ UNCHANGED <<on_going, client, list, modem, done, troubles>>
     ELSE Report(taken)
  /\ UNCHANGED <<harq, server, queue, tool, commands, hitch>>

\* The server's ping thread reports before the shell goes on.
StopServer ==
  /\ Shell("server", "stop", "report")
  /\ queue' = [queue EXCEPT !["server"] = Append(@, Event("report", 0))]
  /\ UNCHANGED <<on_going, client, harq, list, server, modem, tool, done, commands, bounds>>

StopServerEnds ==
  /\ Shell("server", "report", "idle")
  /\ server' = [server EXCEPT !.on_going_rx_count = Fewer(@)]
  /\ queue' = [queue EXCEPT !["server"] = Append(@, Event("cmd_done", 0))]
  /\ UNCHANGED <<on_going, client, harq, list, modem, tool, done, commands, bounds>>

ShellGoesOn(r) ==
  \/ r = "client" /\ \E taken \in 0 .. 2 : StopClient(taken)
  \/ r = "server" /\ (StopServer \/ StopServerEnds)

User ==
  \/ \E useHarq, listed \in BOOLEAN : StartClient(useHarq, listed)
  \/ \E taken \in BOOLEAN : StartServer(taken)
  \/ \E r \in Roles : Stop(r)

Device(r) ==
  \/ Drop(r) \/ TakeDone(r) \/ ShellGoesOn(r)
  \/ r = "client" /\ ClientRuns
  \/ r = "server" /\ ServerRuns

PingNext == User \/ SchedulerRuns \/ \E r \in Roles : Device(r) \/ ModemRuns(r)

PingSpec == PingInit /\ [][PingNext]_vars

\* The kernel runs ready threads, the scheduler comes to every listed operation,
\* the modem performs what it took. The ping thread starves no shell: what it does
\* takes milliseconds, the receptions in between take seconds.
PingFairness ==
  /\ WF_vars(SchedulerRuns)
  /\ \A r \in Roles : WF_vars(Device(r)) /\ SF_vars(ShellGoesOn(r)) /\ WF_vars(ModemRuns(r))
FairPingSpec == PingSpec /\ PingFairness

--------------------------------------------------------------------------------
(* Properties.                                                             *)

\* A client ends by itself after its pings, and whoever is stopped ends: no lost
\* ping, failed RX, retransmission or refused request holds it up for ever.
PingEnds ==
  /\ on_going["client"] ~> ~on_going["client"] \/ hitch["client"]
  /\ shell["server"] # "idle" ~> ~on_going["server"]

\* The server that is on going listens, or is just about to handle the end of an RX:
\* whatever completes, fails or is refused, it never waits with its modem deaf.
ServerListens ==
  on_going["server"] =>
    \/ \E i \in DOMAIN modem["server"] : modem["server"][i].op = "server_rx"
    \/ \E i \in DOMAIN queue["server"] : queue["server"][i].id \in {"server_rx", "failed", "cmd_done"}

\* Control has lent its modem exactly to a ping that is on going or about to be
\* handed back: nobody can start over a running ping, and after it everybody can.
ToolAgrees ==
  \A r \in Roles :
    /\ on_going[r] => tool[r]
    /\ tool[r] => on_going[r] \/ done[r] \/ hitch[r]

\* The answers the client takes are to its latest ping: the sequence numbers in the
\* listed operation, in the stored copy and on the server never get out of step.
InStep ==
  on_going["client"] /\ queue["client"] # <<>> /\ Head(queue["client"]).id = "answer" =>
    Head(queue["client"]).seq = client.next - 1
================================================================================
