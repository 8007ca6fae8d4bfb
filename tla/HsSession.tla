------------------------------- MODULE HsSession -------------------------------
(***************************************************************************)
(* The HS-DECT application: the modem sessions of hs_core/core.c and the   *)
(* threads that use them: hs_hello/hello.c, hs_ping/ping.c, hs_ping/fping.c*)
(* and the shell (mac_send_text()). Every call into the modem is answered  *)
(* by an event, and all the threads wait for their events with the same    *)
(* binary semaphore operation_sem, those that close with deinit_sem.       *)
(*                                                                         *)
(* A thread is at the call it makes next, or waits for the event of that   *)
(* call. "top" is the condition of its loop, "shutdown" the last call of   *)
(* dect_session_close().                                                   *)
(***************************************************************************)
EXTENDS Naturals, FiniteSets

CONSTANTS
  Jobs,       \* what the user starts, of AllJobs
  Refused,    \* calls that may return an error at once
  Failed,     \* session requests whose event may carry an error
  Restarts,   \* TRUE: a thread may be started before it has ended
  MaxStarts   \* bound: jobs started

Threads == {"hello", "ping", "fping", "shell"}
JobsOf ==
  [hello |-> {"hello_tx", "hello_rx"}, ping |-> {"ping_client", "ping_server"},
   fping |-> {"fping_client", "fping_server"}, shell |-> {"mac_send"}]
AllJobs == UNION {JobsOf[t] : t \in Threads}

OpenCalls == {"init", "configure", "activate"}
CloseCalls == {"deactivate", "deinit"}
Calls == OpenCalls \cup CloseCalls \cup {"tx", "rx"}

ASSUME HsSessionAssumption ==
  /\ Jobs \subseteq AllJobs
  /\ Refused \subseteq Calls /\ Failed \subseteq OpenCalls \cup CloseCalls
  /\ Restarts \in BOOLEAN /\ MaxStarts \in Nat

VARIABLES
  thread,   \* of each thread: its job, where it is, and whether it waits there
  running,  \* hello_running, ping_running, fping_running
  sem,      \* operation_sem and deinit_sem
  exit,     \* a session request has failed
  lib,      \* nrf_modem_lib is initialised
  pending,  \* calls the modem has not answered
  starts    \* jobs started

vars == <<thread, running, sem, exit, lib, pending, starts>>

Idle == [job |-> "none", at |-> "end", waits |-> FALSE]
Live(t) == thread[t].at # "end"

\* The semaphore the event of a call gives and its thread takes.
SemOf(call) == IF call \in CloseCalls THEN "deinit" ELSE "operation"

Init ==
  /\ thread = [t \in Threads |-> Idle]
  /\ running = [t \in Threads |-> FALSE]
  /\ sem = [operation |-> 0, deinit |-> 0]
  /\ exit = FALSE /\ lib = FALSE /\ pending = {} /\ starts = 0

--------------------------------------------------------------------------------
(* The threads.                                                            *)

\* The file comparison uses the modem without opening a session.
HasSession(job) == job \notin {"fping_client", "fping_server"}

FirstCall(job) ==
  IF HasSession(job) THEN "init" ELSE IF job = "fping_client" THEN "tx" ELSE "rx"

\* Where a loop goes; a transmitting client also ends when its count is sent.
FromTop(job, on) ==
  IF ~on /\ job # "mac_send" THEN {"deactivate"}
  ELSE IF job \in {"hello_rx", "ping_server"} THEN {"rx"}
  ELSE IF job = "ping_client" THEN {"tx", "deactivate"}
  ELSE {"tx"}

\* Where a thread goes after the event of its call.
After(job, call) ==
  CASE call = "init" -> {"configure"}
    [] call = "configure" -> {"activate"}
    [] call = "activate" -> {"top"}
    [] call = "deactivate" -> {"deinit"}
    [] call = "deinit" -> {"shutdown"}
    [] job = "hello_tx" -> {"top", "deactivate"}
    [] job = "mac_send" -> {"deactivate"}
    [] job = "ping_client" /\ call = "tx" -> {"rx"}
    [] job = "ping_server" /\ call = "rx" -> {"tx"}
    [] job = "fping_client" -> {"tx", "end"}
    [] job = "fping_server" -> {"rx"}
    [] OTHER -> {"top"}

\* The callers that do not look at the result wait for an event all the same.
Ignores(job, call) ==
  ~HasSession(job) \/ (job \in {"ping_client", "ping_server"} /\ call = "tx")

\* Mutant of AfterRefusal: a failed reception is waited for.
AfterRefusal_Stays(job, call) == call

\* Where a thread goes when its call is refused.
AfterRefusal(job, call) ==
  IF call \in OpenCalls \cup CloseCalls THEN "end"
  ELSE IF job = "ping_client" THEN "top" ELSE "deactivate"

\* The flags when thread t ends at call. A server of ping clears its flag only
\* when the session cannot be opened, the file comparison never.
Cleared(t, call) ==
  IF t = "hello" \/ (t = "ping" /\ (thread[t].job = "ping_client" \/ call \in OpenCalls))
  THEN [running EXCEPT ![t] = FALSE] ELSE running

\* Thread t goes on at label next.
Goes(t, next) ==
  IF next = "end"
  THEN /\ thread' = [thread EXCEPT ![t] = Idle]
       /\ running' = Cleared(t, thread[t].at)
  ELSE /\ thread' = [thread EXCEPT ![t].at = next, ![t].waits = FALSE]
       /\ UNCHANGED running

Top(t) ==
  /\ thread[t].at = "top"
  /\ \E next \in FromTop(thread[t].job, running[t]) : Goes(t, next)
  /\ UNCHANGED <<sem, exit, lib, pending, starts>>

AtCall(t) == thread[t].at \in Calls /\ ~thread[t].waits

\* Mutant of LibBusy: the error of nrf_modem_lib_init() is not looked at.
LibBusy_Never(call) == FALSE

\* nrf_modem_lib_init() of a library that is initialised is an error.
LibBusy(call) == call = "init" /\ lib

\* A call is taken by the modem. "init" is nrf_modem_lib_init() and
\* nrf_modem_dect_phy_init().
Call(t) ==
  LET call == thread[t].at IN
  /\ AtCall(t) /\ ~LibBusy(call)
  /\ call = "init" \/ lib
  /\ lib' = TRUE
  /\ pending' = pending \cup {[thread |-> t, call |-> call]}
  /\ thread' = [thread EXCEPT ![t].waits = TRUE]
  /\ UNCHANGED <<running, sem, exit, starts>>

\* A call returns an error.
CallRefused(t) ==
  LET call == thread[t].at IN
  /\ AtCall(t)
  /\ call \in Refused \/ LibBusy(call) \/ (call # "init" /\ ~lib)
  /\ IF Ignores(thread[t].job, call)
     THEN thread' = [thread EXCEPT ![t].waits = TRUE] /\ UNCHANGED running
     ELSE Goes(t, AfterRefusal(thread[t].job, call))
  /\ lib' \in {lib, lib \/ call = "init"}   \* which of the two "init" calls failed
  /\ UNCHANGED <<sem, exit, pending, starts>>

\* Mutant of Take: the wait has a timeout, and its result is not looked at.
Take_TimesOut(t) ==
  LET call == thread[t].at s == SemOf(call) IN
  /\ thread[t].waits
  /\ sem' = [sem EXCEPT ![s] = 0]
  /\ \E next \in After(thread[t].job, call) : Goes(t, next)
  /\ UNCHANGED <<exit, lib, pending, starts>>

\* k_sem_take(K_FOREVER) returns. After a request of dect_session_open() the
\* exit flag is looked at.
Take(t) ==
  LET call == thread[t].at s == SemOf(call) IN
  /\ thread[t].waits /\ sem[s] = 1
  /\ sem' = [sem EXCEPT ![s] = 0]
  /\ IF call \in OpenCalls /\ exit THEN Goes(t, "end")
     ELSE \E next \in After(thread[t].job, call) : Goes(t, next)
  /\ UNCHANGED <<exit, lib, pending, starts>>

\* nrf_modem_lib_shutdown(); the modem forgets what it has not answered.
Shutdown(t) ==
  /\ thread[t].at = "shutdown"
  /\ lib' = FALSE /\ pending' = {}
  /\ Goes(t, "end")
  /\ UNCHANGED <<sem, exit, starts>>

--------------------------------------------------------------------------------
(* The modem: dect_phy_event_handler().                                    *)

\* on_init() .. on_op_complete(): the event of a call gives its semaphore,
\* unless a session request has failed.
Event(p, ok) ==
  /\ p \in pending
  /\ ok \/ p.call \in Failed
  /\ pending' = pending \ {p}
  /\ sem' = IF ok THEN [sem EXCEPT ![SemOf(p.call)] = 1] ELSE sem
  /\ exit' = (exit \/ (~ok /\ p.call \in {"init", "activate"}))
  /\ UNCHANGED <<thread, running, lib, starts>>

--------------------------------------------------------------------------------
(* The shell thread, which mac_send_text() occupies.                       *)

\* cmd_hello_start(), ping_start_*(), fping_*_start(), cmd_mac_mes(). Creating
\* a thread that has not ended starts it over.
Start(t, job) ==
  /\ ~Live("shell") /\ starts < MaxStarts
  /\ job \in JobsOf[t] \cap Jobs /\ ~running[t]
  /\ Restarts \/ ~Live(t)
  /\ thread' = [thread EXCEPT ![t] = [job |-> job, at |-> FirstCall(job), waits |-> FALSE]]
  /\ running' = [running EXCEPT ![t] = (t # "shell")]
  /\ starts' = starts + 1
  /\ UNCHANGED <<sem, exit, lib, pending>>

\* cmd_hello_stop(); cmd_ping_stop() is for ping and fping.
Stop(S) ==
  /\ ~Live("shell")
  /\ \E t \in S : running[t]
  /\ running' = [t \in Threads |-> running[t] /\ t \notin S]
  /\ UNCHANGED <<thread, sem, exit, lib, pending, starts>>

Run(t) == Top(t) \/ Call(t) \/ CallRefused(t) \/ Take(t) \/ Shutdown(t)
Modem == \E p \in pending, ok \in BOOLEAN : Event(p, ok)
User ==
  \/ \E t \in Threads, job \in Jobs : Start(t, job)
  \/ Stop({"hello"}) \/ Stop({"ping", "fping"})

Next == Modem \/ User \/ \E t \in Threads : Run(t)

Spec == Init /\ [][Next]_vars

\* Threads run and the modem answers; the user need not do anything.
Fairness == WF_vars(Modem) /\ \A t \in Threads : WF_vars(Run(t))
FairSpec == Spec /\ Fairness

--------------------------------------------------------------------------------
(* Properties.                                                             *)

InSession(t) ==
  /\ Live(t) /\ HasSession(thread[t].job)
  /\ thread[t].at # "init" \/ thread[t].waits

\* Two threads are never in a session together, though nothing in the
\* application keeps hello, ping and a message of the shell apart.
SessionsExclude == \A t, u \in Threads : InSession(t) /\ InSession(u) => t = u

\* A thread that goes on has the answer to its own call: no event of another
\* call, thread or earlier session is taken for it, and a session leaves no event, no
\* call and no given semaphore to the next one.
OwnCompletion ==
  /\ \A p \in pending : thread[p.thread].waits /\ thread[p.thread].at = p.call
  /\ \A s \in DOMAIN sem : sem[s] = 1 =>
       \E t \in Threads : thread[t].waits /\ SemOf(thread[t].at) = s
                          /\ \A p \in pending : p.thread # t
  /\ ~lib => pending = {} /\ \A s \in DOMAIN sem : sem[s] = 0

\* "Stop": a thread whose flag is cleared ends.
StopStops == \A t \in {"hello", "ping", "fping"} : ~running[t] ~> ~Live(t) \/ running[t]

\* dect_session_open() returns, with an error when a request has failed.
OpenReturns ==
  \A t \in Threads : thread[t].at \in OpenCalls ~> thread[t].at \notin OpenCalls
================================================================================
