----------------------------- MODULE HsSessionProofs -----------------------------
(***************************************************************************)
(* Proofs about HsSession, for any jobs that open a session, any calls     *)
(* that are refused, any requests that fail and any number of starts, as   *)
(* long as no thread is started before it has ended: two threads are never *)
(* in a session together, and a thread goes on with its own event.         *)
(***************************************************************************)
EXTENDS HsSession, TLAPS

\* The file comparison is not started, and no thread is created while it runs.
Regular == ~Restarts /\ \A job \in Jobs : HasSession(job)

Places == Calls \cup {"top", "shutdown", "end"}
Names == AllJobs \cup {"none"}

Typed ==
  /\ thread \in [Threads -> [job : Names, at : Places, waits : BOOLEAN]]
  /\ \A t \in Threads : thread[t].waits => thread[t].at \in Calls
  /\ \A t \in Threads : Live(t) => HasSession(thread[t].job)
  /\ sem \in [{"operation", "deinit"} -> {0, 1}]
  /\ lib \in BOOLEAN
  /\ pending \subseteq [thread : Threads, call : Calls]

\* The library is initialised during a session. "init" returns an error while it is.
InLib == \A t \in Threads : InSession(t) => lib

\* A call that the modem has not answered is the one its thread waits at.
PendingOwn == \A p \in pending : thread[p.thread].waits /\ thread[p.thread].at = p.call

\* A given semaphore is for a thread whose call was answered.
GivenOwn ==
  \A s \in {"operation", "deinit"} : sem[s] = 1 =>
    \E t \in Threads : thread[t].waits /\ SemOf(thread[t].at) = s
                       /\ \A p \in pending : p.thread # t

HsInv == Typed /\ SessionsExclude /\ InLib /\ PendingOwn /\ GivenOwn

LEMMA HsInitially == Init => HsInv
<1> SUFFICES ASSUME Init PROVE HsInv
  OBVIOUS
<1>1. \A t \in Threads : thread[t] = Idle /\ ~Live(t) /\ ~InSession(t)
  BY DEF Init, Idle, Live, InSession
<1>2. Typed
  <2>1. sem \in [{"operation", "deinit"} -> {0, 1}]
    BY DEF Init
  <2>2. /\ thread \in [Threads -> [job : Names, at : Places, waits : BOOLEAN]]
        /\ \A t \in Threads : ~thread[t].waits
    BY <1>1 DEF Init, Idle, Names, Places
  <2> QED
    BY <1>1, <2>1, <2>2 DEF Init, Typed
<1>3. SessionsExclude /\ InLib /\ PendingOwn /\ GivenOwn
  BY <1>1 DEF Init, SessionsExclude, InLib, PendingOwn, GivenOwn
<1> QED
  BY <1>2, <1>3 DEF HsInv

\* A thread that waits is in a session.
LEMMA WaitsInSession ==
  ASSUME Typed, NEW t \in Threads, thread[t].waits
  PROVE  InSession(t) /\ Live(t) /\ thread[t].at \in Calls
BY DEF Typed, InSession, Live, Calls, OpenCalls, CloseCalls

\* Where a thread may go is a place.
LEMMA PlacesReached ==
  ASSUME NEW job, NEW call \in Calls, NEW on
  PROVE  /\ After(job, call) \subseteq Places
         /\ FromTop(job, on) \subseteq Places \ {"end", "init"}
         /\ AfterRefusal(job, call) \in Places
         /\ "init" \notin After(job, call) /\ AfterRefusal(job, call) # "init"
BY DEF After, FromTop, AfterRefusal, Places, Calls, OpenCalls, CloseCalls

\* When a thread is nowhere in a call of the modem, and only it may be in a session,
\* then nothing is pending and no semaphore is given.
LEMMA NothingUnderWay ==
  ASSUME HsInv, NEW t \in Threads, ~thread[t].waits,
         \A u \in Threads : InSession(u) => u = t
  PROVE  /\ pending = {} /\ \A s \in {"operation", "deinit"} : sem[s] = 0
         /\ \A u \in Threads : ~thread[u].waits
<1>1. \A u \in Threads : ~thread[u].waits
  BY WaitsInSession DEF HsInv
<1>2. pending = {}
  BY <1>1 DEF HsInv, Typed, PendingOwn
<1>3. \A s \in {"operation", "deinit"} : sem[s] = 0
  BY <1>1 DEF HsInv, Typed, GivenOwn
<1> QED
  BY <1>1, <1>2, <1>3

\* A thread goes from one place of its session to the next, or ends: the others are
\* where they were.
LEMMA GoesKeeps ==
  ASSUME Typed, NEW t \in Threads, NEW next \in Places, next # "init", Goes(t, next), Live(t)
  PROVE  /\ thread' \in [Threads -> [job : Names, at : Places, waits : BOOLEAN]]
         /\ ~thread'[t].waits
         /\ \A u \in Threads \ {t} : thread'[u] = thread[u]
         /\ Live(t)' => thread'[t].job = thread[t].job
<1>1. CASE next = "end"
  <2>1. thread' = [thread EXCEPT ![t] = Idle]
    BY <1>1 DEF Goes
  <2> QED
    BY <2>1 DEF Typed, Idle, Names, Places, Live
<1>2. CASE next # "end"
  <2>1. thread' = [thread EXCEPT ![t].at = next, ![t].waits = FALSE]
    BY <1>2 DEF Goes
  <2>2. thread'[t] = [thread[t] EXCEPT !.at = next, !.waits = FALSE]
    BY <2>1 DEF Typed
  <2>3. /\ thread'[t].at = next /\ thread'[t].waits = FALSE /\ thread'[t].job = thread[t].job
        /\ thread'[t] \in [job : Names, at : Places, waits : BOOLEAN]
    BY <2>2 DEF Typed
  <2> QED
    BY <2>1, <2>3 DEF Typed
<1> QED
  BY <1>1, <1>2

\* Only one thread changes its place; the rest of the state is as before.
Moves(t) ==
  /\ thread' \in [Threads -> [job : Names, at : Places, waits : BOOLEAN]]
  /\ \A u \in Threads \ {t} : thread'[u] = thread[u]
  /\ thread'[t].waits => thread'[t].at \in Calls
  /\ Live(t)' => HasSession(thread'[t].job)

\* A thread in a session goes on in it or ends, with nothing pending and no semaphore
\* given.
LEMMA SessionGoesOn ==
  ASSUME HsInv, NEW t \in Threads, InSession(t), Moves(t), ~thread'[t].waits,
         pending' = {}, sem' \in [{"operation", "deinit"} -> {0, 1}],
         \A s \in {"operation", "deinit"} : sem'[s] = 0,
         lib' \in BOOLEAN, InSession(t)' => lib'
  PROVE  HsInv'
<1>1. \A u \in Threads : InSession(u) => u = t
  BY DEF HsInv, SessionsExclude
<1>2. \A u \in Threads \ {t} : ~InSession(u)'
  BY <1>1 DEF Moves, InSession, Live
<1>3. Typed'
  BY DEF HsInv, Typed, Moves, Live
<1>4. SessionsExclude' /\ InLib'
  BY <1>2 DEF SessionsExclude, InLib
<1>5. PendingOwn' /\ GivenOwn'
  BY DEF PendingOwn, GivenOwn
<1> QED
  BY <1>3, <1>4, <1>5 DEF HsInv

LEMMA TopKeeps ==
  ASSUME HsInv, NEW t \in Threads, Top(t)
  PROVE  HsInv'
<1>1. /\ thread[t].at = "top" /\ Live(t) /\ ~thread[t].waits
      /\ InSession(t) /\ Typed /\ HasSession(thread[t].job)
  BY DEF Top, HsInv, Typed, Live, InSession, Calls, OpenCalls, CloseCalls
<1>2. PICK next \in FromTop(thread[t].job, running[t]) : Goes(t, next)
  BY DEF Top
<1>3. next \in Places /\ next # "init" /\ next # "end"
  BY <1>2 DEF FromTop, Places, Calls, OpenCalls, CloseCalls
<1>4. Moves(t) /\ ~thread'[t].waits
  BY <1>1, <1>2, <1>3, GoesKeeps DEF Moves
<1>5. /\ pending = {} /\ \A s \in {"operation", "deinit"} : sem[s] = 0
  BY <1>1, NothingUnderWay DEF HsInv, SessionsExclude
<1>6. lib /\ pending' = pending /\ sem' = sem /\ lib' = lib
  BY <1>1 DEF HsInv, InLib, Top
<1> QED
  BY <1>1, <1>4, <1>5, <1>6, SessionGoesOn DEF HsInv, Typed

LEMMA ShutdownKeeps ==
  ASSUME HsInv, NEW t \in Threads, Shutdown(t)
  PROVE  HsInv'
<1>1. /\ thread[t].at = "shutdown" /\ Live(t) /\ ~thread[t].waits
      /\ InSession(t) /\ Typed /\ HasSession(thread[t].job)
  BY DEF Shutdown, HsInv, Typed, Live, InSession, Calls, OpenCalls, CloseCalls
<1>2. Goes(t, "end") /\ "end" \in Places
  BY DEF Shutdown, Places
<1>3. thread' = [thread EXCEPT ![t] = Idle]
  BY <1>2 DEF Goes
<1>4. ~Live(t)' /\ ~InSession(t)'
  BY <1>1, <1>3 DEF Typed, Live, InSession, Idle
<1>5. Moves(t) /\ ~thread'[t].waits
  BY <1>1, <1>2, <1>4, GoesKeeps DEF Moves
<1>6. \A s \in {"operation", "deinit"} : sem[s] = 0
  BY <1>1, NothingUnderWay DEF HsInv, SessionsExclude
<1>7. pending' = {} /\ sem' = sem /\ lib' = FALSE
  BY DEF Shutdown
<1> QED
  BY <1>1, <1>4, <1>5, <1>6, <1>7, SessionGoesOn DEF HsInv, Typed

\* The modem takes a call only from a thread that is in the session, or as the first
\* one when nobody is.
LEMMA CallKeeps ==
  ASSUME HsInv, NEW t \in Threads, Call(t)
  PROVE  HsInv'
<1> DEFINE call == thread[t].at
<1>1. /\ call \in Calls /\ ~thread[t].waits /\ Typed /\ Live(t) /\ HasSession(thread[t].job)
  BY DEF Call, AtCall, HsInv, Typed, Live, Calls, OpenCalls, CloseCalls
<1>2. \A u \in Threads : InSession(u) => u = t
  <2>1. CASE call = "init"
    BY <2>1 DEF Call, LibBusy, HsInv, InLib
  <2>2. CASE call # "init"
    BY <1>1, <2>2 DEF InSession, HsInv, SessionsExclude
  <2> QED
    BY <2>1, <2>2
<1>3. pending = {} /\ \A s \in {"operation", "deinit"} : sem[s] = 0
  BY <1>1, <1>2, NothingUnderWay
<1>4. /\ thread' = [thread EXCEPT ![t].waits = TRUE] /\ lib' = TRUE /\ sem' = sem
      /\ pending' = {[thread |-> t, call |-> call]}
  BY <1>3 DEF Call
<1>5. /\ thread' \in [Threads -> [job : Names, at : Places, waits : BOOLEAN]]
      /\ thread'[t].waits /\ thread'[t].at = call /\ thread'[t].job = thread[t].job
      /\ \A u \in Threads \ {t} : thread'[u] = thread[u]
  BY <1>1, <1>4 DEF Typed
<1> HIDE DEF call
<1>6. Typed'
  BY <1>1, <1>4, <1>5 DEF Typed, Live
<1>7. SessionsExclude' /\ InLib'
  BY <1>2, <1>4, <1>5 DEF SessionsExclude, InLib, InSession, Live
<1>8. PendingOwn' /\ GivenOwn'
  BY <1>3, <1>4, <1>5 DEF PendingOwn, GivenOwn
<1> QED
  BY <1>6, <1>7, <1>8 DEF HsInv

\* A refused call leaves the session, or ends it, or is waited for without end.
LEMMA CallRefusedKeeps ==
  ASSUME HsInv, NEW t \in Threads, CallRefused(t)
  PROVE  HsInv'
<1> DEFINE call == thread[t].at
<1>1. /\ call \in Calls /\ ~thread[t].waits /\ Typed /\ Live(t) /\ HasSession(thread[t].job)
  BY DEF CallRefused, AtCall, HsInv, Typed, Live, Calls, OpenCalls, CloseCalls
<1>2. /\ pending' = pending /\ sem' = sem /\ lib' \in BOOLEAN /\ (lib => lib')
  BY <1>1 DEF CallRefused, Typed
<1>3. /\ Moves(t) /\ (InSession(t)' => InSession(t))
  <2>1. CASE Ignores(thread[t].job, call)
    <3>1. call = "tx"
      BY <1>1, <2>1 DEF Ignores
    <3>2. thread' = [thread EXCEPT ![t].waits = TRUE]
      BY <2>1 DEF CallRefused
    <3>3. /\ thread' \in [Threads -> [job : Names, at : Places, waits : BOOLEAN]]
          /\ thread'[t].at = call /\ thread'[t].job = thread[t].job
          /\ \A u \in Threads \ {t} : thread'[u] = thread[u]
      BY <1>1, <3>2 DEF Typed
    <3> QED
      BY <1>1, <3>1, <3>3 DEF Moves, InSession, Live
  <2>2. CASE ~Ignores(thread[t].job, call)
    <3> DEFINE next == AfterRefusal(thread[t].job, call)
    <3>1. Goes(t, next) /\ next \in Places /\ next # "init"
      BY <1>1, <2>2, PlacesReached DEF CallRefused
    <3>2. Moves(t)
      BY <1>1, <3>1, GoesKeeps DEF Moves
    <3>3. ASSUME call = "init" PROVE ~InSession(t)'
      <4>1. next = "end"
        BY <3>3 DEF AfterRefusal, OpenCalls
      <4>2. thread' = [thread EXCEPT ![t] = Idle]
        BY <3>1, <4>1 DEF Goes
      <4> QED
        BY <1>1, <4>2 DEF Typed, Idle, InSession, Live
    <3>4. ASSUME call # "init" PROVE InSession(t)
      BY <1>1, <3>4 DEF InSession
    <3> QED
      BY <3>2, <3>3, <3>4
  <2> QED
    BY <2>1, <2>2
<1> HIDE DEF call
<1>4. \A u \in Threads : InSession(u)' => InSession(u)
  BY <1>3 DEF Moves, InSession, Live
<1>5. Typed'
  BY <1>1, <1>2, <1>3 DEF Typed, Moves, Live
<1>6. SessionsExclude' /\ InLib'
  BY <1>2, <1>4 DEF HsInv, SessionsExclude, InLib
<1>7. \A u \in Threads : thread[u].waits => u # t /\ thread'[u] = thread[u]
  BY <1>1, <1>3 DEF Moves
<1>8. PendingOwn'
  BY <1>2, <1>7 DEF HsInv, PendingOwn, Typed
<1>9. GivenOwn'
  BY <1>2, <1>7 DEF HsInv, GivenOwn
<1> QED
  BY <1>5, <1>6, <1>8, <1>9 DEF HsInv

\* The semaphore that ends a wait was given for it.
LEMMA TakeKeeps ==
  ASSUME HsInv, NEW t \in Threads, Take(t)
  PROVE  HsInv'
<1> DEFINE call == thread[t].at
<1> DEFINE s == SemOf(call)
<1>1. /\ thread[t].waits /\ Typed /\ InSession(t) /\ Live(t) /\ call \in Calls
      /\ HasSession(thread[t].job) /\ s \in {"operation", "deinit"} /\ sem[s] = 1
  BY WaitsInSession DEF Take, HsInv, Typed, SemOf
<1>2. \A u \in Threads : InSession(u) => u = t
  BY <1>1 DEF HsInv, SessionsExclude
<1>3. \A u \in Threads : thread[u].waits => u = t
  BY <1>1, <1>2, WaitsInSession
<1>4. \A p \in pending : p.thread # t
  BY <1>1, <1>3 DEF HsInv, GivenOwn
<1>5. pending = {}
  BY <1>1, <1>3, <1>4 DEF HsInv, PendingOwn, Typed
<1>6. \A r \in {"operation", "deinit"} \ {s} : sem[r] = 0
  BY <1>1, <1>3 DEF HsInv, GivenOwn, Typed
<1>7. /\ sem' = [sem EXCEPT ![s] = 0] /\ pending' = {} /\ lib' = lib
  BY <1>5 DEF Take
<1>8. /\ sem' \in [{"operation", "deinit"} -> {0, 1}]
      /\ \A r \in {"operation", "deinit"} : sem'[r] = 0
  BY <1>1, <1>6, <1>7 DEF Typed
<1>9. PICK next \in Places : next # "init" /\ Goes(t, next)
  <2>1. CASE call \in OpenCalls /\ exit
    BY <2>1 DEF Take, Places
  <2>2. CASE ~(call \in OpenCalls /\ exit)
    <3>1. PICK next \in After(thread[t].job, call) : Goes(t, next)
      BY <2>2 DEF Take
    <3> QED
      BY <1>1, <3>1, PlacesReached
  <2> QED
    BY <2>1, <2>2
<1>10. Moves(t) /\ ~thread'[t].waits
  BY <1>1, <1>9, GoesKeeps DEF Moves
<1>11. lib /\ lib' \in BOOLEAN
  BY <1>1, <1>7 DEF HsInv, InLib
<1> QED
  BY <1>1, <1>7, <1>8, <1>10, <1>11, SessionGoesOn

\* An event gives the semaphore its thread waits for.
LEMMA EventKeeps ==
  ASSUME HsInv, NEW p \in pending, NEW ok \in BOOLEAN, Event(p, ok)
  PROVE  HsInv'
<1> DEFINE t == p.thread
<1>1. /\ Typed /\ t \in Threads /\ p.call \in Calls
      /\ thread[t].waits /\ thread[t].at = p.call /\ InSession(t)
  BY WaitsInSession DEF HsInv, Typed, PendingOwn
<1>2. \A u \in Threads : thread[u].waits => u = t
  BY <1>1, WaitsInSession DEF HsInv, SessionsExclude
<1>3. pending = {p}
  <2> SUFFICES ASSUME NEW q \in pending PROVE q = p
    OBVIOUS
  <2>1. q.thread = t /\ q.call = p.call
    BY <1>1, <1>2 DEF HsInv, PendingOwn, Typed
  <2> QED
    BY <2>1 DEF HsInv, Typed
<1>4. \A s \in {"operation", "deinit"} : sem[s] = 0
  BY <1>1, <1>2 DEF HsInv, GivenOwn, Typed
<1>5. /\ thread' = thread /\ lib' = lib /\ pending' = {}
      /\ sem' = IF ok THEN [sem EXCEPT ![SemOf(p.call)] = 1] ELSE sem
  BY <1>3 DEF Event
<1>6. SemOf(p.call) \in {"operation", "deinit"}
  BY DEF SemOf
<1>7. Typed'
  BY <1>1, <1>5, <1>6 DEF Typed, Live
<1>8. SessionsExclude' /\ InLib'
  BY <1>5 DEF HsInv, SessionsExclude, InLib, InSession, Live
<1>9. PendingOwn'
  BY <1>5 DEF PendingOwn
<1>10. GivenOwn'
  <2> SUFFICES ASSUME NEW s \in {"operation", "deinit"}, sem'[s] = 1
               PROVE  \E u \in Threads : thread[u].waits /\ SemOf(thread[u].at) = s
    BY <1>5 DEF GivenOwn
  <2>1. s = SemOf(p.call)
    BY <1>1, <1>4, <1>5, <1>6 DEF Typed
  <2> QED
    BY <1>1, <2>1
<1> QED
  BY <1>7, <1>8, <1>9, <1>10 DEF HsInv

\* A thread starts outside of a session.
LEMMA StartKeeps ==
  ASSUME Regular, HsInv, NEW t \in Threads, NEW job \in Jobs, Start(t, job)
  PROVE  HsInv'
<1>1. Typed /\ ~Live(t) /\ ~thread[t].waits /\ HasSession(job) /\ job \in Names
  BY DEF Start, Regular, HsInv, Typed, Live, Names, AllJobs, Calls, OpenCalls, CloseCalls
<1>2. /\ thread' = [thread EXCEPT ![t] = [job |-> job, at |-> "init", waits |-> FALSE]]
      /\ sem' = sem /\ lib' = lib /\ pending' = pending
  BY <1>1 DEF Start, FirstCall
<1>3. /\ thread' \in [Threads -> [job : Names, at : Places, waits : BOOLEAN]]
      /\ thread'[t] = [job |-> job, at |-> "init", waits |-> FALSE]
      /\ \A u \in Threads \ {t} : thread'[u] = thread[u]
  BY <1>1, <1>2 DEF Typed, Places, Calls, OpenCalls
<1>4. ~InSession(t)' /\ \A u \in Threads : InSession(u)' => InSession(u)
  BY <1>3 DEF InSession, Live
<1>5. Typed'
  BY <1>1, <1>2, <1>3 DEF Typed, Live
<1>6. SessionsExclude' /\ InLib'
  BY <1>2, <1>4 DEF HsInv, SessionsExclude, InLib
<1>7. \A u \in Threads : thread[u].waits => thread'[u] = thread[u]
  BY <1>1, <1>3
<1>8. PendingOwn' /\ GivenOwn'
  BY <1>2, <1>7 DEF HsInv, PendingOwn, GivenOwn, Typed
<1> QED
  BY <1>5, <1>6, <1>8 DEF HsInv

LEMMA HsInductive ==
  ASSUME Regular, HsInv, [Next]_vars
  PROVE  HsInv'
<1>1. CASE Modem
  BY <1>1, EventKeeps DEF Modem
<1>2. CASE User
  <2>1. ASSUME NEW t \in Threads, NEW job \in Jobs, Start(t, job)
        PROVE  HsInv'
    BY <2>1, StartKeeps
  <2>2. ASSUME NEW S, Stop(S)
        PROVE  HsInv'
    BY <2>2 DEF Stop, HsInv, Typed, SessionsExclude, InLib, PendingOwn, GivenOwn, InSession, Live
  <2> QED
    BY <1>2, <2>1, <2>2 DEF User
<1>3. ASSUME NEW t \in Threads, Run(t)
      PROVE  HsInv'
  BY <1>3, TopKeeps, CallKeeps, CallRefusedKeeps, TakeKeeps, ShutdownKeeps DEF Run
<1>4. CASE UNCHANGED vars
  BY <1>4 DEF vars, HsInv, Typed, SessionsExclude, InLib, PendingOwn, GivenOwn, InSession, Live
<1> QED
  BY <1>1, <1>2, <1>3, <1>4 DEF Next

LEMMA HsInvariant == ASSUME Regular PROVE Spec => []HsInv
BY HsInitially, HsInductive, PTL DEF Spec

\* Two threads are never in a session together, however many are started and whatever
\* the modem refuses or fails (dect_session_open, nrf_modem_lib_init).
THEOREM SessionsAlwaysExclude == ASSUME Regular PROVE Spec => []SessionsExclude
<1>1. HsInv => SessionsExclude
  BY DEF HsInv
<1> QED
  BY <1>1, HsInvariant, PTL

\* A thread goes on with the answer to its own call, and a session leaves nothing to the
\* next one (operation_sem, deinit_sem, dect_phy_event_handler).
THEOREM AnswersAreOwn == ASSUME Regular PROVE Spec => []OwnCompletion
<1>1. HsInv => OwnCompletion
  <2> SUFFICES ASSUME HsInv PROVE OwnCompletion
    OBVIOUS
  <2>1. DOMAIN sem = {"operation", "deinit"}
    BY DEF HsInv, Typed
  <2>2. ASSUME ~lib PROVE pending = {} /\ \A s \in DOMAIN sem : sem[s] = 0
    <3>1. \A t \in Threads : ~thread[t].waits
      BY <2>2, WaitsInSession DEF HsInv, InLib
    <3> QED
      BY <2>1, <3>1 DEF HsInv, Typed, PendingOwn, GivenOwn
  <2> QED
    BY <2>1, <2>2 DEF HsInv, PendingOwn, GivenOwn, OwnCompletion
<1> QED
  BY <1>1, HsInvariant, PTL
================================================================================
