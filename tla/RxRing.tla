--------------------------------- MODULE RxRing ---------------------------------
(***************************************************************************)
(* Common RX, common/dect_phy_common_rx.c: a small table that remembers    *)
(* the channel of each RX by its handle, so that control can say on which  *)
(* channel data was received. A handle that is not in the table takes the  *)
(* place that was filled longest ago. The table has no lock: here callers  *)
(* store one after the other, and control may look something up between    *)
(* any two assignments of a store.                                         *)
(***************************************************************************)
EXTENDS Naturals

CONSTANTS
  Places,  \* DECT_PHY_COMMON_RX_OP_HANDLES_MAX
  Handles, \* handles of RX operations: not 0, which marks a free place, and 16 bits
  RingChannels  \* channels of a band

VARIABLES
  table,   \* phy_handle_to_channel_map
  next,    \* current_phy_handle_insert_index
  store,   \* the locals of a store: its step, handle, channel, insert_index and whether new
  latest   \* history: the channel of the latest RX with a handle

ringVars == <<table, next, store, latest>>

Indexes == 0 .. Places - 1
Sizes == Places \in Nat \ {0}
Given == Handles \subseteq Nat \ {0}

Has(i, h) == table[i].handle = h
First(i, h) == Has(i, h) /\ \A j \in Indexes : j < i => ~Has(j, h)

Step(name, h, c, i, new) == [step |-> name, handle |-> h, channel |-> c, at |-> i, new |-> new]
NoStore == Step("none", 0, 0, 0, FALSE)

RxInit ==
  /\ table = [i \in Indexes |-> [handle |-> 0, channel |-> 0]]
  /\ next = 0 /\ store = NoStore /\ latest = [h \in Handles |-> 0]

\* Lines 30-42: next goes back to 0 when it is past the end.
Wrapped == IF next = Places THEN 0 ELSE next

Search(h, c) ==
  /\ store.step = "none"
  /\ next' = Wrapped
  /\ \/ \E i \in Indexes : First(i, h) /\ store' = Step("found", h, c, i, FALSE)
     \/ /\ \A i \in Indexes : ~Has(i, h)
        /\ store' = Step("found", h, c, Wrapped, TRUE)
  /\ UNCHANGED <<table, latest>>

SetHandle ==
  /\ store.step = "found"
  /\ table' = [table EXCEPT ![store.at].handle = store.handle]
  /\ store' = [store EXCEPT !.step = "named"]
  /\ UNCHANGED <<next, latest>>

SetChannel ==
  /\ store.step = "named"
  /\ table' = [table EXCEPT ![store.at].channel = store.channel]
  /\ next' = IF store.new THEN next + 1 ELSE next
  /\ latest' = [latest EXCEPT ![store.handle] = store.channel]
  /\ store' = NoStore

RxNext ==
  \/ \E h \in Handles, c \in RingChannels : Search(h, c)
  \/ SetHandle
  \/ SetChannel

RxSpec == RxInit /\ [][RxNext]_ringVars

\* dect_phy_common_rx_op_handle_to_channel_get(): data received with handle h is
\* attributed to channel c.
Attributes(h, c) == \E i \in Indexes : First(i, h) /\ table[i].channel = c

--------------------------------------------------------------------------------

\* What is received is attributed to the channel of the latest RX with its handle, or
\* to none when the handle has lost its place; only a lookup in the middle of a store
\* of that very handle may find another channel
\* (dect_phy_common_rx_op_handle_to_channel_get).
RightChannel ==
  \A h \in Handles, c \in RingChannels \cup {0} :
    Attributes(h, c) /\ ~(store.step = "named" /\ store.handle = h) => c = latest[h]

\* The index at which a handle is stored stays in the table.
InTable == store.step # "none" => store.at \in Indexes
================================================================================
