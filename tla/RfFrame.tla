-------------------------------- MODULE RfFrame --------------------------------
(***************************************************************************)
(* The frame of the RF tool, rf_tool/dect_phy_rf_tool.c: how long it is in *)
(* subslots, where its RX and its TX are, and how much of it they take. An *)
(* interval repeats it without a pause, so an operation that did not fit   *)
(* would overlap its own next turn, which the scheduler's list refuses.    *)
(***************************************************************************)
EXTENDS Naturals

\* The frame options are uint8_t.
Params == [rx_offset : 0 .. 255, rx : 0 .. 255, rx_idle : 0 .. 255,
           tx_offset : 0 .. 255, tx : 0 .. 255, tx_idle : 0 .. 255]

FrameModes == {"rx", "tx", "rx_tx"}

RxPart(p) == p.rx_offset + p.rx + p.rx_idle
Later(a, b) == IF a > b THEN a ELSE b

\* dect_phy_rf_tool_frame_len_subslots_get(), of the mode or, in RX_CONT mode, of
\* the peer's mode.
FrameLen(mode, p) ==
  IF mode = "rx" THEN RxPart(p)
  ELSE IF mode = "tx" THEN p.tx_offset + p.tx + p.tx_idle
  ELSE Later(RxPart(p), p.tx_offset) + p.tx + p.tx_idle

\* dect_phy_rf_tool_frame_active_subslots_get()
Active(mode, p) ==
  IF mode = "rx" THEN p.rx
  ELSE IF mode = "tx" THEN p.tx
  ELSE p.rx + p.tx

\* dect_phy_rf_tool_cmd(): the offset of the TX when no option sets it.
DefaultTxOffset(mode, p) == IF mode = "tx" THEN 0 ELSE RxPart(p) % 256

\* The subslots an operation takes, from the start of its frame.
RxEnd(p) == p.rx_offset + p.rx
TxEnd(p) == p.tx_offset + p.tx

\* dect_phy_rf_tool_rx_n_tx_duty_cycle_percent_calculate(): the subslots counted as
\* used in an interval of frames frames, of which rx_ops and tx_ops were completed.
Fewest(a, b) == IF a < b THEN a ELSE b
Used(mode, p, frames, rx_ops, tx_ops) ==
  IF mode = "rx" THEN Fewest(rx_ops, frames) * p.rx
  ELSE IF mode = "tx" THEN Fewest(tx_ops, frames) * p.tx
  ELSE Fewest(tx_ops, frames) * p.tx + Fewest(rx_ops, frames) * p.rx
================================================================================
