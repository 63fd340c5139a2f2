--------------------------- MODULE MCReceiptLogs ---------------------------
(***************************************************************************)
(* One scope of receipts and two coroutines that append to it, one append  *)
(* of which may be cancelled.                                              *)
(***************************************************************************)
EXTENDS ReceiptLogs

CONSTANTS w1, w2

TheAmounts == {[receipt |-> 3, event |-> 0]}
=============================================================================
