--------------------------- MODULE MCWalletHistory ---------------------------
(* Five transactions in five slots; the two last slots share a second, the    *)
(* second slot has no block.                                                *)
EXTENDS WalletHistory

MCSlotOf == <<1, 3, 3, 4, 5>>
MCTimeOf == <<2, 3, 4, 5, 5>>
=============================================================================
