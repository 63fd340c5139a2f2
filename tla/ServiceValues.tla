--------------------------- MODULE ServiceValues ---------------------------
(* What the modules of the controller's services share.                    *)
CONSTANT None   \* Python's None
=============================================================================
