--------------------------- MODULE MCManualReplies ---------------------------
(* The instance of ManualReplies for TLC: sets and bounds to give. *)
EXTENDS ManualReplies

=============================================================================
