--------------------------- MODULE MCRecordReader ---------------------------
(* Every input of up to MaxInput bytes over a newline and one other byte.  *)
EXTENDS RecordReader

CONSTANTS MaxInput

MCByte == {"x", "nl"}
MCNL == "nl"
MCInputs == UNION {[1 .. n -> MCByte] : n \in 0 .. MaxInput}

=============================================================================
