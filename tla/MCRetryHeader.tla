--------------------------- MODULE MCRetryHeader ---------------------------
(***************************************************************************)
(* RetryHeader with the limits of MCThrottle.                              *)
(***************************************************************************)
EXTENDS MCThrottle, RetryHeader

=============================================================================
