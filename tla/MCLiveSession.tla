--------------------------- MODULE MCLiveSession ---------------------------
(* Small instances of LiveSession.                                         *)
EXTENDS LiveSession

\* Two subscription slots per attach: the feed and its replacement.
MCSubs == (1 .. MaxSession) \X {0, 1}
=============================================================================
