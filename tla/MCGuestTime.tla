---------------------------- MODULE MCGuestTime ----------------------------
(* Three lines: one before the main loop's, the main loop's, and one with bit *)
(* 8 set.  Two handlers, which can rewrite $78 into a ring.                   *)
EXTENDS GuestTime
=============================================================================
