---------------------------- MODULE MCSDMAQueue ----------------------------
(* Model values for the SDMA queue: commands without a poll, with a 32-bit poll, and with
   the two polls of a 64-bit value. *)
EXTENDS SDMAQueue

CONSTANTS s1, s2

MCSignals == {s1, s2}
MCShapes == {<<Copy>>, <<Poll(s1), Copy>>, <<PollHi(s2), Poll(s2), Copy>>}
=============================================================================
