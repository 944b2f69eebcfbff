-------------------------------- MODULE Job --------------------------------
(***************************************************************************)
(* What a behaviour of Algorithms is about: an algorithm and the coarse    *)
(* part of its input.                                                      *)
(***************************************************************************)
VARIABLE job

is(what) == job.what = what
=============================================================================
