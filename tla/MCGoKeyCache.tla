---------------------------- MODULE MCGoKeyCache ----------------------------
(* Small instances of GoKeyCache. *)
EXTENDS GoKeyCache

(* Options.StaleIfError may be negative: no stand-in past the TTL. *)
NoGrace == -1
=============================================================================
