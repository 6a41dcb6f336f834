------------------------ MODULE MCGoTokenValidation -------------------------
(* Small instances of GoTokenValidation. *)
EXTENDS GoTokenValidation

CONSTANTS a, b

(* A rotation without overlap, with a document without keys in between,    *)
(* which whoever does not ask meanwhile never sees.                        *)
EmptyBetween == <<{a}, {}, {b}>>
=============================================================================
