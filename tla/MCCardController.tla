-------------------------- MODULE MCCardController --------------------------
(***************************************************************************)
(* CardController with two references, two values of the other field and   *)
(* one password.  The draft typed is another reference; clears come from   *)
(* Reset all, and the other value is another surface's.                    *)
(***************************************************************************)
EXTENDS CardController

CONSTANT r2
=============================================================================
