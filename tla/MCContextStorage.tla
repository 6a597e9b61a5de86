-------------------------- MODULE MCContextStorage --------------------------
(* TLC instance of ContextStorage: pages of four bytes, write blocks of    *)
(* two; the FUOTA context spans two pages.                                 *)
EXTENDS ContextStorage

OneAndThree == {1, 3}
One         == {1}
Three       == {3}
=============================================================================
