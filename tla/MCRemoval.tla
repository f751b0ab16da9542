------------------------------ MODULE MCRemoval ------------------------------
(***************************************************************************)
(* A small instance of Removal for TLC.                                    *)
(***************************************************************************)
EXTENDS Removal, MCMarket

=============================================================================
