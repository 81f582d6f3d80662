------------------------------- MODULE MCDesk --------------------------------
(***************************************************************************)
(* A small instance of each part of Desk for TLC, the outbox under an      *)
(* operator who takes a channel out of the config.                         *)
(***************************************************************************)
EXTENDS Desk, MCDelivery

\* One button of each kind.
KindItself == [b \in Buttons |-> b]
=============================================================================
