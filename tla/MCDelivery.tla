----------------------------- MODULE MCDelivery -----------------------------
(***************************************************************************)
(* Small instances of Delivery for TLC.                                    *)
(***************************************************************************)
EXTENDS Delivery

CONSTANTS c1, c2

\* c1 is limited, c2 is not: the limiter and the breaker are seen alone and
\* together.
LimitFirst == [c \in Channels |-> IF c = c1 THEN 1 ELSE 0]

\* An operator who takes c1 out of the config and puts it back.
WithAndWithoutFirst == {Channels, Channels \ {c1}}

OneConfig == {Channels}

=============================================================================
