---------------------------- MODULE MCProcedure ----------------------------
\* Two procedures about one host: a look and a fix, an undoing and a look.
EXTENDS Procedure

CONSTANTS look, fix, undo, repair, rollback

MCSteps  == [q \in Procedures |-> IF q = repair THEN <<look, fix>> ELSE <<undo, look>>]
MCTarget == [c \in Commands |-> "host"]
=============================================================================
