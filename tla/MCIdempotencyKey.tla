-------------------------- MODULE MCIdempotencyKey --------------------------
(* A small instance of IdempotencyKey. *)
EXTENDS IdempotencyKey

CONSTANTS k1, k2, u1, u2

Command(key, unit, faults) == [key |-> key, unit |-> unit, faults |-> faults]

\* A command; its key with another body; its body with another key; and a
\* path that is not in the catalogue.
FourCommands ==
    {Command(k1, u1, {}), Command(k1, u2, {}), Command(k2, u1, {}),
     Command(k2, u2, {"ErrUnknownPath"})}
=============================================================================
