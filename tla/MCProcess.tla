----------------------------- MODULE MCProcess -----------------------------
(* Small instances of Process: the topic of a building with two paths. *)
EXTENDS Process

CONSTANTS pa, pb

Msg(type, id, prefix) == [type |-> type, id |-> id, prefix |-> prefix]

\* One path is declared twice under two spellings and taken away; another one,
\* more specific, comes with it; an unreadable message ends a partition.
BuildingTopic ==
    [p \in Partitions |->
        IF p = pa
        THEN <<Msg("created", "Pick", <<"pick">>), Msg("updated", "PICK", <<"pick", "cold">>),
               Msg("deactivated", "pick", <<>>)>>
        ELSE <<Msg("created", "Cold", <<"pick", "cold">>), Msg("garbled", "Cold", <<>>),
               Msg("updated", "Cold", <<"pick">>)>>]

UpperCase == [id \in {"Pick", "PICK", "pick", "Cold"} |->
                 IF id = "Cold" THEN "COLD" ELSE "PICK"]
=============================================================================
