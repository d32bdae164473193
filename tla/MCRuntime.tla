----------------------------- MODULE MCRuntime -----------------------------
EXTENDS Runtime, TLC

CONSTANTS identity, ballot, token, bridge, nginx, i1, i2, i3, a, b, c

MCDatabaseRoles == <<identity, ballot>>
MCFiles == <<identity, ballot, token>>
MCStages == <<{bridge}, {identity, ballot}, {nginx}>>

(* The second image adds a migration, the third has changed the first one. *)
MCMigrations == i1 :> <<a>> @@ i2 :> <<a, b>> @@ i3 :> <<c>>
=============================================================================
