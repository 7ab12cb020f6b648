-------------------------- MODULE MCDatabaseClient --------------------------
\* DatabaseClient as TLC instantiates it.
EXTENDS DatabaseClient, TLC

Bounds(listens, removals, losses, tokens, fetches, refusals, revocations, foreign, interrupted,
       foreground) ==
    [listens |-> listens, removals |-> removals, losses |-> losses, tokens |-> tokens,
     fetches |-> fetches, refusals |-> refusals, revocations |-> revocations,
     foreign |-> foreign, interrupts |-> interrupted, foreground |-> foreground]

\* Two connections lost under a listen, and another device; a listen removed and made again,
\* with a loss; refusals and revocations;
\* tokens, failing fetches and interruptions; an interruption and the server's.
MCBudgets ==
    {Bounds(1, 0, 2, 0, 0, 0, 0, 1, 0, 0),
     Bounds(2, 1, 1, 0, 0, 0, 0, 0, 0, 0),
     Bounds(1, 0, 1, 0, 0, 1, 1, 0, 0, 0),
     Bounds(1, 0, 0, 2, 1, 0, 0, 0, 1, 1),
     Bounds(0, 0, 0, 0, 1, 0, 1, 0, 1, 1)}
=============================================================================
