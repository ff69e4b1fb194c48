--------------------------- MODULE MCEngineLifecycle ---------------------------
(* Three slices of EngineLifecycle.                                        *)
EXTENDS EngineLifecycle

CONSTANTS w1, w2, renewal, main, admin, free

(* Start, Stop and Ready by two callers over two terms; one worker with    *)
(* work of both kinds, until it is stopped; two workers and one kind.      *)
All      == {"Start", "Stop", "Ready"}
Restarts == [callers |-> {main, admin}, calls |-> All, terms |-> 2, workers |-> {w1}, kinds |-> {}]
Turns    == [callers |-> {main}, calls |-> All, terms |-> 1, workers |-> {w1}, kinds |-> {"review", "nudge"}]
Crowd    == [callers |-> {main}, calls |-> {"Start"}, terms |-> 1, workers |-> {w1, w2}, kinds |-> {"review"}]

MCScopes == {Restarts, Turns, Crowd}

===============================================================================
