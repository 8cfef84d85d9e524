----------------------------- MODULE MCEventBus -----------------------------
(* A small instance of EventBus for TLC.                                    *)
EXTENDS EventBus

CONSTANTS d1, d2

(* One can subscribe to the first device, or to all of them. *)
SmallTopics == {"first", "all"}
SmallMatches == {<<"first", d1>>, <<"all", d1>>, <<"all", d2>>}
=============================================================================
