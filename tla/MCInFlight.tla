------------------------------ MODULE MCInFlight ------------------------------
(* Two slots whose hooks send requests of their own, the slots of those    *)
(* requests, and a plain slot, competing for two permits: the least with   *)
(* which a request sent from a response hook is sure of a permit, and few  *)
(* enough for two requests to queue at once.                               *)
EXTENDS InFlight

MCRequests == {"a", "b", "c", "x", "y"}
MCAsks == {<<"a", "preparing", "x">>, <<"b", "response", "y">>}

=============================================================================
