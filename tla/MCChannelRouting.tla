-------------------------- MODULE MCChannelRouting --------------------------
(***************************************************************************)
(* Two services of the request path, the routing of requests and the       *)
(* translation of a streamed answer.  The modules share no state, so the   *)
(* first state chooses the one that runs while the other rests.            *)
(*                                                                         *)
(*  routing: two providers with one channel each, room for the health of   *)
(*    one, two failures to trip a breaker, one retry, a binding that is    *)
(*    due to fail back after one unit, a probe that may take one unit, one *)
(*    change of the configuration.                                         *)
(*  stream: four nodes of a Chat upstream or three of a Messages upstream  *)
(*    that has two blocks open at a time, with three fragments.            *)
(***************************************************************************)
EXTENDS ChannelRouting, StreamTranslation, TLC

CONSTANTS c1, c2, r1

VARIABLE service

MCOrder        == <<c1, c2>>
MCMaxNodes     == [chat |-> 4, messages |-> 3]
MCMaxFragments == [chat |-> 3, messages |-> 3]

RequestInit ==
  /\ service \in {"routing", "stream"}
  /\ RoutingInit /\ StreamInit
  /\ service # "stream" => source = "chat" /\ sealed

RequestNext ==
  \/ service = "routing" /\ RoutingNext /\ UNCHANGED <<service, streamVars>>
  \/ service = "stream" /\ StreamNext /\ UNCHANGED <<service, routingVars>>

(* The fairness is that of the routing; what is stated of the translation  *)
(* is safety.                                                              *)
RequestSpec ==
  RequestInit /\ [][RequestNext]_<<service, routingVars, streamVars>> /\ RoutingFairness
=============================================================================
