--------------------------- MODULE MCPaymentOrder ---------------------------
(***************************************************************************)
(* Small instances of PaymentOrder.                                        *)
(*                                                                         *)
(*  Epay: one EPay balance order with two attempts; a signed callback that *)
(*    can arrive with two different bodies and one query event for each    *)
(*    attempt; the buyer's API usage may overdraw the balance while there  *)
(*    is one attempt.                                                      *)
(*  One: the order with its first attempt only.                            *)
(***************************************************************************)
EXTENDS PaymentOrder, TLC

CONSTANTS o1, a1, a2, e1, e2, e3, d1, d2, u1

EpayOrderOf       == a1 :> o1 @@ a2 :> o1
EpayEventAttempt  == e1 :> a1 @@ e2 :> a1 @@ e3 :> a2
EpayEventKind     == e1 :> "callback" @@ e2 :> "query" @@ e3 :> "query"
EpayContract      == e1 :> TRUE @@ e2 :> TRUE @@ e3 :> TRUE
EpayUserOf        == o1 :> u1
EpayAdapter       == o1 :> "epay"
EpayKind          == o1 :> "balance"
EpayReward        == o1 :> 2

OneOrderOf        == [a \in Attempt |-> o1]
OneEventAttempt   == [e \in Event |-> a1]
OneEventKind      == e1 :> "callback" @@ e2 :> "query"
OneContract       == [e \in Event |-> TRUE]

SpendsWithOneAttempt == spent[u1] > 0 => att[a2] = "none"

EpaySpec == Init /\ [][Next /\ SpendsWithOneAttempt']_payVars
=============================================================================
