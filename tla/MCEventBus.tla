----------------------------- MODULE MCEventBus -----------------------------
(* EventBus for TLC: a placed order publishes two events, a cancellation    *)
(* one; a named handler and a wildcard handler, as in bootstrap.New.        *)
EXTENDS EventBus

MCEvents == [place |-> <<"order.placed", "order.paid">>, cancel |-> <<"order.cancelled">>]
MCEventName == [notify |-> "order.paid", audit |-> "*"]
=============================================================================
