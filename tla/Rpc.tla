--------------------------------- MODULE Rpc ---------------------------------
(***************************************************************************)
(* Calls between JavaScript contexts (lib/net/rpc.ts, RpcHandler) over     *)
(* message ports.  A call is known by its id, which is its place in        *)
(* `calls'; it is emitted once, answered by whoever handles its method,    *)
(* and given up when its timer fires.  Messages are not lost on the way,   *)
(* but nobody may be there to receive them.                                *)
(***************************************************************************)
EXTENDS Naturals, Sequences

CONSTANT MaxCalls    \* bound on the calls

VARIABLES
    calls,     \* the pending list, from which nothing is ever removed
    wire       \* the messages on their way

rpcVars == <<calls, wire>>

Outcomes == {"none", "replied", "timed out"}

(* `callbacks' counts how often the callback was run, `outcome' is what    *)
(* the first run told: a promise takes only that one.                      *)
RpcTypeOK(Peers, Methods) ==
    /\ calls \in Seq([peer : Peers, method : Methods, timer : {"set", "fired", "cleared"},
                      callbacks : Nat, outcome : Outcomes])
    /\ Len(calls) <= MaxCalls

RpcInit == calls = <<>> /\ wire = {}

NewCall(peer, method) ==
    [peer |-> peer, method |-> method, timer |-> "set", callbacks |-> 0, outcome |-> "none"]

(* Faulty variant: no timer guards the call.                               *)
CallUntimed(peer, method) ==
    /\ Len(calls) < MaxCalls
    /\ calls' = Append(calls, [NewCall(peer, method) EXCEPT !.timer = "cleared"])
    /\ wire' = wire \union {[type |-> "rpc-call", id |-> Len(calls) + 1, peer |-> peer]}

(* RpcHandler.call: the timer is set and the message emitted.              *)
Call(peer, method) ==
    /\ Len(calls) < MaxCalls
    /\ calls' = Append(calls, NewCall(peer, method))
    /\ wire' = wire \union {[type |-> "rpc-call", id |-> Len(calls) + 1, peer |-> peer]}

(* The callback is run by a reply and by the timer, whichever comes first, *)
(* and again by a reply that is late or is a second one.                   *)
RunCallback(id, outcome, timer) ==
    calls' = [calls EXCEPT ![id].callbacks = @ + 1, ![id].timer = timer,
                           ![id].outcome = IF @ = "none" THEN outcome ELSE @]

Timeout(id) ==
    /\ id \in DOMAIN calls /\ calls[id].timer = "set"
    /\ RunCallback(id, "timed out", "fired")

Reply(m) ==
    /\ m \in wire /\ m.type = "rpc-reply"
    /\ RunCallback(m.id, "replied", "cleared")
    /\ wire' = wire \ {m}
=============================================================================
