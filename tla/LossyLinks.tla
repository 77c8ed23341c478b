----------------------------- MODULE LossyLinks -----------------------------
(***************************************************************************)
(* What the servers may rely on when they send to each other: a message    *)
(* reaches the server it was sent to, at most once, and after the messages *)
(* that were sent before it on the same route and that arrived at all.     *)
(* Nothing is promised between two routes, and any message may be lost.    *)
(***************************************************************************)
EXTENDS Naturals, Sequences

CONSTANT Routes     \* records with a field "to", the server at the end

Ends == {r.to : r \in Routes}

VARIABLES
    route,      \* the route of each message ever sent; its number is its name
    handled     \* the messages each server has handled, in that order

vars == <<route, handled>>

Init == route = <<>> /\ handled = [s \in Ends |-> <<>>]

\* A server sends a message.
Send(r) ==
    /\ route' = Append(route, r)
    /\ UNCHANGED handled

\* Message m is later than what has arrived on its route.
InOrder(m) ==
    \A i \in 1..Len(handled[route[m].to]) :
        LET earlier == handled[route[m].to][i]
        IN route[earlier] = route[m] => earlier < m

\* The end of its route handles a message.
Handle(m) ==
    /\ InOrder(m)
    /\ handled' = [handled EXCEPT ![route[m].to] = Append(@, m)]
    /\ UNCHANGED route

Next == (\E r \in Routes : Send(r)) \/ (\E m \in 1..Len(route) : Handle(m))

Spec == Init /\ [][Next]_vars
=============================================================================
