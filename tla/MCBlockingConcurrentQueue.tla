----------------------- MODULE MCBlockingConcurrentQueue -----------------------
(* Instances of BlockingConcurrentQueue for TLC. *)
EXTENDS BlockingConcurrentQueue, TLC

CONSTANTS c1, c2, k1, k2

\* The ids that the tokens drew.
InTurn == (c1 :> 0) @@ (c2 :> 1)

\* Each consumer makes some calls with its token and some without.
ByConsumer ==
    (c1 :> {[kind |-> "plain", max |-> 1], [kind |-> "token bulk", max |-> 2]})
 @@ (c2 :> {[kind |-> "bulk", max |-> 2], [kind |-> "token", max |-> 1]})

\* Two elements for one producer, one for the other.
TwoAndOne == (k1 :> 2) @@ (k2 :> 1)

===============================================================================
