----------------------------- MODULE TaskQueue -----------------------------
(***************************************************************************)
(* What the relayer promises of its work queue, whatever happens to the    *)
(* deliveries: an event the queue accepted is settled in the end, and it   *)
(* is settled only after the events that relaying it produces were handed  *)
(* to the queue, unless the relayer gave up on it.                         *)
(***************************************************************************)
EXTENDS FiniteSets

CONSTANTS Events,   \* what the queue may carry
          Produces  \* Produces[e]: the events that relaying e gives rise to

VARIABLES accepted, \* events the queue stored
          lost,     \* events whose publication failed
          relayed,  \* events settled as relayed
          givenUp   \* events settled without being relayed

vars == <<accepted, lost, relayed, givenUp>>

Init == accepted = {} /\ lost = {} /\ relayed = {} /\ givenUp = {}

Accept(e) ==
    /\ e \notin accepted
    /\ accepted' = accepted \cup {e}
    /\ UNCHANGED <<lost, relayed, givenUp>>

Lose(e) ==
    /\ lost' = lost \cup {e}
    /\ UNCHANGED <<accepted, relayed, givenUp>>

Relay(e) ==
    /\ e \in accepted
    /\ Produces[e] \subseteq accepted \cup lost
    /\ relayed' = relayed \cup {e}
    /\ UNCHANGED <<accepted, lost, givenUp>>

GiveUp(e) ==
    /\ e \in accepted
    /\ givenUp' = givenUp \cup {e}
    /\ UNCHANGED <<accepted, lost, relayed>>

Next == \E e \in Events : Accept(e) \/ Lose(e) \/ Relay(e) \/ GiveUp(e)

Settled(e) == e \in relayed \cup givenUp

Spec ==
    /\ Init /\ [][Next]_vars
    /\ \A e \in Events : WF_vars(~Settled(e) /\ (Relay(e) \/ GiveUp(e)))
=============================================================================
