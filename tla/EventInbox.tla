----------------------------- MODULE EventInbox -----------------------------
(***************************************************************************)
(* What the webhook receiver promises about one event, however often it is *)
(* delivered: it is being handled at most once at a time, it is settled    *)
(* only when everything there is to do for it was done, it is never taken  *)
(* up again after that, and its sender hears "received" only then.         *)
(***************************************************************************)
CONSTANT Events

VARIABLES running, done, settled, acked

inboxVars == <<running, done, settled, acked>>

InboxInit == running = {} /\ done = {} /\ settled = {} /\ acked = {}

\* An event with nothing to do for it is done as it is taken up.
Start(e) == /\ e \notin running /\ e \notin settled
            /\ running' = running \cup {e}
            /\ done' \in {done, done \cup {e}}
            /\ UNCHANGED <<settled, acked>>

Complete(e) == /\ e \in running
               /\ done' = done \cup {e}
               /\ UNCHANGED <<running, settled, acked>>

\* A failure or a crash gives the event up; a later delivery starts it anew.
Abandon(e) == /\ e \in running
              /\ running' = running \ {e}
              /\ UNCHANGED <<done, settled, acked>>

Settle(e) == /\ e \in running /\ e \in done
             /\ running' = running \ {e} /\ settled' = settled \cup {e}
             /\ UNCHANGED <<done, acked>>

Acknowledge(e) == /\ e \in settled
                  /\ acked' = acked \cup {e}
                  /\ UNCHANGED <<running, done, settled>>

InboxNext == \E e \in Events : \/ Start(e) \/ Complete(e) \/ Abandon(e)
                               \/ Settle(e) \/ Acknowledge(e)

InboxSpec == InboxInit /\ [][InboxNext]_inboxVars
=============================================================================
