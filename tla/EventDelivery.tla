--------------------------- MODULE EventDelivery ---------------------------
(***************************************************************************)
(* What the delivery path promises (deploy/README.md:20), without a word   *)
(* on how: an event the collector has accepted into its durable spool is   *)
(* stored by the backend, and the collector forgets it only once it is     *)
(* stored.  Nothing is stored that was not accepted, and what is stored    *)
(* stays stored.                                                           *)
(***************************************************************************)
CONSTANT Events

VARIABLES accepted,  \* events committed to the collector's spool, ever
          stored,    \* events with a row in the backend database
          released   \* accepted events the spool no longer holds

vars == <<accepted, stored, released>>

Init == /\ accepted = {}
        /\ stored = {}
        /\ released = {}

\* The spool commits a new event (EventSpool.enqueue).
Accept(e) ==
    /\ e \notin accepted
    /\ accepted' = accepted \cup {e}
    /\ UNCHANGED <<stored, released>>

\* A transaction of the backend stores the new events of one batch.
Store(batch) ==
    /\ batch # {}
    /\ batch \subseteq accepted \ stored
    /\ stored' = stored \cup batch
    /\ UNCHANGED <<accepted, released>>

\* The collector deletes acknowledged events from its spool.
Release(batch) ==
    /\ batch # {}
    /\ batch \subseteq stored \ released
    /\ released' = released \cup batch
    /\ UNCHANGED <<accepted, stored>>

Next == \/ \E e \in Events : Accept(e)
        \/ \E batch \in SUBSET Events : Store(batch)
        \/ \E batch \in SUBSET Events : Release(batch)

Spec == Init /\ [][Next]_vars
=============================================================================
