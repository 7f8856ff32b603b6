-------------------------- MODULE ReliableTransfer --------------------------
(***************************************************************************)
(* What the measurement upload promises its user, without saying how: a    *)
(* sample that the client has recorded reaches the server, the client only *)
(* believes that it did when it did, and nothing but an explicit deletion  *)
(* of a measurement takes a sample off the server again.                   *)
(***************************************************************************)
CONSTANT Samples

VARIABLES recorded,   \* samples the sender has produced
          delivered,  \* samples that were in the receiver's hands once
          held,       \* samples the receiver holds now
          confirmed   \* samples the sender believes delivered

tvars == <<recorded, delivered, held, confirmed>>

TInit == /\ recorded = {}
         /\ delivered = {}
         /\ held = {}
         /\ confirmed = {}

Produce(s) == /\ s \notin recorded
              /\ recorded' = recorded \cup {s}
              /\ UNCHANGED <<delivered, held, confirmed>>

\* Several samples arrive together or not at all, some of them again.
Deliver(S) == /\ S \subseteq recorded
              /\ delivered' = delivered \cup S
              /\ held' = held \cup S
              /\ UNCHANGED <<recorded, confirmed>>

Confirm(S) == /\ S \subseteq delivered
              /\ confirmed' = confirmed \cup S
              /\ UNCHANGED <<recorded, delivered, held>>

\* The user deletes what the receiver holds.
Erase(S) == /\ S \subseteq held
            /\ held' = held \ S
            /\ UNCHANGED <<recorded, delivered, confirmed>>

TNext == \/ \E s \in Samples : Produce(s)
         \/ \E S \in SUBSET Samples : Deliver(S) \/ Confirm(S) \/ Erase(S)

TSpec == TInit /\ [][TNext]_tvars
=============================================================================
