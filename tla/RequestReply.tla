---------------------------- MODULE RequestReply ----------------------------
(***************************************************************************)
(* What the server promises managers for their requests to a client,       *)
(* without registrations, queues and streams: a request is handed to the   *)
(* client once and never comes back from a later stage, a call returns     *)
(* once, and what it returns is a response that the client has sent and    *)
(* the server has not forgotten.  Requests may get lost at every stage.    *)
(***************************************************************************)
CONSTANTS Requests, None

VARIABLES stage,  \* how far each request has got
          call,   \* of the manager that issued it: "open", "returned" or "failed"
          answer, \* the request whose response the call returned, or None
          inbox   \* requests whose responses the server holds

rvars == <<stage, call, answer, inbox>>

RInit == /\ stage = [i \in Requests |-> "new"]
         /\ call = [i \in Requests |-> "open"]
         /\ answer = [i \in Requests |-> None]
         /\ inbox = {}

Advances(i, from, to) == stage[i] = from /\ stage' = [stage EXCEPT ![i] = to]

Issue(i) == /\ call[i] = "open"
            /\ Advances(i, "new", "pending")
            /\ UNCHANGED <<call, answer, inbox>>

Execute(i) == Advances(i, "pending", "executing") /\ UNCHANGED <<call, answer, inbox>>

Reply(i) == Advances(i, "executing", "replying") /\ UNCHANGED <<call, answer, inbox>>

\* The response may take the place of another, or nobody wants it.
Deliver(i) == /\ Advances(i, "replying", "over")
              /\ inbox' \subseteq inbox \cup {i}
              /\ UNCHANGED <<call, answer>>

Return(i, j) == /\ call[i] = "open" /\ stage[i] # "new" /\ j \in inbox
                /\ call' = [call EXCEPT ![i] = "returned"]
                /\ answer' = [answer EXCEPT ![i] = j]
                /\ inbox' \subseteq inbox
                /\ UNCHANGED stage

\* Some requests are lost and some calls end without an answer.
Fail(lost, broken) ==
    /\ \A i \in lost : stage[i] \in {"pending", "executing", "replying"}
    /\ \A i \in broken : call[i] = "open"
    /\ stage' = [i \in Requests |-> IF i \in lost THEN "over" ELSE stage[i]]
    /\ call' = [i \in Requests |-> IF i \in broken THEN "failed" ELSE call[i]]
    /\ inbox' \subseteq inbox
    /\ UNCHANGED answer

RNext == \/ \E i \in Requests : Issue(i) \/ Execute(i) \/ Reply(i) \/ Deliver(i)
         \/ \E i, j \in Requests : Return(i, j)
         \/ \E lost, broken \in SUBSET Requests : Fail(lost, broken)

RSpec == RInit /\ [][RNext]_rvars
=============================================================================
