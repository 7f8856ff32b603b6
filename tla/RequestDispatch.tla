-------------------------- MODULE RequestDispatch --------------------------
(***************************************************************************)
(* How the server passes the requests of its managers on to one client and *)
(* the client's responses back (src/server/server.py).                     *)
(*                                                                         *)
(* Every call of registerClient makes a new ExternalClient: a job queue, a *)
(* response dictionary and request numbers that start again at 1.  The     *)
(* handler of the call, the managers' issueRequestToClient calls and       *)
(* putClientResponse never keep that object: each of their steps looks it  *)
(* up again under the client's uid, so that the steps of one call may find *)
(* different registrations.  An ExternalClient is named by the             *)
(* registration (the call of registerClient) that made it.                 *)
(***************************************************************************)
EXTENDS Integers, Sequences

CONSTANTS
    Handlers,   \* calls of registerClient, one registration each
    Issuers,    \* calls of issueRequestToClient, one request each
    None,
    MaxFaults   \* broken connections, crashes and failed registrations

ASSUME NoneAssumption == None \notin Handlers \cup Issuers
ASSUME MaxFaultsAssumption == MaxFaults \in Nat

VARIABLES
    current,       \* loggedInClients[uid]: the latest registration, or None
    jobqueue,      \* LIFO queue of each registration, top first
    lastRequestNo, \* of each registration
    responsedict,  \* of each registration: (request number, request answered)
    handler,       \* thread of each registerClient call
    issuer,        \* thread of each issueRequestToClient call
    stream,        \* the registration whose stream the client reads, or None
    busy,          \* requests in the client's thread pool
    calls,         \* responses on their way, a client thread waits for the call
    orphans,       \* responses on their way whose client thread is gone
    faults

ecvars == <<current, jobqueue, lastRequestNo, responsedict>>
clientvars == <<stream, busy, calls, orphans>>
vars == <<current, jobqueue, lastRequestNo, responsedict, handler, issuer,
          stream, busy, calls, orphans, faults>>

NewHandler == [pc |-> "unused", at |-> None, job |-> None]

\* ec: what the last lookup found; home and no: where the request was
\* scheduled and its number there; answer: the request whose response it got.
NewIssuer == [pc |-> "idle", ec |-> None, home |-> None, no |-> 0, answer |-> None]

HandlerState ==
    [pc : {"unused", "entered", "adding", "logging", "looking", "getting",
           "yielding", "ended", "dead"},
     at : Handlers \cup {None},
     job : Issuers \cup {None}]

IssuerState ==
    [pc : {"idle", "found", "scheduled", "waiting", "arrived", "purging",
           "done", "timeout", "failed"},
     ec : Handlers \cup {None},
     home : Handlers \cup {None},
     no : Nat,
     answer : Issuers \cup {None}]

TypeOK ==
    /\ current \in Handlers \cup {None}
    /\ jobqueue \in [Handlers -> Seq(Issuers \cup {None})]
    /\ lastRequestNo \in [Handlers -> Nat]
    /\ responsedict \in [Handlers -> SUBSET (Nat \X Issuers)]
    /\ handler \in [Handlers -> HandlerState]
    /\ issuer \in [Issuers -> IssuerState]
    /\ stream \in Handlers \cup {None}
    /\ busy \subseteq Issuers /\ calls \subseteq Issuers /\ orphans \subseteq Issuers
    /\ faults \in Nat

Init ==
    /\ current = None
    /\ jobqueue = [h \in Handlers |-> <<>>]
    /\ lastRequestNo = [h \in Handlers |-> 0]
    /\ responsedict = [h \in Handlers |-> {}]
    /\ handler = [h \in Handlers |-> NewHandler]
    /\ issuer = [i \in Issuers |-> NewIssuer]
    /\ stream = None
    /\ busy = {} /\ calls = {} /\ orphans = {}
    /\ faults = 0

Push(h, job) == jobqueue' = [jobqueue EXCEPT ![h] = <<job>> \o @]

HandlerAt(h, pc) == handler[h].pc = pc
HandlerGoes(h, pc) == handler' = [handler EXCEPT ![h].pc = pc]
IssuerAt(i, pc) == issuer[i].pc = pc

-----------------------------------------------------------------------------
(* registerClient.                                                          *)

\* The client registers anew once its pool has joined: no request is being
\* worked on and no thread of it waits for a putClientResponse call.
Register(h) ==
    /\ stream = None /\ busy = {} /\ calls = {}
    /\ HandlerAt(h, "unused")
    /\ stream' = h
    /\ HandlerGoes(h, "entered")
    /\ UNCHANGED <<ecvars, issuer, busy, calls, orphans, faults>>

\* Faulty variant: the old entry is removed before the new one is made.
DeleteOldClient(h) ==
    /\ HandlerAt(h, "entered")
    /\ IF current = None THEN UNCHANGED jobqueue ELSE Push(current, None)
    /\ current' = None
    /\ HandlerGoes(h, "adding")
    /\ UNCHANGED <<lastRequestNo, responsedict, issuer, clientvars, faults>>

\* addNewClient: a None for the thread that waits on the old job queue ...
ScheduleDeletion(h) ==
    /\ HandlerAt(h, "entered")
    /\ IF current = None THEN UNCHANGED jobqueue ELSE Push(current, None)
    /\ HandlerGoes(h, "adding")
    /\ UNCHANGED <<current, lastRequestNo, responsedict, issuer, clientvars, faults>>

\* Faulty variant: the None is put after the replacement, into the new queue.
AddClientThenDelete(h) ==
    /\ HandlerAt(h, "adding")
    /\ current' = h
    /\ Push(h, None)
    /\ HandlerGoes(h, "logging")
    /\ UNCHANGED <<lastRequestNo, responsedict, issuer, clientvars, faults>>

\* ... and a new ExternalClient in its place.
AddClient(h) ==
    /\ HandlerAt(h, "adding")
    /\ current' = h
    /\ HandlerGoes(h, "logging")
    /\ UNCHANGED <<jobqueue, lastRequestNo, responsedict, issuer, clientvars, faults>>

\* The upsert into the clients table through the shared connection.
LogRegistration(h) ==
    /\ HandlerAt(h, "logging")
    /\ HandlerGoes(h, "looking")
    /\ UNCHANGED <<ecvars, issuer, clientvars, faults>>

\* getNextRequestOfClient looks the client up in every iteration.
LookUp(h) ==
    /\ HandlerAt(h, "looking")
    /\ handler' = [handler EXCEPT ![h].pc = "getting", ![h].at = current]
    /\ UNCHANGED <<ecvars, issuer, clientvars, faults>>

\* The client's Read fails once the call it listens to is over.
StreamWithout(h) == IF stream = h THEN None ELSE stream

\* Faulty variant: None is not told from a request.
GetAnything(h) ==
    /\ HandlerAt(h, "getting")
    /\ jobqueue[handler[h].at] # <<>>
    /\ handler' = [handler EXCEPT ![h].pc = "yielding",
                                  ![h].job = Head(jobqueue[handler[h].at])]
    /\ jobqueue' = [jobqueue EXCEPT ![handler[h].at] = Tail(@)]
    /\ UNCHANGED <<current, lastRequestNo, responsedict, issuer, clientvars, faults>>

GetRequest(h) ==
    /\ HandlerAt(h, "getting")
    /\ jobqueue[handler[h].at] # <<>>
    /\ LET job == Head(jobqueue[handler[h].at]) IN
         \/ /\ job = None
            /\ HandlerGoes(h, "ended")
            /\ stream' = StreamWithout(h)
         \/ /\ job # None
            /\ handler' = [handler EXCEPT ![h].pc = "yielding", ![h].job = job]
            /\ UNCHANGED stream
    /\ jobqueue' = [jobqueue EXCEPT ![handler[h].at] = Tail(@)]
    /\ UNCHANGED <<current, lastRequestNo, responsedict, issuer, busy, calls,
                   orphans, faults>>

\* Faulty variant: the handler takes one request only.
YieldOneRequest(h) ==
    /\ HandlerAt(h, "yielding")
    /\ stream = h
    /\ busy' = busy \cup {handler[h].job}
    /\ handler' = [handler EXCEPT ![h].pc = "ended", ![h].job = None]
    /\ UNCHANGED <<ecvars, issuer, stream, calls, orphans, faults>>

\* The request reaches the client, which posts it to its pool.
YieldRequest(h) ==
    /\ HandlerAt(h, "yielding")
    /\ stream = h
    /\ busy' = busy \cup {handler[h].job}
    /\ handler' = [handler EXCEPT ![h].pc = "looking", ![h].job = None]
    /\ UNCHANGED <<ecvars, issuer, stream, calls, orphans, faults>>

\* Nobody reads the stream any more and the request is lost.  The call ends
\* if the server has noticed that the peer is gone, and goes on otherwise.
YieldToNobody(h) ==
    /\ HandlerAt(h, "yielding")
    /\ stream # h
    /\ \E pc \in {"dead", "looking"} :
          handler' = [handler EXCEPT ![h].pc = pc, ![h].job = None]
    /\ UNCHANGED <<ecvars, issuer, clientvars, faults>>

-----------------------------------------------------------------------------
(* issueRequestToClient, for a client that has registered.                  *)

\* scheduleNewRequestToClient: the lookup ...
FindClient(i) ==
    /\ IssuerAt(i, "idle")
    /\ current # None
    /\ issuer' = [issuer EXCEPT ![i].pc = "found", ![i].ec = current]
    /\ UNCHANGED <<ecvars, handler, clientvars, faults>>

\* Faulty variant: the number is read but not counted up.
ScheduleSameNumber(i) ==
    /\ IssuerAt(i, "found")
    /\ LET ec == issuer[i].ec IN
         /\ issuer' = [issuer EXCEPT ![i].pc = "scheduled", ![i].home = ec,
                                     ![i].no = lastRequestNo[ec] + 1]
         /\ Push(ec, i)
    /\ UNCHANGED <<current, lastRequestNo, responsedict, handler, clientvars, faults>>

\* ... and scheduleRequest, which holds seqnoLock.
ScheduleRequest(i) ==
    /\ IssuerAt(i, "found")
    /\ LET ec == issuer[i].ec IN
         /\ lastRequestNo' = [lastRequestNo EXCEPT ![ec] = @ + 1]
         /\ issuer' = [issuer EXCEPT ![i].pc = "scheduled", ![i].home = ec,
                                     ![i].no = lastRequestNo[ec] + 1]
         /\ Push(ec, i)
    /\ UNCHANGED <<current, responsedict, handler, clientvars, faults>>

\* waitOnRequestCompletion: another lookup, then the wait on its condition.
StartWaiting(i) ==
    /\ IssuerAt(i, "scheduled")
    /\ issuer' = [issuer EXCEPT ![i].pc = "waiting", ![i].ec = current]
    /\ UNCHANGED <<ecvars, handler, clientvars, faults>>

ResponsesFor(h, no) == {r \in responsedict[h] : r[1] = no}
ResponseArrived(h, no) == ResponsesFor(h, no) # {}

StopWaiting(i) ==
    /\ IssuerAt(i, "waiting")
    /\ ResponseArrived(issuer[i].ec, issuer[i].no)
    /\ issuer' = [issuer EXCEPT ![i].pc = "arrived"]
    /\ UNCHANGED <<ecvars, handler, clientvars, faults>>

\* Faulty variant: a wait that timed out is begun again.
WaitAgain(i) ==
    /\ IssuerAt(i, "waiting")
    /\ ~ResponseArrived(issuer[i].ec, issuer[i].no)
    /\ issuer' = [issuer EXCEPT ![i].pc = "scheduled"]
    /\ UNCHANGED <<ecvars, handler, clientvars, faults>>

\* No response within 30 seconds: DEADLINE_EXCEEDED, and nothing is purged.
TimeOut(i) ==
    /\ IssuerAt(i, "waiting")
    /\ ~ResponseArrived(issuer[i].ec, issuer[i].no)
    /\ issuer' = [issuer EXCEPT ![i].pc = "timeout"]
    /\ UNCHANGED <<ecvars, handler, clientvars, faults>>

\* getResponseOfRequestNo: a lookup again; False when nothing is there.
GetResponse(i) ==
    /\ IssuerAt(i, "arrived")
    /\ \/ /\ ~ResponseArrived(current, issuer[i].no)
          /\ issuer' = [issuer EXCEPT ![i].pc = "purging"]
       \/ \E r \in ResponsesFor(current, issuer[i].no) :
              issuer' = [issuer EXCEPT ![i].pc = "purging", ![i].answer = r[2]]
    /\ UNCHANGED <<ecvars, handler, clientvars, faults>>

\* Faulty variant: the whole dictionary is emptied.
PurgeAll(i) ==
    /\ IssuerAt(i, "purging")
    /\ responsedict' = [responsedict EXCEPT ![current] = {}]
    /\ issuer' = [issuer EXCEPT ![i].pc =
                     IF issuer[i].answer = None THEN "failed" ELSE "done"]
    /\ UNCHANGED <<current, jobqueue, lastRequestNo, handler, clientvars, faults>>

\* purgeResponseOfRequestNo: the last lookup.  The call then returns its
\* answer, or fails when False has no requestNo to set.
PurgeResponse(i) ==
    /\ IssuerAt(i, "purging")
    /\ responsedict' = [responsedict EXCEPT
                          ![current] = @ \ ResponsesFor(current, issuer[i].no)]
    /\ issuer' = [issuer EXCEPT ![i].pc =
                     IF issuer[i].answer = None THEN "failed" ELSE "done"]
    /\ UNCHANGED <<current, jobqueue, lastRequestNo, handler, clientvars, faults>>

-----------------------------------------------------------------------------
(* The client's answers.                                                    *)

\* A pool thread is done with its request and calls putClientResponse.
Respond(i) ==
    /\ i \in busy
    /\ busy' = busy \ {i}
    /\ calls' = calls \cup {i}
    /\ UNCHANGED <<ecvars, handler, issuer, stream, orphans, faults>>

\* addNewResponseToRequest: setResponse of the registration there is now, or
\* a message that the client does not exist.
PutClientResponse(i) ==
    /\ i \in calls \cup orphans
    /\ IF current = None
       THEN UNCHANGED responsedict
       ELSE responsedict' = [responsedict EXCEPT ![current] =
                (@ \ ResponsesFor(current, issuer[i].no)) \cup {<<issuer[i].no, i>>}]
    /\ calls' = calls \ {i} /\ orphans' = orphans \ {i}
    /\ UNCHANGED <<current, jobqueue, lastRequestNo, handler, issuer, stream,
                   busy, faults>>

-----------------------------------------------------------------------------
(* Failures.                                                                *)

Fault == faults < MaxFaults /\ faults' = faults + 1

\* Calls whose connection breaks may or may not have reached the server.
LoseCalls ==
    /\ \E lost \in SUBSET calls : orphans' = orphans \cup (calls \ lost)
    /\ calls' = {}

\* Faulty variant: the client works again on what it could not answer.
BreakConnectionAndRepeat ==
    /\ Fault
    /\ stream # None
    /\ stream' = None
    /\ busy' = busy \cup calls
    /\ calls' = {}
    /\ UNCHANGED <<ecvars, handler, issuer, orphans>>

\* The client notices, the thread of the server does not.
BreakConnection ==
    /\ Fault
    /\ stream # None
    /\ stream' = None
    /\ LoseCalls
    /\ UNCHANGED <<ecvars, handler, issuer, busy>>

ClientCrash ==
    /\ Fault
    /\ stream' = None
    /\ LoseCalls
    /\ busy' = {}
    /\ UNCHANGED <<ecvars, handler, issuer>>

\* The upsert fails after the new ExternalClient has replaced the old one.
RegistrationFails(h) ==
    /\ Fault
    /\ HandlerAt(h, "logging")
    /\ HandlerGoes(h, "dead")
    /\ stream' = StreamWithout(h)
    /\ UNCHANGED <<ecvars, issuer, busy, calls, orphans>>

\* A new server process knows no client and no request.
ServerRestart ==
    /\ Fault
    /\ current' = None
    /\ jobqueue' = [h \in Handlers |-> <<>>]
    /\ responsedict' = [h \in Handlers |-> {}]
    /\ handler' = [h \in Handlers |->
                     IF HandlerAt(h, "unused") THEN handler[h]
                     ELSE [NewHandler EXCEPT !.pc = "dead"]]
    /\ issuer' = [i \in Issuers |->
                    IF issuer[i].pc \in {"idle", "done", "timeout"} THEN issuer[i]
                    ELSE [issuer[i] EXCEPT !.pc = "failed"]]
    /\ stream' = None
    /\ calls' = {} /\ orphans' = {}
    /\ UNCHANGED <<lastRequestNo, busy>>

-----------------------------------------------------------------------------
HandlerStep(h) ==
    \/ ScheduleDeletion(h) \/ AddClient(h) \/ LogRegistration(h) \/ LookUp(h)
    \/ GetRequest(h) \/ YieldRequest(h) \/ YieldToNobody(h)

\* The part of an issuer's call that does not depend on the clock.
IssuerStep(i) ==
    \/ ScheduleRequest(i) \/ StartWaiting(i) \/ StopWaiting(i)
    \/ GetResponse(i) \/ PurgeResponse(i)

Next ==
    \/ \E h \in Handlers : Register(h) \/ HandlerStep(h) \/ RegistrationFails(h)
    \/ \E i \in Issuers :
          \/ FindClient(i) \/ IssuerStep(i) \/ TimeOut(i)
          \/ Respond(i) \/ PutClientResponse(i)
    \/ BreakConnection \/ ClientCrash \/ ServerRestart

Spec == Init /\ [][Next]_vars

\* Threads of both programs go on when they can, and so do calls on their
\* way; nobody has to issue a request, and no timeout has to expire.
Fairness ==
    /\ \A h \in Handlers : WF_vars(HandlerStep(h))
    /\ \A i \in Issuers : WF_vars(IssuerStep(i))
                          /\ WF_vars(Respond(i) \/ PutClientResponse(i))

\* The condition variable's timeout does expire.
Timeouts == \A i \in Issuers : WF_vars(TimeOut(i))

FairSpec == Spec /\ Fairness

-----------------------------------------------------------------------------
(* Properties.                                                              *)

\* Two requests that were scheduled at the same registration are never taken
\* for each other, whatever re-registrations, late responses and purges
\* happen in between.
SameRegistrationNeverConfused ==
    \A i \in Issuers :
        LET j == issuer[i].answer IN
        j \notin {None, i} => issuer[j].home # issuer[i].home

\* Nobody who has found the client registered finds it missing at a later
\* lookup of the same call: loggedInClients[uid] never raises a KeyError.
LookupsSucceed ==
    /\ \A h \in Handlers :
          /\ handler[h].pc \in {"logging", "looking", "getting", "yielding"}
                => current # None
          /\ HandlerAt(h, "getting") => handler[h].at # None
    /\ \A i \in Issuers :
          /\ issuer[i].pc \in {"found", "scheduled", "waiting", "arrived", "purging"}
                => current # None
          /\ issuer[i].pc \in {"found", "waiting"} => issuer[i].ec # None

\* The None that ends a handler is never meant for a later registration: the
\* handler of the present registration ends only while the call that replaces
\* it is between its two steps.
EndedOnlyWhenReplaced ==
    \A h \in Handlers :
        HandlerAt(h, "ended") /\ current = h =>
            \E g \in Handlers \ {h} : HandlerAt(g, "adding")

\* A request is in one queue, one handler, the client's pool or a response on
\* its way, once: competing handlers never make the client execute it twice.
Queued(h, i) == \E k \in DOMAIN jobqueue[h] : jobqueue[h][k] = i
Places(i) == {<<"queue", h>> : h \in {h \in Handlers : Queued(h, i)}}
        \cup {<<"handler", h>> : h \in {h \in Handlers : handler[h].job = i}}
        \cup {<<"client", s>> : s \in {s \in {"busy", "calls", "orphans"} :
                                         \/ s = "busy" /\ i \in busy
                                         \/ s = "calls" /\ i \in calls
                                         \/ s = "orphans" /\ i \in orphans}}
InOnePlace ==
    \A i \in Issuers :
        /\ \A p, q \in Places(i) : p = q
        /\ \A h \in Handlers : \A k, l \in DOMAIN jobqueue[h] :
              jobqueue[h][k] = i /\ jobqueue[h][l] = i => k = l

\* How far the request has got, and what has become of the call that made it.
Stage(i) ==
    IF issuer[i].home = None THEN "new"
    ELSE IF i \in busy THEN "executing"
    ELSE IF i \in calls \cup orphans THEN "replying"
    ELSE IF \E h \in Handlers : Queued(h, i) \/ handler[h].job = i THEN "pending"
    ELSE "over"
Outcome(i) ==
    IF IssuerAt(i, "done") THEN "returned"
    ELSE IF issuer[i].pc \in {"timeout", "failed"} THEN "failed" ELSE "open"
AnswerOf(i) == IF IssuerAt(i, "done") THEN issuer[i].answer ELSE None
ResponsesHeld ==
    {j \in Issuers : \/ \E h \in Handlers : \E r \in responsedict[h] : r[2] = j
                     \/ \E i \in Issuers : issuer[i].answer = j}

Promise == INSTANCE RequestReply WITH
    Requests <- Issuers,
    stage <- [i \in Issuers |-> Stage(i)],
    call <- [i \in Issuers |-> Outcome(i)],
    answer <- [i \in Issuers |-> AnswerOf(i)],
    inbox <- ResponsesHeld

\* A request goes from queue to client to response and never back, through
\* whatever registrations, crashes and lost calls, and a call returns only a
\* response that was put for a request: the dispatch implements RequestReply.
ImplementsRequestReply == Promise!RSpec

\* As long as the client stays connected, a request gets its response: no
\* wakeup is lost between the queue, the stream and the condition variable.
Finished(i) == issuer[i].pc \in {"done", "timeout", "failed"}
ConnectedClientAnswers ==
    [](faults = 0) =>
        \A i \in Issuers : IssuerAt(i, "scheduled")
                             ~> (Finished(i) /\ issuer[i].answer \in {i, None})

\* Without a fault no call fails, and each returns the response to its own
\* request or times out.
FaultlessCallsSucceed ==
    faults = 0 => \A i \in Issuers : /\ ~IssuerAt(i, "failed")
                                     /\ IssuerAt(i, "done") => issuer[i].answer = i

\* If the timeouts expire, a manager's call comes to an end in all
\* circumstances, even if it waits at a registration that nobody answers at.
CallsReturn ==
    Timeouts => \A i \in Issuers : IssuerAt(i, "scheduled") ~> Finished(i)

\* "A sequence number like identifier to identify responses" and "requestNo of
\* the request this response belongs to" (api.proto): a call returns the
\* response to its own request.
OwnResponse == \A i \in Issuers : issuer[i].answer \in {None, i}
=============================================================================
