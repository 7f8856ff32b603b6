----------------------- MODULE RequestDispatchProofs -----------------------
(***************************************************************************)
(* RequestDispatch, for any number of registrations, requests and faults:  *)
(* lookups succeed, and requests of one registration are never confused.   *)
(***************************************************************************)
EXTENDS RequestDispatch, TLAPS

-----------------------------------------------------------------------------
(* The inductive invariant.  Responses carry a bare number, so that what    *)
(* keeps two requests of one registration apart is that numbers are given   *)
(* out once per registration, together with the fact that whatever travels  *)
(* (in a queue, to the client, back as a response) has been given one.      *)

Scheduled == {i \in Issuers : issuer[i].home # None}

Underway == {"scheduled", "waiting", "arrived", "purging"}

\* A request has a number from the moment it is put into a queue.
NumberedWhenScheduled ==
    \A i \in Issuers :
        /\ issuer[i].pc \in {"idle", "found"} => i \notin Scheduled /\ issuer[i].answer = None
        /\ issuer[i].pc \in Underway => i \in Scheduled
        /\ i \in Scheduled => issuer[i].no <= lastRequestNo[issuer[i].home]

NumbersUnique ==
    \A i, j \in Scheduled :
        issuer[i].home = issuer[j].home /\ issuer[i].no = issuer[j].no => i = j

OnlyScheduledTravel ==
    /\ \A h \in Handlers :
          /\ \A k \in DOMAIN jobqueue[h] : jobqueue[h][k] \in Scheduled \cup {None}
          /\ handler[h].job \in Scheduled \cup {None}
          /\ handler[h].pc = "yielding" => handler[h].job # None
    /\ busy \cup calls \cup orphans \subseteq Scheduled

\* A dictionary knows a response by the number of the request it answers.
ResponsesNumbered ==
    \A h \in Handlers : \A r \in responsedict[h] :
        r[2] \in Scheduled /\ r[1] = issuer[r[2]].no

AnswersNumbered ==
    \A i \in Issuers :
        issuer[i].answer # None =>
            /\ issuer[i].answer \in Scheduled
            /\ i \in Scheduled
            /\ issuer[issuer[i].answer].no = issuer[i].no

IInv == /\ TypeOK
        /\ LookupsSucceed
        /\ NumberedWhenScheduled
        /\ NumbersUnique
        /\ OnlyScheduledTravel
        /\ ResponsesNumbered
        /\ AnswersNumbered

-----------------------------------------------------------------------------
(* Type correctness of the steps.                                           *)

HandlerPCs == {"unused", "entered", "adding", "logging", "looking", "getting",
               "yielding", "ended", "dead"}

LEMMA InitTypeOK == Init => TypeOK
<1> SUFFICES ASSUME Init PROVE TypeOK
  OBVIOUS
<1>1. NewHandler \in HandlerState /\ NewIssuer \in IssuerState
  BY DEF NewHandler, HandlerState, NewIssuer, IssuerState
<1>2. handler \in [Handlers -> HandlerState] /\ issuer \in [Issuers -> IssuerState]
  BY <1>1 DEF Init
<1>3. <<>> \in Seq(Issuers \cup {None})
  OBVIOUS
<1>4. jobqueue \in [Handlers -> Seq(Issuers \cup {None})]
  BY <1>3 DEF Init
<1>5. responsedict \in [Handlers -> SUBSET (Nat \X Issuers)]
  BY DEF Init
<1> QED
  BY <1>2, <1>4, <1>5 DEF Init, TypeOK

\* No handler gets a new request to yield.
HandlersQuiet ==
    \A h \in Handlers :
        /\ handler'[h].job \in {handler[h].job, None}
        /\ handler'[h].pc = "yielding" => handler'[h] = handler[h]

LEMMA HandlerGoesType ==
  ASSUME TypeOK, NEW h \in Handlers, NEW pc \in HandlerPCs, HandlerGoes(h, pc)
  PROVE  /\ handler' \in [Handlers -> HandlerState]
         /\ handler'[h] = [handler[h] EXCEPT !.pc = pc]
         /\ handler'[h].pc = pc /\ handler'[h].at = handler[h].at
         /\ handler'[h].job = handler[h].job
         /\ \A g \in Handlers \ {h} : handler'[g] = handler[g]
         /\ pc # "yielding" => HandlersQuiet
  BY DEF TypeOK, HandlerGoes, HandlerState, HandlerPCs, HandlersQuiet

LEMMA PushType ==
  ASSUME TypeOK, NEW h \in Handlers, NEW job \in Issuers \cup {None}, Push(h, job)
  PROVE  /\ jobqueue' \in [Handlers -> Seq(Issuers \cup {None})]
         /\ \A g \in Handlers : \A k \in DOMAIN jobqueue'[g] :
               \/ jobqueue'[g][k] = job
               \/ \E l \in DOMAIN jobqueue[g] : jobqueue'[g][k] = jobqueue[g][l]
<1>1. jobqueue[h] \in Seq(Issuers \cup {None})
  BY DEF TypeOK
<1>2. <<job>> \o jobqueue[h] \in Seq(Issuers \cup {None})
  BY <1>1
<1>3. ASSUME NEW k \in DOMAIN (<<job>> \o jobqueue[h])
      PROVE  \/ (<<job>> \o jobqueue[h])[k] = job
             \/ \E l \in DOMAIN jobqueue[h] : (<<job>> \o jobqueue[h])[k] = jobqueue[h][l]
  <2>1. CASE k = 1
    BY <1>1, <2>1
  <2>2. CASE k # 1
    <3>1. k \in Nat /\ k - 1 \in DOMAIN jobqueue[h]
      BY <1>1, <2>2
    <3>2. (<<job>> \o jobqueue[h])[k] = jobqueue[h][k - 1]
      BY <1>1, <3>1, <2>2
    <3> QED
      BY <3>1, <3>2
  <2> QED
    BY <2>1, <2>2
<1> QED
  BY <1>2, <1>3 DEF TypeOK, Push

-----------------------------------------------------------------------------
(* Steps that give out no number.                                           *)

\* No request is numbered or rescheduled, and an answer that is got is one to
\* the number of the call.
IssuersQuiet ==
    /\ UNCHANGED lastRequestNo
    /\ \A i \in Issuers :
          /\ issuer'[i].home = issuer[i].home /\ issuer'[i].no = issuer[i].no
          /\ issuer'[i].pc \in {"idle", "found"} =>
                issuer[i].pc \in {"idle", "found"} /\ issuer'[i].answer = issuer[i].answer
          /\ issuer'[i].pc \in Underway => issuer[i].pc \in Underway
          /\ \/ issuer'[i].answer = issuer[i].answer
             \/ /\ i \in Scheduled /\ issuer'[i].answer \in Scheduled
                /\ issuer[issuer'[i].answer].no = issuer[i].no

TravelQuiet ==
    /\ \A h \in Handlers : \A k \in DOMAIN jobqueue'[h] :
          jobqueue'[h][k] \in Scheduled \cup {None}
    /\ \A h \in Handlers :
          /\ handler'[h].job \in Scheduled \cup {None}
          /\ handler'[h].pc = "yielding" => handler'[h].job # None
    /\ busy' \cup calls' \cup orphans' \subseteq Scheduled

ResponsesQuiet ==
    \A h \in Handlers : \A r \in responsedict'[h] :
        r[2] \in Scheduled /\ r[1] = issuer[r[2]].no

LEMMA QuietIInv ==
  ASSUME IInv, TypeOK', LookupsSucceed', IssuersQuiet, TravelQuiet, ResponsesQuiet
  PROVE  IInv'
<1>1. Scheduled' = Scheduled
  BY DEF IssuersQuiet, Scheduled
<1>2. \A i \in Scheduled : i \in Issuers
  BY DEF Scheduled
<1>3. NumberedWhenScheduled'
  BY <1>1, <1>2 DEF IInv, NumberedWhenScheduled, IssuersQuiet
<1>4. NumbersUnique'
  BY <1>1, <1>2 DEF IInv, NumbersUnique, IssuersQuiet
<1>5. OnlyScheduledTravel'
  BY <1>1 DEF TravelQuiet, OnlyScheduledTravel
<1>6. ResponsesNumbered'
  BY <1>1, <1>2 DEF ResponsesQuiet, ResponsesNumbered, IssuersQuiet
<1>7. AnswersNumbered'
  BY <1>1, <1>2 DEF IInv, AnswersNumbered, IssuersQuiet
<1> QED
  BY <1>3, <1>4, <1>5, <1>6, <1>7 DEF IInv

LEMMA UnchangedIssuers ==
  ASSUME IInv, UNCHANGED <<issuer, lastRequestNo>> PROVE IssuersQuiet
  BY DEF IssuersQuiet

LEMMA UnchangedTravel ==
  ASSUME IInv, UNCHANGED <<jobqueue, busy, calls, orphans>>, HandlersQuiet
  PROVE  TravelQuiet
  BY DEF TravelQuiet, HandlersQuiet, IInv, OnlyScheduledTravel, HandlerAt

LEMMA UnchangedResponses ==
  ASSUME IInv, UNCHANGED responsedict PROVE ResponsesQuiet
  BY DEF ResponsesQuiet, IInv, ResponsesNumbered

-----------------------------------------------------------------------------
(* The handler's steps.                                                     *)

LEMMA RegisterIInv ==
  ASSUME IInv, NEW h \in Handlers, Register(h) PROVE IInv'
<1> USE DEF ecvars, clientvars
<1>1. TypeOK
  BY DEF IInv
<1>2. HandlerGoes(h, "entered")
  BY DEF Register
<1>3. TypeOK'
  BY <1>1, <1>2, HandlerGoesType DEF Register, TypeOK, HandlerPCs
<1>4. LookupsSucceed'
  BY <1>1, <1>2, HandlerGoesType, ZenonT(40) DEF Register, HandlerPCs, IInv, LookupsSucceed, HandlerAt
<1>5. HandlersQuiet
  BY <1>1, <1>2, HandlerGoesType DEF HandlerPCs
<1> QED
  BY <1>3, <1>4, <1>5, QuietIInv, UnchangedIssuers, UnchangedTravel, UnchangedResponses
     DEF Register

LEMMA ScheduleDeletionIInv ==
  ASSUME IInv, NEW h \in Handlers, ScheduleDeletion(h) PROVE IInv'
<1> USE DEF ecvars, clientvars
<1>1. TypeOK
  BY DEF IInv
<1>2. HandlerGoes(h, "adding")
  BY DEF ScheduleDeletion
<1>3. /\ jobqueue' \in [Handlers -> Seq(Issuers \cup {None})]
      /\ \A g \in Handlers : \A k \in DOMAIN jobqueue'[g] :
            \/ jobqueue'[g][k] = None
            \/ \E l \in DOMAIN jobqueue[g] : jobqueue'[g][k] = jobqueue[g][l]
  <2>1. CASE current = None
    BY <1>1, <2>1 DEF ScheduleDeletion, TypeOK
  <2>2. CASE current # None
    BY <1>1, <2>2, PushType, SMTT(30) DEF ScheduleDeletion, TypeOK
  <2> QED
    BY <2>1, <2>2
<1>4. TypeOK'
  BY <1>1, <1>2, <1>3, HandlerGoesType DEF ScheduleDeletion, TypeOK, HandlerPCs
<1>5. LookupsSucceed'
  BY <1>1, <1>2, HandlerGoesType, ZenonT(40)
     DEF ScheduleDeletion, HandlerPCs, IInv, LookupsSucceed, HandlerAt
<1>6. HandlersQuiet
  BY <1>1, <1>2, HandlerGoesType DEF HandlerPCs
<1>7. TravelQuiet
  <2>1. ASSUME NEW g \in Handlers, NEW k \in DOMAIN jobqueue'[g]
        PROVE  jobqueue'[g][k] \in Scheduled \cup {None}
    BY <1>3 DEF IInv, OnlyScheduledTravel
  <2> QED
    BY <1>6, <2>1 DEF ScheduleDeletion, TravelQuiet, HandlersQuiet, IInv, OnlyScheduledTravel
<1> QED
  BY <1>4, <1>5, <1>7, QuietIInv, UnchangedIssuers, UnchangedResponses DEF ScheduleDeletion

LEMMA AddClientIInv ==
  ASSUME IInv, NEW h \in Handlers,
         AddClient(h) \/ LogRegistration(h) \/ RegistrationFails(h)
  PROVE  IInv'
<1> USE DEF ecvars, clientvars
<1>1. TypeOK
  BY DEF IInv
<1>2. PICK pc \in {"logging", "looking", "dead"} :
         /\ HandlerGoes(h, pc)
         /\ pc = "logging" => current' = h
         /\ pc # "logging" => current' = current /\ HandlerAt(h, "logging")
  BY DEF AddClient, LogRegistration, RegistrationFails
<1>3. TypeOK'
  <2>1. handler' \in [Handlers -> HandlerState]
    BY <1>1, <1>2, HandlerGoesType DEF HandlerPCs
  <2>2. current' \in Handlers \cup {None} /\ stream' \in Handlers \cup {None} /\ faults' \in Nat
    BY <1>1 DEF AddClient, LogRegistration, RegistrationFails, StreamWithout, Fault, TypeOK
  <2> QED
    BY <1>1, <2>1, <2>2 DEF AddClient, LogRegistration, RegistrationFails, TypeOK
<1>4. LookupsSucceed'
  <2>1. UNCHANGED issuer
    BY DEF AddClient, LogRegistration, RegistrationFails
  <2>2. current # None => current' # None
    BY <1>2, NoneAssumption
  <2>3. handler'[h].pc \in {"logging", "looking", "getting", "yielding"} => current' # None
    BY <1>1, <1>2, NoneAssumption, HandlerGoesType
       DEF HandlerPCs, IInv, LookupsSucceed, HandlerAt
  <2> QED
    BY <1>1, <1>2, <2>1, <2>2, <2>3, HandlerGoesType, ZenonT(40)
       DEF HandlerPCs, IInv, LookupsSucceed, HandlerAt
<1>5. HandlersQuiet
  BY <1>1, <1>2, HandlerGoesType DEF HandlerPCs
<1>6. UNCHANGED <<issuer, lastRequestNo, responsedict, jobqueue, busy, calls, orphans>>
  BY DEF AddClient, LogRegistration, RegistrationFails
<1> QED
  BY <1>3, <1>4, <1>5, <1>6, QuietIInv, UnchangedIssuers, UnchangedTravel, UnchangedResponses

LEMMA LookUpIInv ==
  ASSUME IInv, NEW h \in Handlers, LookUp(h) PROVE IInv'
<1> USE DEF ecvars, clientvars
<1>1. TypeOK /\ current # None
  BY DEF IInv, LookUp, LookupsSucceed, HandlerAt
<1>2. /\ handler' \in [Handlers -> HandlerState]
      /\ handler'[h].at = current
      /\ \A g \in Handlers \ {h} : handler'[g] = handler[g]
      /\ HandlersQuiet
  BY <1>1 DEF LookUp, TypeOK, HandlerState, HandlersQuiet
<1>3. TypeOK'
  BY <1>1, <1>2 DEF LookUp, TypeOK
<1>4. LookupsSucceed'
  BY <1>1, <1>2 DEF LookUp, IInv, LookupsSucceed, HandlerAt
<1> QED
  BY <1>2, <1>3, <1>4, QuietIInv, UnchangedIssuers, UnchangedTravel, UnchangedResponses
     DEF LookUp

LEMMA GetRequestIInv ==
  ASSUME IInv, NEW h \in Handlers, GetRequest(h) PROVE IInv'
<1> USE DEF ecvars, clientvars
<1> DEFINE at == handler[h].at
           q == jobqueue[at]
<1>1. /\ TypeOK /\ current # None
      /\ at \in Handlers
      /\ q \in Seq(Issuers \cup {None}) /\ q # <<>>
  BY DEF IInv, GetRequest, LookupsSucceed, HandlerAt, TypeOK, HandlerState
<1>2. /\ Tail(q) \in Seq(Issuers \cup {None})
      /\ \A k \in DOMAIN Tail(q) : k + 1 \in DOMAIN q /\ Tail(q)[k] = q[k + 1]
      /\ 1 \in DOMAIN q /\ Head(q) = q[1]
  BY <1>1
<1>3. Head(q) \in Scheduled \cup {None} /\ Head(q) \in Issuers \cup {None}
  BY <1>1, <1>2 DEF IInv, OnlyScheduledTravel, Scheduled
<1>4. /\ jobqueue' \in [Handlers -> Seq(Issuers \cup {None})]
      /\ \A g \in Handlers : \A k \in DOMAIN jobqueue'[g] :
            jobqueue'[g][k] \in Scheduled \cup {None}
  <2>1. jobqueue' = [jobqueue EXCEPT ![at] = Tail(q)]
    BY DEF GetRequest
  <2>2. \A k \in DOMAIN Tail(q) : Tail(q)[k] \in Scheduled \cup {None}
    BY <1>1, <1>2 DEF IInv, OnlyScheduledTravel
  <2> QED
    BY <1>1, <1>2, <2>1, <2>2 DEF IInv, OnlyScheduledTravel, TypeOK
<1>5. /\ handler' \in [Handlers -> HandlerState]
      /\ handler'[h].pc \in {"ended", "yielding"}
      /\ handler'[h].job \in Scheduled \cup {None}
      /\ handler'[h].pc = "yielding" => handler'[h].job # None
      /\ \A g \in Handlers \ {h} : handler'[g] = handler[g]
  <2>1. CASE Head(q) = None
    <3>1. HandlerGoes(h, "ended")
      BY <2>1 DEF GetRequest
    <3> QED
      BY <1>1, <3>1, HandlerGoesType DEF HandlerPCs, IInv, OnlyScheduledTravel
  <2>2. CASE Head(q) # None
    <3>1. handler' = [handler EXCEPT ![h].pc = "yielding", ![h].job = Head(q)]
      BY <2>2 DEF GetRequest
    <3> QED
      <4>1. handler \in [Handlers -> HandlerState] /\ handler[h] \in HandlerState
        BY <1>1 DEF TypeOK
      <4>2. [handler[h] EXCEPT !.pc = "yielding", !.job = Head(q)] \in HandlerState
        BY <1>3, <4>1 DEF HandlerState
      <4>3. /\ handler' \in [Handlers -> HandlerState]
            /\ handler'[h] = [handler[h] EXCEPT !.pc = "yielding", !.job = Head(q)]
            /\ \A g \in Handlers \ {h} : handler'[g] = handler[g]
        BY <3>1, <4>1, <4>2
      <4>4. handler'[h].pc = "yielding" /\ handler'[h].job = Head(q)
        BY <4>1, <4>3 DEF HandlerState
      <4> QED
        BY <1>3, <2>2, <4>3, <4>4
  <2> QED
    BY <2>1, <2>2
<1>6. TypeOK'
  <2>1. stream' \in Handlers \cup {None}
    BY <1>1 DEF GetRequest, StreamWithout, TypeOK
  <2> QED
    BY <1>1, <1>4, <1>5, <2>1 DEF GetRequest, TypeOK
<1>7. LookupsSucceed'
  BY <1>1, <1>5 DEF GetRequest, IInv, LookupsSucceed, HandlerAt
<1>8. TravelQuiet
  <2>1. \A g \in Handlers :
           /\ handler'[g].job \in Scheduled \cup {None}
           /\ handler'[g].pc = "yielding" => handler'[g].job # None
    BY <1>5 DEF IInv, OnlyScheduledTravel
  <2>2. busy' \cup calls' \cup orphans' \subseteq Scheduled
    BY DEF GetRequest, IInv, OnlyScheduledTravel
  <2> QED
    BY <1>4, <2>1, <2>2 DEF TravelQuiet
<1> QED
  BY <1>6, <1>7, <1>8, QuietIInv, UnchangedIssuers, UnchangedResponses DEF GetRequest

LEMMA YieldIInv ==
  ASSUME IInv, NEW h \in Handlers, YieldRequest(h) \/ YieldToNobody(h) PROVE IInv'
<1> USE DEF ecvars, clientvars
<1>1. TypeOK /\ current # None
  BY DEF IInv, YieldRequest, YieldToNobody, LookupsSucceed, HandlerAt
<1>2. PICK pc \in {"looking", "dead"} :
         handler' = [handler EXCEPT ![h].pc = pc, ![h].job = None]
  BY DEF YieldRequest, YieldToNobody
<1>3. /\ handler' \in [Handlers -> HandlerState]
      /\ handler'[h].pc = pc
      /\ \A g \in Handlers \ {h} : handler'[g] = handler[g]
      /\ HandlersQuiet
  BY <1>1, <1>2, ZenonT(40) DEF TypeOK, HandlerState, HandlersQuiet
<1>4. LookupsSucceed'
  BY <1>1, <1>3 DEF YieldRequest, YieldToNobody, IInv, LookupsSucceed, HandlerAt
<1>5. CASE YieldToNobody(h)
  <2>1. TypeOK'
    BY <1>1, <1>3, <1>5 DEF YieldToNobody, TypeOK
  <2> QED
    BY <1>3, <1>4, <1>5, <2>1, QuietIInv, UnchangedIssuers, UnchangedTravel,
       UnchangedResponses DEF YieldToNobody
<1>6. CASE YieldRequest(h)
  <2>1. /\ handler[h].job \in Scheduled /\ handler[h].job \in Issuers
        /\ busy' = busy \cup {handler[h].job}
    BY <1>6 DEF YieldRequest, HandlerAt, IInv, OnlyScheduledTravel, Scheduled
  <2>2. TypeOK'
    BY <1>1, <1>3, <1>6, <2>1 DEF YieldRequest, TypeOK
  <2>3. TravelQuiet
    BY <1>3, <1>6, <2>1
       DEF YieldRequest, TravelQuiet, HandlersQuiet, IInv, OnlyScheduledTravel, HandlerAt
  <2> QED
    BY <1>4, <1>6, <2>2, <2>3, QuietIInv, UnchangedIssuers, UnchangedResponses
       DEF YieldRequest
<1> QED
  BY <1>5, <1>6

-----------------------------------------------------------------------------
(* The issuer's steps.                                                      *)

LEMMA NothingTravels ==
  ASSUME IInv, UNCHANGED <<jobqueue, handler, busy, calls, orphans>>
  PROVE  TravelQuiet
  BY UnchangedTravel DEF HandlersQuiet

\* The steps that change where a call is and what its last lookup found.
LEMMA IssuerMovesIInv ==
  ASSUME IInv, NEW i \in Issuers,
         FindClient(i) \/ StartWaiting(i) \/ StopWaiting(i) \/ TimeOut(i)
  PROVE  IInv'
<1> USE DEF ecvars, clientvars
<1>1. TypeOK /\ UNCHANGED <<ecvars, handler, clientvars, faults>>
  BY DEF IInv, FindClient, StartWaiting, StopWaiting, TimeOut
<1>2. PICK pc \in {"found", "waiting", "arrived", "timeout"}, ec \in Handlers \cup {None} :
         /\ issuer' = [issuer EXCEPT ![i].pc = pc, ![i].ec = ec]
         /\ pc = "found" => issuer[i].pc = "idle"
         /\ pc \in {"waiting", "arrived"} => issuer[i].pc \in Underway
         /\ pc # "timeout" => current # None
         /\ pc \in {"found", "waiting"} => ec # None
  <2>1. issuer[i] \in IssuerState /\ issuer[i].ec \in Handlers \cup {None}
    BY <1>1 DEF TypeOK, IssuerState
  <2>2. current \in Handlers \cup {None}
    BY <1>1 DEF TypeOK
  <2>3. CASE FindClient(i)
    BY <2>2, <2>3 DEF FindClient, IssuerAt
  <2>4. CASE StartWaiting(i)
    <3>1. current # None
      BY <2>4 DEF StartWaiting, IInv, LookupsSucceed, IssuerAt
    <3> QED
      BY <2>2, <2>4, <3>1 DEF StartWaiting, IssuerAt, Underway
  <2>5. CASE StopWaiting(i) \/ TimeOut(i)
    <3>1. current # None
      BY <2>5 DEF StopWaiting, TimeOut, IInv, LookupsSucceed, IssuerAt
    <3>2. \A pc : [issuer EXCEPT ![i].pc = pc]
                    = [issuer EXCEPT ![i].pc = pc, ![i].ec = issuer[i].ec]
      BY <1>1 DEF TypeOK, IssuerState
    <3> QED
      BY <2>1, <2>5, <3>1, <3>2 DEF StopWaiting, TimeOut, IssuerAt, Underway
  <2> QED
    BY <2>3, <2>4, <2>5
<1>3. /\ issuer' \in [Issuers -> IssuerState]
      /\ issuer'[i].pc = pc /\ issuer'[i].ec = ec
      /\ issuer'[i].home = issuer[i].home /\ issuer'[i].no = issuer[i].no
      /\ issuer'[i].answer = issuer[i].answer
      /\ \A j \in Issuers \ {i} : issuer'[j] = issuer[j]
  BY <1>1, <1>2 DEF TypeOK, IssuerState
<1>4. TypeOK'
  BY <1>1, <1>3 DEF TypeOK
<1>5. LookupsSucceed'
  BY <1>1, <1>2, <1>3 DEF IInv, LookupsSucceed, HandlerAt
<1>6. IssuersQuiet
  BY <1>1, <1>2, <1>3 DEF IssuersQuiet, Underway
<1> QED
  BY <1>1, <1>4, <1>5, <1>6, QuietIInv, NothingTravels, UnchangedResponses

LEMMA GetResponseIInv ==
  ASSUME IInv, NEW i \in Issuers, GetResponse(i) PROVE IInv'
<1> USE DEF ecvars, clientvars
<1>1. TypeOK /\ UNCHANGED <<ecvars, handler, clientvars, faults>>
  BY DEF IInv, GetResponse
<1>2. current \in Handlers
  BY DEF IInv, GetResponse, LookupsSucceed, IssuerAt, TypeOK
<1>3. PICK answer \in Issuers \cup {None} :
         /\ issuer' = [issuer EXCEPT ![i].pc = "purging", ![i].answer = answer]
         /\ \/ answer = issuer[i].answer
            \/ answer \in Scheduled /\ issuer[answer].no = issuer[i].no
  <2>1. CASE issuer' = [issuer EXCEPT ![i].pc = "purging"]
    <3>1. issuer[i] \in IssuerState /\ issuer \in [Issuers -> IssuerState]
      BY <1>1 DEF TypeOK
    <3>2. [issuer EXCEPT ![i].pc = "purging"]
            = [issuer EXCEPT ![i].pc = "purging", ![i].answer = issuer[i].answer]
      BY <3>1 DEF IssuerState
    <3>3. issuer[i].answer \in Issuers \cup {None}
      BY <3>1 DEF IssuerState
    <3> QED
      BY <2>1, <3>2, <3>3
  <2>2. CASE \E r \in ResponsesFor(current, issuer[i].no) :
              issuer' = [issuer EXCEPT ![i].pc = "purging", ![i].answer = r[2]]
    <3>1. PICK r \in responsedict[current] :
              /\ r[1] = issuer[i].no
              /\ issuer' = [issuer EXCEPT ![i].pc = "purging", ![i].answer = r[2]]
      BY <2>2 DEF ResponsesFor
    <3>2. r[2] \in Scheduled /\ r[2] \in Issuers /\ r[1] = issuer[r[2]].no
      BY <1>2 DEF IInv, ResponsesNumbered, Scheduled
    <3> QED
      BY <3>1, <3>2
  <2> QED
    BY <2>1, <2>2 DEF GetResponse
<1>4. /\ issuer' \in [Issuers -> IssuerState]
      /\ issuer'[i].pc = "purging" /\ issuer'[i].answer = answer
      /\ issuer'[i].home = issuer[i].home /\ issuer'[i].no = issuer[i].no
      /\ \A j \in Issuers \ {i} : issuer'[j] = issuer[j]
  <2> DEFINE got == [issuer[i] EXCEPT !.pc = "purging", !.answer = answer]
  <2>1. issuer \in [Issuers -> IssuerState] /\ issuer[i] \in IssuerState
    BY <1>1 DEF TypeOK
  <2>2. issuer' = [issuer EXCEPT ![i] = got]
    BY <1>3, <2>1
  <2>3. /\ got \in IssuerState
        /\ got.pc = "purging" /\ got.answer = answer
        /\ got.home = issuer[i].home /\ got.no = issuer[i].no
    BY <2>1 DEF IssuerState
  <2> HIDE DEF got
  <2> QED
    BY <2>1, <2>2, <2>3
<1>5. TypeOK'
  BY <1>1, <1>4 DEF TypeOK
<1>6. LookupsSucceed'
  BY <1>1, <1>2, <1>4, NoneAssumption DEF IInv, LookupsSucceed, HandlerAt, IssuerAt
<1>7. i \in Scheduled
  BY DEF GetResponse, IInv, NumberedWhenScheduled, Underway, IssuerAt
<1>8. IssuersQuiet
  BY <1>1, <1>3, <1>4, <1>7 DEF GetResponse, IssuersQuiet, Underway, IssuerAt
<1> QED
  BY <1>1, <1>5, <1>6, <1>8, QuietIInv, NothingTravels, UnchangedResponses

LEMMA PurgeResponseIInv ==
  ASSUME IInv, NEW i \in Issuers, PurgeResponse(i) PROVE IInv'
<1> USE DEF ecvars, clientvars
<1>1. TypeOK /\ current \in Handlers
  BY DEF IInv, PurgeResponse, LookupsSucceed, IssuerAt, TypeOK
<1>2. PICK pc \in {"failed", "done"} : issuer' = [issuer EXCEPT ![i].pc = pc]
  BY DEF PurgeResponse
<1>3. /\ issuer' \in [Issuers -> IssuerState]
      /\ issuer'[i].pc = pc
      /\ issuer'[i].home = issuer[i].home /\ issuer'[i].no = issuer[i].no
      /\ issuer'[i].answer = issuer[i].answer
      /\ \A j \in Issuers \ {i} : issuer'[j] = issuer[j]
  BY <1>1, <1>2, ZenonT(40) DEF TypeOK, IssuerState
<1>4. /\ responsedict' \in [Handlers -> SUBSET (Nat \X Issuers)]
      /\ \A h \in Handlers : responsedict'[h] \subseteq responsedict[h]
  BY <1>1 DEF PurgeResponse, TypeOK
<1>5. TypeOK'
  BY <1>1, <1>3, <1>4 DEF PurgeResponse, TypeOK
<1>6. LookupsSucceed'
  BY <1>1, <1>3, NoneAssumption DEF PurgeResponse, IInv, LookupsSucceed, HandlerAt
<1>7. IssuersQuiet
  BY <1>1, <1>3 DEF PurgeResponse, IssuersQuiet, Underway
<1>8. ResponsesQuiet
  BY <1>4 DEF IInv, ResponsesNumbered, ResponsesQuiet
<1> QED
  BY <1>5, <1>6, <1>7, <1>8, QuietIInv, NothingTravels DEF PurgeResponse

\* The only step that gives out a number.
LEMMA ScheduleRequestIInv ==
  ASSUME IInv, NEW i \in Issuers, ScheduleRequest(i) PROVE IInv'
<1> USE DEF ecvars, clientvars
<1> DEFINE ec == issuer[i].ec
           no == lastRequestNo[ec] + 1
<1>1. /\ TypeOK /\ current # None
      /\ ec \in Handlers /\ lastRequestNo[ec] \in Nat
      /\ i \notin Scheduled /\ issuer[i].answer = None
  BY DEF IInv, ScheduleRequest, LookupsSucceed, NumberedWhenScheduled, IssuerAt,
         TypeOK, IssuerState
<1>2. /\ issuer' \in [Issuers -> IssuerState]
      /\ issuer'[i].pc = "scheduled"
      /\ issuer'[i].home = ec /\ issuer'[i].no = no
      /\ issuer'[i].answer = None
      /\ \A j \in Issuers \ {i} : issuer'[j] = issuer[j]
  <2> DEFINE called == [issuer[i] EXCEPT !.pc = "scheduled", !.home = ec, !.no = no]
  <2>1. issuer \in [Issuers -> IssuerState] /\ issuer[i] \in IssuerState /\ no \in Nat
    BY <1>1 DEF TypeOK
  <2>2. issuer' = [issuer EXCEPT ![i] = called]
    BY <2>1 DEF ScheduleRequest, IssuerState
  <2>3. /\ called \in IssuerState
        /\ called.pc = "scheduled" /\ called.home = ec /\ called.no = no
        /\ called.answer = issuer[i].answer
    BY <1>1, <2>1 DEF IssuerState
  <2> HIDE DEF called, ec, no
  <2> QED
    BY <1>1, <2>1, <2>2, <2>3
<1>3. /\ lastRequestNo' \in [Handlers -> Nat]
      /\ lastRequestNo'[ec] = no
      /\ \A h \in Handlers \ {ec} : lastRequestNo'[h] = lastRequestNo[h]
  BY <1>1 DEF ScheduleRequest, TypeOK
<1>4. /\ jobqueue' \in [Handlers -> Seq(Issuers \cup {None})]
      /\ \A h \in Handlers : \A k \in DOMAIN jobqueue'[h] :
            \/ jobqueue'[h][k] = i
            \/ \E l \in DOMAIN jobqueue[h] : jobqueue'[h][k] = jobqueue[h][l]
  BY <1>1, PushType DEF ScheduleRequest
<1>5. TypeOK'
  BY <1>1, <1>2, <1>3, <1>4 DEF ScheduleRequest, TypeOK
<1>6. LookupsSucceed'
  BY <1>1, <1>2 DEF ScheduleRequest, IInv, LookupsSucceed, HandlerAt, IssuerAt
<1>7. Scheduled' = Scheduled \cup {i} /\ Scheduled \subseteq Issuers
  BY <1>1, <1>2, NoneAssumption DEF Scheduled
<1>8. ASSUME NEW j \in Scheduled
      PROVE  /\ j \in Issuers /\ j # i /\ issuer'[j] = issuer[j]
             /\ issuer[j].no \in Nat /\ issuer[j].home \in Handlers
             /\ issuer[j].no <= lastRequestNo[issuer[j].home]
             /\ lastRequestNo[issuer[j].home] \in Nat
  BY <1>1, <1>2 DEF IInv, NumberedWhenScheduled, Scheduled, TypeOK, IssuerState
<1>9. NumberedWhenScheduled'
  <2>1. SUFFICES ASSUME NEW j \in Issuers
                 PROVE  /\ issuer'[j].pc \in {"idle", "found"} =>
                              j \notin Scheduled' /\ issuer'[j].answer = None
                        /\ issuer'[j].pc \in Underway => j \in Scheduled'
                        /\ j \in Scheduled' => issuer'[j].no <= lastRequestNo'[issuer'[j].home]
    BY DEF NumberedWhenScheduled
  <2>2. CASE j = i
    BY <1>1, <1>2, <1>3, <1>7, <2>2
  <2>3. CASE j # i
    <3>1. issuer'[j] = issuer[j] /\ (j \in Scheduled' <=> j \in Scheduled)
      BY <1>2, <1>7, <2>3
    <3>2. j \in Scheduled => issuer[j].no <= lastRequestNo'[issuer[j].home]
      BY <1>1, <1>3, <1>8
    <3> QED
      BY <3>1, <3>2 DEF IInv, NumberedWhenScheduled
  <2> QED
    BY <2>2, <2>3
<1>10. NumbersUnique'
  <2>1. ASSUME NEW j \in Scheduled, issuer[j].home = ec PROVE issuer[j].no # no
    BY <1>1, <1>8, <2>1
  <2> QED
    BY <1>2, <1>7, <1>8, <2>1 DEF IInv, NumbersUnique
<1>11. OnlyScheduledTravel'
  <2>1. ASSUME NEW h \in Handlers, NEW k \in DOMAIN jobqueue'[h]
        PROVE  jobqueue'[h][k] \in Scheduled' \cup {None}
    BY <1>4, <1>7 DEF IInv, OnlyScheduledTravel
  <2> QED
    BY <1>7, <2>1 DEF ScheduleRequest, IInv, OnlyScheduledTravel
<1>12. ResponsesNumbered'
  BY <1>7, <1>8 DEF ScheduleRequest, IInv, ResponsesNumbered
<1>13. AnswersNumbered'
  BY <1>2, <1>7, <1>8 DEF IInv, AnswersNumbered
<1> QED
  BY <1>5, <1>6, <1>9, <1>10, <1>11, <1>12, <1>13 DEF IInv

-----------------------------------------------------------------------------
(* The client's steps and the failures.                                     *)

LEMMA RespondIInv ==
  ASSUME IInv, NEW i \in Issuers, Respond(i) PROVE IInv'
<1> USE DEF ecvars, clientvars
<1>1. TypeOK'
  BY DEF IInv, Respond, TypeOK
<1>2. LookupsSucceed'
  BY DEF Respond, IInv, LookupsSucceed, HandlerAt
<1>3. TravelQuiet
  BY DEF Respond, TravelQuiet, IInv, OnlyScheduledTravel
<1> QED
  BY <1>1, <1>2, <1>3, QuietIInv, UnchangedIssuers, UnchangedResponses DEF Respond

LEMMA PutClientResponseIInv ==
  ASSUME IInv, NEW i \in Issuers, PutClientResponse(i) PROVE IInv'
<1> USE DEF ecvars, clientvars
<1>1. /\ TypeOK /\ i \in Scheduled
      /\ issuer[i].no \in Nat
  BY DEF IInv, PutClientResponse, OnlyScheduledTravel, TypeOK, IssuerState
<1>2. /\ responsedict' \in [Handlers -> SUBSET (Nat \X Issuers)]
      /\ \A h \in Handlers : \A r \in responsedict'[h] :
            r \in responsedict[h] \/ r = <<issuer[i].no, i>>
  <2>1. CASE current = None
    BY <1>1, <2>1 DEF PutClientResponse, TypeOK
  <2>2. CASE current # None
    <3>1. /\ current \in Handlers
          /\ responsedict' = [responsedict EXCEPT ![current] =
                (@ \ ResponsesFor(current, issuer[i].no)) \cup {<<issuer[i].no, i>>}]
      BY <1>1, <2>2 DEF PutClientResponse, TypeOK
    <3> QED
      BY <1>1, <3>1 DEF TypeOK
  <2> QED
    BY <2>1, <2>2
<1>3. ResponsesQuiet
  BY <1>1, <1>2 DEF ResponsesQuiet, IInv, ResponsesNumbered
<1>4. TypeOK'
  BY <1>1, <1>2 DEF PutClientResponse, TypeOK
<1>5. LookupsSucceed'
  BY DEF PutClientResponse, IInv, LookupsSucceed, HandlerAt
<1>6. TravelQuiet
  BY DEF PutClientResponse, TravelQuiet, IInv, OnlyScheduledTravel
<1> QED
  BY <1>3, <1>4, <1>5, <1>6, QuietIInv, UnchangedIssuers DEF PutClientResponse

LEMMA ConnectionLostIInv ==
  ASSUME IInv, BreakConnection \/ ClientCrash PROVE IInv'
<1> USE DEF ecvars
<1>1. /\ UNCHANGED <<ecvars, handler, issuer>>
      /\ busy' \subseteq busy /\ calls' = {} /\ orphans' \subseteq orphans \cup calls
      /\ stream' = None /\ faults' = faults + 1
  BY DEF BreakConnection, ClientCrash, LoseCalls, Fault
<1>2. TypeOK'
  BY <1>1 DEF IInv, TypeOK
<1>3. LookupsSucceed'
  BY <1>1 DEF IInv, LookupsSucceed, HandlerAt
<1>4. TravelQuiet
  BY <1>1 DEF TravelQuiet, IInv, OnlyScheduledTravel
<1> QED
  BY <1>1, <1>2, <1>3, <1>4, QuietIInv, UnchangedIssuers, UnchangedResponses

LEMMA ServerRestartIInv ==
  ASSUME IInv, ServerRestart PROVE IInv'
<1>1. TypeOK
  BY DEF IInv
<1>2. \A h \in Handlers :
         /\ handler'[h] \in HandlerState
         /\ handler'[h].pc \in {"unused", "dead"}
         /\ handler'[h].job \in Scheduled \cup {None}
  <2> TAKE h \in Handlers
  <2>1. CASE HandlerAt(h, "unused")
    BY <1>1, <2>1 DEF ServerRestart, TypeOK, HandlerAt, IInv, OnlyScheduledTravel
  <2>2. CASE ~HandlerAt(h, "unused")
    <3>1. handler'[h] = [NewHandler EXCEPT !.pc = "dead"]
      BY <2>2 DEF ServerRestart
    <3> QED
      BY <3>1 DEF NewHandler, HandlerState
  <2> QED
    BY <2>1, <2>2
<1>3. \A i \in Issuers :
         /\ issuer'[i] \in IssuerState
         /\ issuer'[i].pc \in {"idle", "done", "timeout", "failed"}
         /\ issuer'[i].pc = "idle" => issuer[i].pc = "idle"
         /\ issuer'[i].home = issuer[i].home /\ issuer'[i].no = issuer[i].no
         /\ issuer'[i].answer = issuer[i].answer
  BY <1>1, ZenonT(40) DEF ServerRestart, TypeOK, IssuerState
<1>4. TypeOK'
  <2>1. handler' \in [Handlers -> HandlerState] /\ issuer' \in [Issuers -> IssuerState]
    BY <1>2, <1>3 DEF ServerRestart
  <2>2. <<>> \in Seq(Issuers \cup {None})
    OBVIOUS
  <2>3. jobqueue' \in [Handlers -> Seq(Issuers \cup {None})]
    BY <2>2 DEF ServerRestart
  <2>4. responsedict' \in [Handlers -> SUBSET (Nat \X Issuers)]
    BY DEF ServerRestart
  <2>5. /\ current' = None /\ stream' = None /\ calls' = {} /\ orphans' = {}
        /\ busy' = busy /\ lastRequestNo' = lastRequestNo /\ faults' = faults + 1
    BY DEF ServerRestart, Fault
  <2> QED
    BY <1>1, <2>1, <2>3, <2>4, <2>5 DEF TypeOK
<1>5. LookupsSucceed'
  BY <1>2, <1>3 DEF LookupsSucceed, HandlerAt
<1>6. IssuersQuiet
  BY <1>3 DEF ServerRestart, IssuersQuiet, Underway
<1>7. TravelQuiet
  <2>1. \A h \in Handlers : jobqueue'[h] = <<>>
    BY DEF ServerRestart
  <2>2. \A h \in Handlers : \A k \in DOMAIN jobqueue'[h] :
           jobqueue'[h][k] \in Scheduled \cup {None}
    BY <2>1
  <2> QED
    BY <1>2, <2>2 DEF ServerRestart, TravelQuiet, IInv, OnlyScheduledTravel
<1>8. ResponsesQuiet
  BY DEF ServerRestart, ResponsesQuiet
<1> QED
  BY <1>4, <1>5, <1>6, <1>7, <1>8, QuietIInv

-----------------------------------------------------------------------------
(* The theorems.                                                            *)

LEMMA InitIInv == Init => IInv
<1> SUFFICES ASSUME Init PROVE IInv
  OBVIOUS
<1>1. /\ \A h \in Handlers : handler[h] = NewHandler /\ jobqueue[h] = <<>> /\ responsedict[h] = {}
      /\ \A i \in Issuers : issuer[i] = NewIssuer
  BY DEF Init
<1>2. Scheduled = {}
  BY <1>1 DEF Scheduled, NewIssuer
<1>3. LookupsSucceed
  BY <1>1 DEF LookupsSucceed, HandlerAt, IssuerAt, NewHandler, NewIssuer
<1>4. NumberedWhenScheduled /\ AnswersNumbered
  BY <1>1, <1>2 DEF NumberedWhenScheduled, AnswersNumbered, Underway, NewIssuer
<1>5. NumbersUnique /\ ResponsesNumbered
  BY <1>1, <1>2 DEF NumbersUnique, ResponsesNumbered
<1>6. OnlyScheduledTravel
  BY <1>1 DEF Init, OnlyScheduledTravel, NewHandler
<1> QED
  BY InitTypeOK, <1>3, <1>4, <1>5, <1>6 DEF IInv

LEMMA StepIInv == IInv /\ [Next]_vars => IInv'
<1> SUFFICES ASSUME IInv, [Next]_vars PROVE IInv'
  OBVIOUS
<1>1. CASE UNCHANGED vars
  <2>1. TypeOK' /\ LookupsSucceed'
    BY <1>1 DEF vars, IInv, TypeOK, LookupsSucceed, HandlerAt, IssuerAt
  <2> QED
    BY <1>1, <2>1, QuietIInv, UnchangedIssuers, NothingTravels, UnchangedResponses DEF vars
<1> QED
  BY <1>1, RegisterIInv, ScheduleDeletionIInv, AddClientIInv, LookUpIInv, GetRequestIInv,
     YieldIInv, IssuerMovesIInv, GetResponseIInv, PurgeResponseIInv, ScheduleRequestIInv,
     RespondIInv, PutClientResponseIInv, ConnectionLostIInv, ServerRestartIInv
     DEF Next, HandlerStep, IssuerStep

LEMMA InductiveInvariant == Spec => []IInv
<1>1. Init => IInv
  BY InitIInv
<1>2. IInv /\ [Next]_vars => IInv'
  BY StepIInv
<1> QED
  BY <1>1, <1>2, PTL DEF Spec

\* The state is always well typed.
THEOREM TypeCorrect == Spec => []TypeOK
<1>1. IInv => TypeOK
  BY DEF IInv
<1> QED
  BY <1>1, InductiveInvariant, PTL

\* A thread that has found the client registered finds it at every later
\* lookup: re-registration replaces the entry and never leaves a gap.
THEOREM LookupsAlwaysSucceed == Spec => []LookupsSucceed
<1>1. IInv => LookupsSucceed
  BY DEF IInv
<1> QED
  BY <1>1, InductiveInvariant, PTL

\* Responses of one registration are never mixed up, however many requests,
\* re-registrations, late responses and timeouts there are.
THEOREM NeverConfused == Spec => []SameRegistrationNeverConfused
<1>1. IInv => SameRegistrationNeverConfused
  <2> SUFFICES ASSUME IInv, NEW i \in Issuers, issuer[i].answer \notin {None, i}
               PROVE  issuer[issuer[i].answer].home # issuer[i].home
    BY DEF SameRegistrationNeverConfused
  <2>1. /\ issuer[i].answer \in Scheduled /\ i \in Scheduled
        /\ issuer[issuer[i].answer].no = issuer[i].no
    BY DEF IInv, AnswersNumbered
  <2> QED
    BY <2>1 DEF IInv, NumbersUnique
<1> QED
  BY <1>1, InductiveInvariant, PTL
=============================================================================
