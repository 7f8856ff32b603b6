--------------------- MODULE RequestDispatchPlacesProofs ---------------------
(***************************************************************************)
(* RequestDispatch, for any number of registrations, requests and faults:  *)
(* the None that ends a handler never ends that of the present             *)
(* registration too early, a request is never in two places, without a     *)
(* fault no call fails, and the dispatch implements RequestReply.          *)
(***************************************************************************)
EXTENDS RequestDispatchProofs

-----------------------------------------------------------------------------
(* What the steps do to the queues.  Queued(h, None) says that a None waits *)
(* in the queue of h.                                                       *)

NoRepeat(h, i) ==
    \A k, l \in DOMAIN jobqueue[h] : jobqueue[h][k] = i /\ jobqueue[h][l] = i => k = l

LEMMA PushQueues ==
  ASSUME TypeOK, NEW h \in Handlers, NEW job \in Issuers \cup {None}, Push(h, job)
  PROVE  /\ \A g \in Handlers, i \in Issuers \cup {None} :
               Queued(g, i)' <=> (g = h /\ i = job) \/ Queued(g, i)
         /\ \A g \in Handlers, i \in Issuers \cup {None} :
               NoRepeat(g, i) /\ (i = job => ~Queued(g, i)) => NoRepeat(g, i)'
<1> DEFINE q == jobqueue[h]
           n == Len(jobqueue[h])
<1>1. /\ jobqueue \in [Handlers -> Seq(Issuers \cup {None})]
      /\ q \in Seq(Issuers \cup {None})
  BY DEF TypeOK
<1>2. jobqueue'[h] = <<job>> \o q /\ \A g \in Handlers \ {h} : jobqueue'[g] = jobqueue[g]
  BY <1>1 DEF Push
<1>3. /\ DOMAIN (<<job>> \o q) = 1 .. n + 1
      /\ DOMAIN q = 1 .. n /\ n \in Nat
      /\ (<<job>> \o q)[1] = job
      /\ \A k \in 2 .. n + 1 : (<<job>> \o q)[k] = q[k - 1]
  BY <1>1
<1>4. PICK new : /\ new = jobqueue'[h]
                 /\ DOMAIN new = 1 .. n + 1
                 /\ new[1] = job
                 /\ \A k \in 2 .. n + 1 : new[k] = jobqueue[h][k - 1]
  BY <1>2, <1>3
<1>5. DOMAIN jobqueue[h] = 1 .. n /\ n \in Nat
  BY <1>3
<1> HIDE DEF q, n
<1>6. ASSUME NEW i \in Issuers \cup {None}
      PROVE  (\E k \in 1 .. n + 1 : new[k] = i) <=> i = job \/ \E k \in 1 .. n : jobqueue[h][k] = i
  <2>1. ASSUME NEW k \in 1 .. n, jobqueue[h][k] = i
        PROVE  k + 1 \in 1 .. n + 1 /\ new[k + 1] = i
    <3>1. k + 1 \in 2 .. n + 1 /\ k + 1 \in 1 .. n + 1 /\ (k + 1) - 1 = k
      BY <1>5
    <3> QED
      BY <1>4, <2>1, <3>1
  <2>2. ASSUME NEW k \in 1 .. n + 1, new[k] = i, i # job
        PROVE  k - 1 \in 1 .. n /\ jobqueue[h][k - 1] = i
    BY <1>4, <1>5, <2>2
  <2>3. 1 \in 1 .. n + 1
    BY <1>5
  <2> QED
    BY <1>4, <2>1, <2>2, <2>3
<1>7. ASSUME NEW i \in Issuers \cup {None}
      PROVE  Queued(h, i)' <=> i = job \/ Queued(h, i)
  BY <1>4, <1>5, <1>6 DEF Queued
<1>8. ASSUME NEW i \in Issuers \cup {None}, NoRepeat(h, i), i = job => ~Queued(h, i)
      PROVE  NoRepeat(h, i)'
  <2>1. SUFFICES ASSUME NEW k \in 1 .. n + 1, NEW l \in 1 .. n + 1, new[k] = i, new[l] = i
                 PROVE  k = l
    BY <1>4 DEF NoRepeat
  <2>2. CASE i = job
    <3>1. \A m \in 1 .. n : jobqueue[h][m] # i
      BY <1>5, <1>8, <2>2 DEF Queued
    <3> QED
      BY <1>4, <1>5, <2>1, <3>1, SMTT(30)
  <2>3. CASE i # job
    <3>1. k \in 2 .. n + 1 /\ l \in 2 .. n + 1
      BY <1>4, <1>5, <2>1, <2>3
    <3>2. /\ k - 1 \in 1 .. n /\ l - 1 \in 1 .. n
          /\ jobqueue[h][k - 1] = i /\ jobqueue[h][l - 1] = i
      BY <1>4, <1>5, <2>1, <3>1
    <3>3. k - 1 = l - 1
      BY <1>5, <1>8, <3>2 DEF NoRepeat
    <3> QED
      BY <1>5, <3>1, <3>3
  <2> QED
    BY <2>2, <2>3
<1>9. \A g \in Handlers \ {h}, i \in Issuers \cup {None} :
         (Queued(g, i)' <=> Queued(g, i)) /\ (NoRepeat(g, i)' <=> NoRepeat(g, i))
  BY <1>2 DEF Queued, NoRepeat
<1> QED
  BY <1>7, <1>8, <1>9

LEMMA GetQueues ==
  ASSUME IInv, NEW h \in Handlers, GetRequest(h),
         NEW at, at = handler[h].at, NEW job, job = Head(jobqueue[at])
  PROVE  /\ at \in Handlers /\ job \in Issuers \cup {None} /\ Queued(at, job)
         /\ \A g \in Handlers, i \in Issuers \cup {None} :
               /\ Queued(g, i)' => Queued(g, i)
               /\ NoRepeat(g, i) => NoRepeat(g, i)'
         /\ NoRepeat(at, job) => ~Queued(at, job)'
<1>1. /\ at \in Handlers
      /\ jobqueue \in [Handlers -> Seq(Issuers \cup {None})]
      /\ jobqueue[at] \in Seq(Issuers \cup {None}) /\ jobqueue[at] # <<>>
  BY DEF IInv, GetRequest, LookupsSucceed, HandlerAt, TypeOK, HandlerState
<1>2. /\ jobqueue'[at] = Tail(jobqueue[at])
      /\ \A g \in Handlers \ {at} : jobqueue'[g] = jobqueue[g]
  BY <1>1 DEF GetRequest
<1>3. /\ 1 \in DOMAIN jobqueue[at] /\ job = jobqueue[at][1] /\ job \in Issuers \cup {None}
      /\ \A k \in DOMAIN Tail(jobqueue[at]) :
            /\ k \in Nat \ {0} /\ k + 1 \in DOMAIN jobqueue[at]
            /\ Tail(jobqueue[at])[k] = jobqueue[at][k + 1]
  BY <1>1
<1>4. PICK new : /\ new = jobqueue'[at]
                 /\ \A k \in DOMAIN new :
                       /\ k \in Nat \ {0} /\ k + 1 \in DOMAIN jobqueue[at]
                       /\ new[k] = jobqueue[at][k + 1]
  BY <1>2, <1>3
<1>5. Queued(at, job)
  BY <1>3 DEF Queued
<1>6. ASSUME NEW i \in Issuers \cup {None}
      PROVE  /\ Queued(at, i)' => Queued(at, i)
             /\ NoRepeat(at, i) => NoRepeat(at, i)'
  <2>1. (\E k \in DOMAIN new : new[k] = i) => Queued(at, i)
    BY <1>4 DEF Queued
  <2>2. ASSUME NoRepeat(at, i), NEW k \in DOMAIN new, NEW l \in DOMAIN new,
               new[k] = i, new[l] = i
        PROVE  k = l
    <3>1. /\ k + 1 \in DOMAIN jobqueue[at] /\ l + 1 \in DOMAIN jobqueue[at]
          /\ jobqueue[at][k + 1] = i /\ jobqueue[at][l + 1] = i
      BY <1>4, <2>2
    <3>2. k + 1 = l + 1
      BY <2>2, <3>1 DEF NoRepeat
    <3> QED
      BY <1>4, <3>2
  <2> QED
    BY <1>4, <2>1, <2>2 DEF Queued, NoRepeat
<1>7. NoRepeat(at, job) => ~Queued(at, job)'
  <2>1. ASSUME NoRepeat(at, job), NEW k \in DOMAIN new, new[k] = job PROVE FALSE
    <3>1. k + 1 \in DOMAIN jobqueue[at] /\ jobqueue[at][k + 1] = job
      BY <1>4, <2>1
    <3>2. k + 1 = 1
      BY <1>3, <2>1, <3>1 DEF NoRepeat
    <3> QED
      BY <1>4, <3>2
  <2> QED
    BY <1>4, <2>1 DEF Queued
<1>8. \A g \in Handlers \ {at}, i \in Issuers \cup {None} :
         (Queued(g, i)' <=> Queued(g, i)) /\ (NoRepeat(g, i)' <=> NoRepeat(g, i))
  BY <1>2 DEF Queued, NoRepeat
<1> QED
  BY <1>1, <1>3, <1>5, <1>6, <1>7, <1>8

LEMMA SameQueues ==
  ASSUME UNCHANGED jobqueue
  PROVE  \A g \in Handlers, i \in Issuers \cup {None} :
            (Queued(g, i)' <=> Queued(g, i)) /\ (NoRepeat(g, i)' <=> NoRepeat(g, i))
  BY DEF Queued, NoRepeat

-----------------------------------------------------------------------------
(* The end of handlers.  The None that replaces a registration goes into    *)
(* the queue of the present one before the new one is there, so that it     *)
(* cannot be in the queue of a registration that nobody replaces.           *)

NotAdded(h) == handler[h].pc \in {"unused", "entered", "adding"}
Replacing == \E g \in Handlers : HandlerAt(g, "adding")

EndInv ==
    /\ \A h \in Handlers : NotAdded(h) => current # h /\ ~Queued(h, None)
    /\ \A h \in Handlers : HandlerAt(h, "getting") /\ current = h => handler[h].at = h
    /\ \A h \in Handlers : current = h /\ Queued(h, None) => Replacing
    /\ EndedOnlyWhenReplaced

\* Steps of a handler that is, before and after it, neither being added nor
\* at the end of its call.
LEMMA EndInvKept ==
  ASSUME IInv, EndInv, TypeOK', NEW h \in Handlers,
         \A g \in Handlers \ {h} : handler'[g] = handler[g],
         ~HandlerAt(h, "adding"), handler'[h].pc # "ended",
         NotAdded(h)' => NotAdded(h),
         HandlerAt(h, "getting")' /\ current = h => handler'[h].at = h,
         UNCHANGED current,
         \A g \in Handlers : Queued(g, None)' => Queued(g, None)
  PROVE  EndInv'
<1>1. Replacing => Replacing'
  BY DEF Replacing, HandlerAt
<1>2. EndedOnlyWhenReplaced'
  BY DEF EndInv, EndedOnlyWhenReplaced, HandlerAt
<1> QED
  BY <1>1, <1>2 DEF EndInv, NotAdded, HandlerAt

LEMMA HandlerEndInv ==
  ASSUME IInv, EndInv, TypeOK', NEW h \in Handlers,
         \/ Register(h) \/ LogRegistration(h) \/ RegistrationFails(h) \/ LookUp(h)
         \/ YieldRequest(h) \/ YieldToNobody(h)
  PROVE  EndInv'
<1> USE DEF ecvars, clientvars
<1>1. handler \in [Handlers -> HandlerState]
  BY DEF IInv, TypeOK
<1>2. UNCHANGED <<current, jobqueue>>
  BY DEF Register, LogRegistration, RegistrationFails, LookUp, YieldRequest, YieldToNobody
<1>3. /\ \A g \in Handlers \ {h} : handler'[g] = handler[g]
      /\ ~HandlerAt(h, "adding") /\ handler'[h].pc # "ended"
      /\ NotAdded(h)' => NotAdded(h)
      /\ HandlerAt(h, "getting")' /\ current = h => handler'[h].at = h
  BY <1>1 DEF Register, LogRegistration, RegistrationFails, LookUp, YieldRequest,
              YieldToNobody, HandlerGoes, HandlerAt, NotAdded, HandlerState
<1> QED
  BY <1>2, <1>3, SameQueues, EndInvKept

LEMMA ScheduleDeletionEndInv ==
  ASSUME IInv, EndInv, NEW h \in Handlers, ScheduleDeletion(h) PROVE EndInv'
<1> USE DEF ecvars, clientvars
<1>1. /\ TypeOK /\ HandlerGoes(h, "adding") /\ UNCHANGED current
      /\ HandlerAt(h, "entered") /\ current \in Handlers \cup {None}
  BY DEF IInv, TypeOK, ScheduleDeletion
<1>2. \A g \in Handlers : Queued(g, None)' => Queued(g, None) \/ g = current
  <2>1. CASE current = None
    BY <2>1, SameQueues DEF ScheduleDeletion
  <2>2. CASE current # None
    BY <1>1, <2>2, PushQueues DEF ScheduleDeletion
  <2> QED
    BY <2>1, <2>2
<1>3. /\ handler'[h].pc = "adding" /\ Replacing'
      /\ \A g \in Handlers \ {h} : handler'[g] = handler[g]
  BY <1>1, HandlerGoesType DEF HandlerPCs, Replacing, HandlerAt
<1>4. EndedOnlyWhenReplaced'
  BY <1>1, <1>3 DEF EndedOnlyWhenReplaced, HandlerAt
<1> QED
  BY <1>1, <1>2, <1>3, <1>4 DEF EndInv, NotAdded, HandlerAt

LEMMA AddClientEndInv ==
  ASSUME IInv, EndInv, NEW h \in Handlers, AddClient(h) PROVE EndInv'
<1>1. /\ TypeOK /\ HandlerGoes(h, "logging") /\ current' = h
      /\ NotAdded(h) /\ UNCHANGED jobqueue
  BY DEF IInv, AddClient, NotAdded, HandlerAt
<1>2. /\ handler'[h].pc = "logging"
      /\ \A g \in Handlers \ {h} : handler'[g] = handler[g]
  BY <1>1, HandlerGoesType DEF HandlerPCs
<1>3. \A g \in Handlers : Queued(g, None)' <=> Queued(g, None)
  BY <1>1, SameQueues
<1>4. EndedOnlyWhenReplaced'
  BY <1>1, <1>2 DEF EndedOnlyWhenReplaced, HandlerAt
<1> QED
  BY <1>1, <1>2, <1>3, <1>4 DEF EndInv, NotAdded, HandlerAt

LEMMA GetRequestEndInv ==
  ASSUME IInv, EndInv, NEW h \in Handlers, GetRequest(h) PROVE EndInv'
<1> DEFINE at == handler[h].at
           job == Head(jobqueue[at])
<1>1. TypeOK /\ HandlerAt(h, "getting") /\ UNCHANGED current
  BY DEF IInv, GetRequest
<1>2. /\ Queued(at, job)
      /\ \A g \in Handlers : Queued(g, None)' => Queued(g, None)
  BY GetQueues
<1>3. /\ handler'[h].pc \in {"ended", "yielding"}
      /\ handler'[h].pc = "ended" => job = None
      /\ \A g \in Handlers \ {h} : handler'[g] = handler[g]
  BY <1>1 DEF GetRequest, HandlerGoes, TypeOK, HandlerState
<1>4. \A g \in Handlers : HandlerAt(g, "adding") => HandlerAt(g, "adding")'
  BY <1>1, <1>3 DEF HandlerAt
<1>5. Replacing => Replacing'
  BY <1>4 DEF Replacing
<1>6. EndedOnlyWhenReplaced'
  <2>1. SUFFICES ASSUME NEW g \in Handlers, handler'[g].pc = "ended", current = g
                 PROVE  \E f \in Handlers \ {g} : HandlerAt(f, "adding")'
    BY <1>1 DEF EndedOnlyWhenReplaced, HandlerAt
  <2>2. CASE g = h
    <3>1. at = h /\ job = None /\ Queued(h, None)
      BY <1>1, <1>2, <1>3, <2>1, <2>2 DEF EndInv
    <3>2. Replacing
      BY <2>1, <2>2, <3>1 DEF EndInv
    <3> QED
      BY <1>1, <1>4, <2>2, <3>2 DEF Replacing, HandlerAt
  <2>3. CASE g # h
    BY <1>3, <1>4, <2>1, <2>3 DEF EndInv, EndedOnlyWhenReplaced, HandlerAt
  <2> QED
    BY <2>2, <2>3
<1> QED
  BY <1>1, <1>2, <1>3, <1>5, <1>6 DEF EndInv, NotAdded, HandlerAt

LEMMA ScheduleRequestEndInv ==
  ASSUME IInv, EndInv, NEW i \in Issuers, ScheduleRequest(i) PROVE EndInv'
<1>1. /\ TypeOK /\ issuer[i].ec \in Handlers /\ UNCHANGED <<current, handler>>
      /\ Push(issuer[i].ec, i)
  BY DEF IInv, ScheduleRequest, LookupsSucceed, TypeOK, IssuerState, IssuerAt
<1>2. \A g \in Handlers : Queued(g, None)' <=> Queued(g, None)
  BY <1>1, PushQueues, NoneAssumption
<1> QED
  BY <1>1, <1>2 DEF EndInv, NotAdded, HandlerAt, Replacing, EndedOnlyWhenReplaced

LEMMA OthersEndInv ==
  ASSUME EndInv, UNCHANGED <<current, handler, jobqueue>> PROVE EndInv'
<1>1. \A g \in Handlers : Queued(g, None)' <=> Queued(g, None)
  BY SameQueues
<1> QED
  BY <1>1 DEF EndInv, NotAdded, HandlerAt, Replacing, EndedOnlyWhenReplaced

LEMMA ServerRestartEndInv ==
  ASSUME ServerRestart PROVE EndInv'
<1>1. /\ current' = None
      /\ \A h \in Handlers : jobqueue'[h] = <<>>
  BY DEF ServerRestart
<1>2. \A h \in Handlers : current' # h /\ ~Queued(h, None)'
  BY <1>1, NoneAssumption DEF Queued
<1> QED
  BY <1>2 DEF EndInv, EndedOnlyWhenReplaced

LEMMA InitEndInv == Init => EndInv
<1> SUFFICES ASSUME Init PROVE EndInv
  OBVIOUS
<1>1. current = None /\ \A h \in Handlers : jobqueue[h] = <<>>
  BY DEF Init
<1>2. ASSUME NEW h \in Handlers PROVE ~Queued(h, None)
  <2>1. jobqueue[h] = <<>>
    BY <1>1
  <2>2. DOMAIN jobqueue[h] = {}
    BY <2>1
  <2> QED
    BY <2>2 DEF Queued
<1>3. \A h \in Handlers : current # h
  BY <1>1, NoneAssumption
<1> QED
  BY <1>2, <1>3 DEF EndInv, EndedOnlyWhenReplaced

LEMMA StepEndInv == IInv /\ TypeOK' /\ EndInv /\ [Next]_vars => EndInv'
<1> SUFFICES ASSUME IInv, TypeOK', EndInv, [Next]_vars PROVE EndInv'
  OBVIOUS
<1> USE DEF ecvars, clientvars
<1>1. CASE UNCHANGED vars
  BY <1>1, OthersEndInv DEF vars
<1>2. ASSUME NEW h \in Handlers, Register(h) \/ HandlerStep(h) \/ RegistrationFails(h)
      PROVE  EndInv'
  BY <1>2, HandlerEndInv, ScheduleDeletionEndInv, AddClientEndInv, GetRequestEndInv
     DEF HandlerStep
<1>3. ASSUME NEW i \in Issuers,
             \/ FindClient(i) \/ IssuerStep(i) \/ TimeOut(i)
             \/ Respond(i) \/ PutClientResponse(i)
      PROVE  EndInv'
  <2>1. CASE ScheduleRequest(i)
    BY <2>1, ScheduleRequestEndInv
  <2>2. CASE ~ScheduleRequest(i)
    <3>1. UNCHANGED <<current, handler, jobqueue>>
      BY <1>3, <2>2 DEF FindClient, IssuerStep, TimeOut, Respond, PutClientResponse,
           StartWaiting, StopWaiting, GetResponse, PurgeResponse
    <3> QED
      BY <3>1, OthersEndInv
  <2> QED
    BY <2>1, <2>2
<1>4. CASE BreakConnection \/ ClientCrash
  BY <1>4, OthersEndInv DEF BreakConnection, ClientCrash
<1> QED
  BY <1>1, <1>2, <1>3, <1>4, ServerRestartEndInv DEF Next

\* The None that ends a handler is never meant for a later registration: the
\* handler of the present one ends only while it is being replaced.
THEOREM HandlersEndWhenReplaced == Spec => []EndedOnlyWhenReplaced
<1>1. IInv => TypeOK
  BY DEF IInv
<1>2. Init => EndInv
  BY InitEndInv
<1>3. IInv /\ TypeOK' /\ EndInv /\ [Next]_vars => EndInv'
  BY StepEndInv
<1>4. EndInv => EndedOnlyWhenReplaced
  BY DEF EndInv
<1> QED
  BY <1>1, <1>2, <1>3, <1>4, InductiveInvariant, PTL DEF Spec

-----------------------------------------------------------------------------
(* One place per request.  A request that has no number yet is nowhere, so  *)
(* that the step that queues it puts it into its only place; every later    *)
(* step takes it from one place and puts it into at most one other.         *)

AtClient(i) == i \in busy \/ i \in calls \/ i \in orphans

PlacedOnce(i) ==
    /\ \A h \in Handlers : NoRepeat(h, i)
    /\ \A g, h \in Handlers : Queued(g, i) /\ Queued(h, i) => g = h
    /\ \A g, h \in Handlers : handler[g].job = i /\ handler[h].job = i => g = h
    /\ \A g, h \in Handlers : ~(Queued(g, i) /\ handler[h].job = i)
    /\ AtClient(i) => \A h \in Handlers : ~Queued(h, i) /\ handler[h].job # i
    /\ ~(i \in busy /\ i \in calls) /\ ~(i \in busy /\ i \in orphans)
    /\ ~(i \in calls /\ i \in orphans)

PlacesInv == \A i \in Issuers : PlacedOnce(i)

\* Steps that put a request nowhere.
LEMMA PlacedOnceKept ==
  ASSUME NEW i \in Issuers, PlacedOnce(i),
         \A h \in Handlers : /\ Queued(h, i)' => Queued(h, i)
                             /\ NoRepeat(h, i) => NoRepeat(h, i)'
                             /\ handler'[h].job = i => handler[h].job = i,
         i \in busy' => i \in busy, i \in calls' => i \in calls,
         i \in orphans' => i \in orphans
  PROVE  PlacedOnce(i)'
  BY DEF PlacedOnce, AtClient

LEMMA HandlerPlaces ==
  ASSUME IInv, PlacesInv, NEW h \in Handlers,
         \/ Register(h) \/ ScheduleDeletion(h) \/ AddClient(h) \/ LogRegistration(h)
         \/ RegistrationFails(h) \/ LookUp(h) \/ YieldToNobody(h)
  PROVE  PlacesInv'
<1> USE DEF ecvars, clientvars
<1>1. handler \in [Handlers -> HandlerState] /\ TypeOK
  BY DEF IInv, TypeOK
<1>2. UNCHANGED <<busy, calls, orphans>>
  BY DEF Register, ScheduleDeletion, AddClient, LogRegistration, RegistrationFails,
         LookUp, YieldToNobody
<1>3. \A g \in Handlers, i \in Issuers : handler'[g].job = i => handler[g].job = i
  BY <1>1, NoneAssumption
     DEF Register, ScheduleDeletion, AddClient, LogRegistration, RegistrationFails,
         LookUp, YieldToNobody, HandlerGoes, HandlerState
<1>4. \A g \in Handlers, i \in Issuers :
         (Queued(g, i)' => Queued(g, i)) /\ (NoRepeat(g, i) => NoRepeat(g, i)')
  <2>1. CASE UNCHANGED jobqueue
    BY <2>1, SameQueues
  <2>2. CASE ~UNCHANGED jobqueue
    <3>1. current \in Handlers /\ Push(current, None)
      BY <1>1, <2>2 DEF Register, ScheduleDeletion, AddClient, LogRegistration,
         RegistrationFails, LookUp, YieldToNobody, TypeOK
    <3> QED
      BY <1>1, <3>1, PushQueues, NoneAssumption
  <2> QED
    BY <2>1, <2>2
<1> QED
  BY <1>2, <1>3, <1>4, PlacedOnceKept DEF PlacesInv

LEMMA GetRequestPlaces ==
  ASSUME IInv, PlacesInv, NEW h \in Handlers, GetRequest(h) PROVE PlacesInv'
<1> DEFINE at == handler[h].at
           job == Head(jobqueue[at])
<1>1. handler \in [Handlers -> HandlerState] /\ UNCHANGED <<busy, calls, orphans>>
  BY DEF IInv, TypeOK, GetRequest
<1>2. /\ at \in Handlers /\ job \in Issuers \cup {None} /\ Queued(at, job)
      /\ \A g \in Handlers, i \in Issuers \cup {None} :
            /\ Queued(g, i)' => Queued(g, i)
            /\ NoRepeat(g, i) => NoRepeat(g, i)'
  BY GetQueues
<1>3. /\ \A g \in Handlers \ {h} : handler'[g] = handler[g]
      /\ handler'[h].job \in {handler[h].job, job}
  BY <1>1 DEF GetRequest, HandlerGoes, HandlerState
<1>4. ASSUME NEW i \in Issuers PROVE PlacedOnce(i)'
  <2>1. PlacedOnce(i)
    BY DEF PlacesInv
  <2>2. CASE i # job
    BY <1>1, <1>2, <1>3, <2>1, <2>2, PlacedOnceKept
  <2>3. CASE i = job
    <3>1. /\ Queued(at, i)
          /\ \A g \in Handlers : ~Queued(g, i)'
      <4>1. NoRepeat(at, job)
        BY <1>2, <2>1, <2>3 DEF PlacedOnce
      <4>2. \A x, y : x = at /\ y = job => ~Queued(x, y)'
        BY <4>1, GetQueues
      <4> QED
        BY <1>2, <2>1, <2>3, <4>2 DEF PlacedOnce
    <3>2. \A g \in Handlers : handler[g].job # i
      BY <1>2, <2>1, <3>1 DEF PlacedOnce
    <3>3. ~AtClient(i)
      BY <1>2, <2>1, <3>1 DEF PlacedOnce
    <3>4. \A f, g \in Handlers : handler'[f].job = i /\ handler'[g].job = i => f = g
      BY <1>3, <3>2
    <3> QED
      BY <1>1, <1>2, <2>1, <3>1, <3>3, <3>4 DEF PlacedOnce, AtClient
  <2> QED
    BY <2>2, <2>3
<1> QED
  BY <1>4 DEF PlacesInv

LEMMA YieldRequestPlaces ==
  ASSUME IInv, PlacesInv, NEW h \in Handlers, YieldRequest(h) PROVE PlacesInv'
<1> USE DEF ecvars
<1>1. /\ handler \in [Handlers -> HandlerState]
      /\ UNCHANGED <<jobqueue, calls, orphans>>
      /\ busy' = busy \cup {handler[h].job}
  BY DEF IInv, TypeOK, YieldRequest
<1>2. /\ \A g \in Handlers \ {h} : handler'[g] = handler[g]
      /\ handler'[h].job = None
  BY <1>1 DEF YieldRequest, HandlerState
<1>3. \A g \in Handlers, i \in Issuers :
         (Queued(g, i)' <=> Queued(g, i)) /\ (NoRepeat(g, i)' <=> NoRepeat(g, i))
  BY <1>1, SameQueues
<1>4. ASSUME NEW i \in Issuers PROVE PlacedOnce(i)'
  <2>1. PlacedOnce(i) /\ i # None
    BY NoneAssumption DEF PlacesInv
  <2>2. CASE i # handler[h].job
    BY <1>1, <1>2, <1>3, <2>1, <2>2, PlacedOnceKept
  <2>3. CASE i = handler[h].job
    <3>1. ~AtClient(i) /\ \A g \in Handlers : ~Queued(g, i) /\ handler'[g].job # i
      BY <1>2, <2>1, <2>3 DEF PlacedOnce
    <3> QED
      BY <1>1, <1>3, <2>1, <3>1 DEF PlacedOnce, AtClient
  <2> QED
    BY <2>2, <2>3
<1> QED
  BY <1>4 DEF PlacesInv

LEMMA ScheduleRequestPlaces ==
  ASSUME IInv, PlacesInv, NEW i \in Issuers, ScheduleRequest(i) PROVE PlacesInv'
<1> USE DEF clientvars
<1>1. /\ TypeOK /\ issuer[i].ec \in Handlers /\ Push(issuer[i].ec, i)
      /\ UNCHANGED <<handler, busy, calls, orphans>>
      /\ i \notin Scheduled /\ i # None
  BY NoneAssumption DEF IInv, ScheduleRequest, LookupsSucceed, NumberedWhenScheduled,
     TypeOK, IssuerState, IssuerAt
<1>2. /\ \A g \in Handlers : ~Queued(g, i) /\ handler[g].job # i
      /\ ~AtClient(i)
  BY <1>1 DEF IInv, OnlyScheduledTravel, Queued, AtClient
<1>3. \A g \in Handlers, j \in Issuers :
         /\ Queued(g, j)' <=> (g = issuer[i].ec /\ j = i) \/ Queued(g, j)
         /\ NoRepeat(g, j) => NoRepeat(g, j)'
  BY <1>1, <1>2, PushQueues
<1>4. ASSUME NEW j \in Issuers PROVE PlacedOnce(j)'
  <2>1. PlacedOnce(j)
    BY DEF PlacesInv
  <2>2. CASE j # i
    BY <1>1, <1>3, <2>1, <2>2, PlacedOnceKept
  <2>3. CASE j = i
    BY <1>1, <1>2, <1>3, <2>1, <2>3 DEF PlacedOnce, AtClient
  <2> QED
    BY <2>2, <2>3
<1> QED
  BY <1>4 DEF PlacesInv

\* From the pool to a call, and from a call to a response without a thread.
LEMMA ClientPlaces ==
  ASSUME PlacesInv, UNCHANGED <<jobqueue, handler>>,
         \A i \in Issuers :
            /\ AtClient(i)' => AtClient(i)
            /\ i \in busy' => i \notin calls' \cup orphans'
            /\ i \in calls' => i \notin orphans'
  PROVE  PlacesInv'
<1>1. \A g \in Handlers, i \in Issuers :
         (Queued(g, i)' <=> Queued(g, i)) /\ (NoRepeat(g, i)' <=> NoRepeat(g, i))
  BY SameQueues
<1> QED
  BY <1>1 DEF PlacesInv, PlacedOnce, AtClient

LEMMA RespondPlaces ==
  ASSUME PlacesInv, NEW i \in Issuers, Respond(i) \/ PutClientResponse(i) PROVE PlacesInv'
<1> USE DEF ecvars
<1>1. UNCHANGED <<jobqueue, handler>>
  BY DEF Respond, PutClientResponse
<1>2. ASSUME NEW j \in Issuers
      PROVE  /\ AtClient(j)' => AtClient(j)
             /\ j \in busy' => j \notin calls' \cup orphans'
             /\ j \in calls' => j \notin orphans'
  BY DEF PlacesInv, PlacedOnce, AtClient, Respond, PutClientResponse
<1> QED
  BY <1>1, <1>2, ClientPlaces

LEMMA ConnectionLostPlaces ==
  ASSUME PlacesInv, BreakConnection \/ ClientCrash PROVE PlacesInv'
<1> USE DEF ecvars
<1>1. /\ UNCHANGED <<jobqueue, handler>>
      /\ busy' \subseteq busy /\ calls' = {} /\ orphans' \subseteq orphans \cup calls
  BY DEF BreakConnection, ClientCrash, LoseCalls
<1>2. ASSUME NEW j \in Issuers
      PROVE  /\ AtClient(j)' => AtClient(j)
             /\ j \in busy' => j \notin calls' \cup orphans'
             /\ j \in calls' => j \notin orphans'
  BY <1>1 DEF PlacesInv, PlacedOnce, AtClient
<1> QED
  BY <1>1, <1>2, ClientPlaces

LEMMA ServerRestartPlaces ==
  ASSUME PlacesInv, ServerRestart PROVE PlacesInv'
<1>1. /\ \A h \in Handlers : jobqueue'[h] = <<>>
      /\ busy' = busy /\ calls' = {} /\ orphans' = {}
  BY DEF ServerRestart
<1>2. \A h \in Handlers : handler'[h].job \in {handler[h].job, None}
  BY DEF ServerRestart, NewHandler
<1>3. \A h \in Handlers, i \in Issuers : ~Queued(h, i)' /\ NoRepeat(h, i)'
  BY <1>1 DEF Queued, NoRepeat
<1> QED
  BY <1>1, <1>2, <1>3, NoneAssumption, PlacedOnceKept DEF PlacesInv

LEMMA InitPlaces == Init => PlacesInv
<1> SUFFICES ASSUME Init PROVE PlacesInv
  OBVIOUS
<1>1. /\ \A h \in Handlers : jobqueue[h] = <<>> /\ handler[h].job = None
      /\ busy = {} /\ calls = {} /\ orphans = {}
  BY DEF Init, NewHandler
<1>2. \A h \in Handlers, i \in Issuers : ~Queued(h, i) /\ NoRepeat(h, i)
  BY <1>1 DEF Queued, NoRepeat
<1> QED
  BY <1>1, <1>2, NoneAssumption DEF PlacesInv, PlacedOnce, AtClient

LEMMA StepPlaces == IInv /\ PlacesInv /\ [Next]_vars => PlacesInv'
<1> SUFFICES ASSUME IInv, PlacesInv, [Next]_vars PROVE PlacesInv'
  OBVIOUS
<1>1. ASSUME UNCHANGED <<handler, jobqueue, busy, calls, orphans>> PROVE PlacesInv'
  <2>1. \A i \in Issuers : PlacedOnce(i)
    BY DEF PlacesInv
  <2> QED
    BY <1>1, <2>1, SameQueues, PlacedOnceKept DEF PlacesInv
<1>2. ASSUME NEW h \in Handlers, Register(h) \/ HandlerStep(h) \/ RegistrationFails(h)
      PROVE  PlacesInv'
  BY <1>2, HandlerPlaces, GetRequestPlaces, YieldRequestPlaces DEF HandlerStep
<1>3. ASSUME NEW i \in Issuers,
             \/ FindClient(i) \/ IssuerStep(i) \/ TimeOut(i)
             \/ Respond(i) \/ PutClientResponse(i)
      PROVE  PlacesInv'
  <2>1. CASE ScheduleRequest(i)
    BY <2>1, ScheduleRequestPlaces
  <2>2. CASE Respond(i) \/ PutClientResponse(i)
    BY <2>2, RespondPlaces
  <2>3. CASE ~(ScheduleRequest(i) \/ Respond(i) \/ PutClientResponse(i))
    <3>1. UNCHANGED <<handler, jobqueue, busy, calls, orphans>>
      BY <1>3, <2>3 DEF FindClient, IssuerStep, TimeOut, StartWaiting, StopWaiting,
           GetResponse, PurgeResponse, ecvars, clientvars
    <3> QED
      BY <1>1, <3>1
  <2> QED
    BY <2>1, <2>2, <2>3
<1>4. CASE UNCHANGED vars
  BY <1>1, <1>4 DEF vars
<1> QED
  BY <1>2, <1>3, <1>4, ConnectionLostPlaces, ServerRestartPlaces DEF Next

LEMMA PlacesInOne == ASSUME PlacesInv PROVE InOnePlace
<1> SUFFICES ASSUME NEW i \in Issuers
             PROVE  /\ \A p, q \in Places(i) : p = q
                    /\ \A h \in Handlers : NoRepeat(h, i)
  BY DEF InOnePlace, NoRepeat
<1>1. PlacedOnce(i)
  BY DEF PlacesInv
<1>2. ASSUME NEW p \in Places(i)
      PROVE  \/ \E h \in Handlers : p = <<"queue", h>> /\ Queued(h, i)
             \/ \E h \in Handlers : p = <<"handler", h>> /\ handler[h].job = i
             \/ p = <<"client", "busy">> /\ i \in busy
             \/ p = <<"client", "calls">> /\ i \in calls
             \/ p = <<"client", "orphans">> /\ i \in orphans
  BY DEF Places
<1>3. ASSUME NEW p \in Places(i), NEW q \in Places(i) PROVE p = q
  <2>1. CASE \E h \in Handlers : p = <<"queue", h>> /\ Queued(h, i)
    BY <1>1, <1>2, <2>1 DEF PlacedOnce, AtClient
  <2>2. CASE \E h \in Handlers : p = <<"handler", h>> /\ handler[h].job = i
    BY <1>1, <1>2, <2>2 DEF PlacedOnce, AtClient
  <2>3. CASE AtClient(i)
    BY <1>1, <1>2, <2>3 DEF PlacedOnce, AtClient
  <2> QED
    BY <1>2, <2>1, <2>2, <2>3 DEF AtClient
<1> QED
  BY <1>1, <1>3 DEF PlacedOnce

\* A request is in one queue, one handler, the client's pool or a response on
\* its way, once, whatever handlers compete for it: the client never executes
\* it twice.
THEOREM NeverInTwoPlaces == Spec => []InOnePlace
<1>1. PlacesInv => InOnePlace
  BY PlacesInOne
<1> QED
  BY <1>1, InitPlaces, StepPlaces, InductiveInvariant, PTL DEF Spec

-----------------------------------------------------------------------------
(* Without a fault.  The client registers once, as its stream never ends;   *)
(* all requests are scheduled at that registration, and nobody but the call *)
(* itself takes its response away.                                          *)

Registered(h) == ~HandlerAt(h, "unused")

OneRegistration ==
    /\ \A g, h \in Handlers : Registered(g) /\ Registered(h) => g = h
    /\ \A h \in Handlers :
          /\ handler[h].pc \notin {"ended", "dead"}
          /\ Registered(h) => stream = h
          /\ ~Queued(h, None)

AllAtCurrent ==
    /\ \A i \in Scheduled : issuer[i].home = current
    /\ \A i \in Issuers : issuer[i].pc \in {"found", "waiting"} => issuer[i].ec = current

ResponsesKept ==
    \A i \in Issuers :
        /\ ~IssuerAt(i, "failed")
        /\ IssuerAt(i, "arrived") => ResponseArrived(current, issuer[i].no)
        /\ issuer[i].pc \in {"purging", "done"} => issuer[i].answer # None

FaultlessInv == faults = 0 => OneRegistration /\ AllAtCurrent /\ ResponsesKept

\* No call has been replaced as long as nothing failed.
LEMMA NobodyBefore ==
  ASSUME IInv, EndInv, OneRegistration, NEW h \in Handlers, NotAdded(h), Registered(h)
  PROVE  current = None
<1>1. current \in Handlers \cup {None} /\ current # h
  BY DEF IInv, TypeOK, EndInv
<1>2. ASSUME current \in Handlers PROVE Registered(current)
  BY <1>2 DEF EndInv, NotAdded, Registered, HandlerAt
<1> QED
  BY <1>1, <1>2 DEF OneRegistration

LEMMA HandlerFaultless ==
  ASSUME IInv, EndInv, OneRegistration, NEW h \in Handlers, Register(h) \/ HandlerStep(h)
  PROVE  OneRegistration'
<1> USE DEF ecvars, clientvars
<1>1. TypeOK /\ handler \in [Handlers -> HandlerState]
  BY DEF IInv, TypeOK
<1>2. CASE Register(h)
  <2>1. stream = None /\ stream' = h /\ UNCHANGED jobqueue
    BY <1>2 DEF Register
  <2>2. \A g \in Handlers : ~Registered(g)
    BY <2>1, NoneAssumption DEF OneRegistration
  <2>3. handler'[h].pc = "entered" /\ \A g \in Handlers \ {h} : handler'[g] = handler[g]
    BY <1>1, <1>2 DEF Register, HandlerGoes, HandlerState
  <2> QED
    BY <2>1, <2>2, <2>3, SameQueues DEF OneRegistration, Registered, HandlerAt
<1>3. CASE HandlerStep(h)
  <2>1. Registered(h) /\ stream = h
    BY <1>3 DEF HandlerStep, ScheduleDeletion, AddClient, LogRegistration, LookUp,
       GetRequest, YieldRequest, YieldToNobody, OneRegistration, Registered, HandlerAt
  <2>2. \A g \in Handlers : Queued(g, None)' => Queued(g, None)
    <3>1. CASE ScheduleDeletion(h)
      <4>1. current = None
        BY <2>1, <3>1, NobodyBefore DEF ScheduleDeletion, NotAdded, HandlerAt
      <4> QED
        BY <3>1, <4>1, SameQueues DEF ScheduleDeletion
    <3>2. CASE GetRequest(h)
      BY <3>2, GetQueues
    <3>3. CASE ~(ScheduleDeletion(h) \/ GetRequest(h))
      <4>1. UNCHANGED jobqueue
        BY <1>3, <3>3 DEF HandlerStep, AddClient, LogRegistration, LookUp,
           YieldRequest, YieldToNobody
      <4> QED
        BY <4>1, SameQueues
    <3> QED
      BY <3>1, <3>2, <3>3
  <2>3. /\ handler'[h].pc \notin {"unused", "ended", "dead"} /\ stream' = stream
        /\ \A g \in Handlers \ {h} : handler'[g] = handler[g]
    <3>1. CASE GetRequest(h)
      <4>1. \A x, y : x = handler[h].at /\ y = Head(jobqueue[x]) => x \in Handlers /\ Queued(x, y)
        BY <3>1, GetQueues
      <4>2. Head(jobqueue[handler[h].at]) # None
        BY <4>1 DEF OneRegistration
      <4> QED
        BY <1>1, <3>1, <4>2 DEF GetRequest, HandlerState
    <3>2. CASE ~GetRequest(h)
      BY <1>1, <1>3, <2>1, <3>2 DEF HandlerStep, ScheduleDeletion, AddClient,
         LogRegistration, LookUp, YieldRequest, YieldToNobody, HandlerGoes, HandlerState
    <3> QED
      BY <3>1, <3>2
  <2> QED
    BY <2>1, <2>2, <2>3 DEF OneRegistration, Registered, HandlerAt
<1> QED
  BY <1>2, <1>3

LEMMA HandlerKeepsCalls ==
  ASSUME IInv, EndInv, OneRegistration, AllAtCurrent, ResponsesKept,
         NEW h \in Handlers, Register(h) \/ HandlerStep(h)
  PROVE  AllAtCurrent' /\ ResponsesKept'
<1> USE DEF ecvars, clientvars
<1>1. UNCHANGED <<issuer, responsedict>>
  BY DEF Register, HandlerStep, ScheduleDeletion, AddClient, LogRegistration, LookUp,
     GetRequest, YieldRequest, YieldToNobody
<1>2. Scheduled' = Scheduled
  BY <1>1 DEF Scheduled
<1>3. CASE AddClient(h)
  <2>1. current = None
    BY <1>3, NobodyBefore DEF AddClient, NotAdded, Registered, HandlerAt
  <2>2. Scheduled = {}
    BY <2>1 DEF AllAtCurrent, Scheduled
  <2>3. \A i \in Issuers : issuer[i].pc \notin {"found", "waiting", "arrived"}
    BY <2>1 DEF IInv, LookupsSucceed
  <2> QED
    BY <1>1, <1>2, <2>2, <2>3 DEF AllAtCurrent, ResponsesKept, IssuerAt
<1>4. CASE ~AddClient(h)
  <2>1. UNCHANGED current
    BY <1>4 DEF Register, HandlerStep, ScheduleDeletion, LogRegistration, LookUp,
       GetRequest, YieldRequest, YieldToNobody
  <2> QED
    BY <1>1, <1>2, <2>1
       DEF AllAtCurrent, ResponsesKept, IssuerAt, ResponseArrived, ResponsesFor
<1> QED
  BY <1>3, <1>4

\* The calls of managers, one step at a time: what becomes of the call ...
CallOnward(i) ==
    /\ issuer'[i].pc # "failed"
    /\ issuer'[i].home = issuer[i].home \/ issuer'[i].home = current
    /\ issuer'[i].pc \in {"found", "waiting"} => issuer'[i].ec = current
    /\ issuer'[i].pc = "arrived" => ResponseArrived(current, issuer[i].no)'
    /\ issuer'[i].pc \in {"purging", "done"} => issuer'[i].answer # None

\* ... while every other keeps its response.
LEMMA IssuerKeepsCalls ==
  ASSUME IInv, AllAtCurrent, ResponsesKept, NEW i \in Issuers, CallOnward(i),
         \A j \in Issuers \ {i} : issuer'[j] = issuer[j],
         UNCHANGED current,
         \A j \in Issuers \ {i} : IssuerAt(j, "arrived") =>
            ResponseArrived(current, issuer[j].no)'
  PROVE  AllAtCurrent' /\ ResponsesKept'
<1>1. ASSUME NEW j \in Issuers, issuer'[j].home # None PROVE issuer'[j].home = current
  <2>1. CASE j = i
    BY <1>1, <2>1 DEF CallOnward, AllAtCurrent, Scheduled
  <2>2. CASE j # i
    BY <1>1, <2>2 DEF AllAtCurrent, Scheduled
  <2> QED
    BY <2>1, <2>2
<1>2. ASSUME NEW j \in Issuers, issuer'[j].pc = "arrived"
      PROVE  ResponseArrived(current, issuer[j].no)'
  <2>1. CASE j = i
    BY <1>2, <2>1 DEF CallOnward, ResponseArrived, ResponsesFor
  <2>2. CASE j # i
    BY <1>2, <2>2 DEF IssuerAt, ResponseArrived, ResponsesFor
  <2> QED
    BY <2>1, <2>2
<1>3. AllAtCurrent'
  BY <1>1 DEF AllAtCurrent, Scheduled, CallOnward
<1> QED
  BY <1>2, <1>3 DEF ResponsesKept, CallOnward, IssuerAt

LEMMA SameResponses ==
  ASSUME UNCHANGED <<current, responsedict>>, NEW i \in Issuers,
         issuer'[i].no = issuer[i].no
  PROVE  ResponseArrived(current, issuer[i].no)' <=> ResponseArrived(current, issuer[i].no)
  BY DEF ResponseArrived, ResponsesFor

LEMMA IssuerFaultless ==
  ASSUME IInv, OneRegistration, AllAtCurrent, ResponsesKept, NEW i \in Issuers,
         FindClient(i) \/ IssuerStep(i) \/ TimeOut(i)
  PROVE  AllAtCurrent' /\ ResponsesKept'
<1> USE DEF ecvars, clientvars
<1>1. /\ issuer \in [Issuers -> IssuerState] /\ issuer[i] \in IssuerState
      /\ UNCHANGED current
  BY DEF IInv, TypeOK, FindClient, IssuerStep, TimeOut, ScheduleRequest, StartWaiting,
     StopWaiting, GetResponse, PurgeResponse
<1>2. \A j \in Issuers \ {i} : issuer'[j] = issuer[j]
  BY <1>1 DEF FindClient, IssuerStep, TimeOut, ScheduleRequest, StartWaiting,
     StopWaiting, GetResponse, PurgeResponse
<1>3. CallOnward(i)
  <2>1. CASE FindClient(i)
    BY <1>1, <2>1 DEF CallOnward, FindClient, IssuerState
  <2>2. CASE ScheduleRequest(i)
    <3>1. issuer[i].ec = current
      BY <2>2 DEF ScheduleRequest, AllAtCurrent, IssuerAt
    <3>2. issuer'[i].pc = "scheduled" /\ issuer'[i].home = issuer[i].ec
      BY <1>1, <2>2 DEF ScheduleRequest, IssuerState
    <3> QED
      BY <3>1, <3>2 DEF CallOnward
  <2>3. CASE StartWaiting(i)
    BY <1>1, <2>3 DEF CallOnward, StartWaiting, IssuerState
  <2>4. CASE StopWaiting(i)
    <3>1. /\ issuer'[i].pc = "arrived" /\ issuer'[i].home = issuer[i].home
          /\ issuer'[i].no = issuer[i].no
      BY <1>1, <2>4 DEF StopWaiting, IssuerState
    <3>2. ResponseArrived(current, issuer[i].no)
      BY <2>4 DEF StopWaiting, AllAtCurrent, IssuerAt
    <3> QED
      BY <2>4, <3>1, <3>2, SameResponses DEF CallOnward, StopWaiting
  <2>5. CASE TimeOut(i)
    BY <1>1, <2>5 DEF CallOnward, TimeOut, IssuerState
  <2>6. CASE GetResponse(i)
    <3>1. ResponseArrived(current, issuer[i].no) /\ current \in Handlers
      BY <2>6 DEF GetResponse, ResponsesKept, IInv, LookupsSucceed, TypeOK, IssuerAt
    <3>2. PICK r \in ResponsesFor(current, issuer[i].no) :
              issuer' = [issuer EXCEPT ![i].pc = "purging", ![i].answer = r[2]]
      BY <2>6, <3>1 DEF GetResponse
    <3>3. r[2] \in Issuers /\ r[2] # None
      BY <3>1, <3>2, NoneAssumption DEF IInv, ResponsesNumbered, ResponsesFor, Scheduled
    <3>4. /\ issuer'[i].pc = "purging" /\ issuer'[i].home = issuer[i].home
          /\ issuer'[i].answer = r[2]
      BY <1>1, <3>2 DEF IssuerState
    <3> QED
      BY <3>3, <3>4 DEF CallOnward
  <2>7. CASE PurgeResponse(i)
    <3>1. issuer[i].answer # None
      BY <2>7 DEF PurgeResponse, ResponsesKept, IssuerAt
    <3>2. issuer' = [issuer EXCEPT ![i].pc = "done"]
      BY <2>7, <3>1 DEF PurgeResponse
    <3> QED
      BY <1>1, <3>1, <3>2 DEF CallOnward, IssuerState
  <2> QED
    BY <2>1, <2>2, <2>3, <2>4, <2>5, <2>6, <2>7 DEF IssuerStep
<1>4. ASSUME NEW j \in Issuers \ {i}, IssuerAt(j, "arrived")
      PROVE  ResponseArrived(current, issuer[j].no)'
  <2>1. ResponseArrived(current, issuer[j].no)
    BY <1>4 DEF ResponsesKept
  <2>2. CASE UNCHANGED responsedict
    BY <1>1, <1>2, <2>1, <2>2, SameResponses
  <2>3. CASE PurgeResponse(i)
    <3>1. issuer[j].no # issuer[i].no
      <4>1. i \in Scheduled /\ j \in Scheduled
        BY <1>4, <2>3 DEF PurgeResponse, IInv, NumberedWhenScheduled, Underway, IssuerAt
      <4> QED
        BY <1>4, <4>1 DEF AllAtCurrent, IInv, NumbersUnique
    <3>2. current \in Handlers
      BY <2>3 DEF PurgeResponse, IInv, LookupsSucceed, TypeOK, IssuerAt
    <3>3. PICK r \in responsedict[current] : r[1] = issuer[j].no
      BY <2>1 DEF ResponseArrived, ResponsesFor
    <3>4. r \in responsedict'[current]
      BY <2>3, <3>1, <3>2, <3>3 DEF PurgeResponse, ResponsesFor, IInv, TypeOK
    <3> QED
      BY <1>1, <1>2, <3>3, <3>4 DEF ResponseArrived, ResponsesFor
  <2> QED
    BY <2>2, <2>3 DEF FindClient, IssuerStep, TimeOut, ScheduleRequest, StartWaiting,
       StopWaiting, GetResponse
<1> QED
  BY <1>1, <1>2, <1>3, <1>4, IssuerKeepsCalls

LEMMA AnswerFaultless ==
  ASSUME IInv, AllAtCurrent, ResponsesKept, NEW i \in Issuers,
         Respond(i) \/ PutClientResponse(i)
  PROVE  AllAtCurrent' /\ ResponsesKept'
<1> USE DEF ecvars
<1>1. UNCHANGED <<current, issuer>>
  BY DEF Respond, PutClientResponse
<1>2. ASSUME NEW j \in Issuers, ResponseArrived(current, issuer[j].no),
             IssuerAt(j, "arrived")
      PROVE  ResponseArrived(current, issuer[j].no)'
  <2>1. current \in Handlers
    BY <1>2 DEF IInv, LookupsSucceed, TypeOK, IssuerAt
  <2>2. PICK r \in responsedict[current] : r[1] = issuer[j].no
    BY <1>2 DEF ResponseArrived, ResponsesFor
  <2>3. CASE UNCHANGED responsedict
    BY <1>1, <1>2, <2>3, SameResponses
  <2>4. CASE PutClientResponse(i)
    <3>1. responsedict'[current] = (responsedict[current] \ ResponsesFor(current, issuer[i].no))
                                     \cup {<<issuer[i].no, i>>}
      BY <2>1, <2>4, NoneAssumption DEF PutClientResponse, IInv, TypeOK
    <3>2. \E s \in responsedict'[current] : s[1] = issuer[j].no
      <4>1. CASE r[1] = issuer[i].no
        <5>1. <<issuer[i].no, i>>[1] = issuer[j].no
          BY <2>2, <4>1
        <5> QED
          BY <3>1, <5>1
      <4>2. CASE r[1] # issuer[i].no
        BY <2>2, <3>1, <4>2 DEF ResponsesFor
      <4> QED
        BY <4>1, <4>2
    <3> QED
      BY <1>1, <3>2 DEF ResponseArrived, ResponsesFor
  <2> QED
    BY <2>3, <2>4 DEF Respond
<1> QED
  BY <1>1, <1>2 DEF AllAtCurrent, Scheduled, ResponsesKept, IssuerAt

LEMMA StepFaultless ==
  IInv /\ TypeOK' /\ EndInv /\ FaultlessInv /\ [Next]_vars => FaultlessInv'
<1> SUFFICES ASSUME IInv, TypeOK', EndInv, FaultlessInv, [Next]_vars, faults' = 0
             PROVE  OneRegistration' /\ AllAtCurrent' /\ ResponsesKept'
  BY DEF FaultlessInv
<1> USE DEF ecvars, clientvars
<1>1. ~Fault /\ faults \in Nat
  BY DEF Fault, IInv, TypeOK
<1>2. ~(BreakConnection \/ ClientCrash \/ ServerRestart)
      /\ \A h \in Handlers : ~RegistrationFails(h)
  BY <1>1 DEF BreakConnection, ClientCrash, ServerRestart, RegistrationFails
<1>3. CASE UNCHANGED vars
  BY <1>3, SameQueues DEF vars, FaultlessInv, OneRegistration, AllAtCurrent, ResponsesKept,
     Registered, HandlerAt, IssuerAt, Scheduled, ResponseArrived, ResponsesFor
<1>4. ASSUME NEW h \in Handlers, Register(h) \/ HandlerStep(h)
      PROVE  OneRegistration' /\ AllAtCurrent' /\ ResponsesKept'
  <2>1. faults = 0
    BY <1>4 DEF Register, HandlerStep, ScheduleDeletion, AddClient, LogRegistration,
       LookUp, GetRequest, YieldRequest, YieldToNobody
  <2> QED
    BY <1>4, <2>1, HandlerFaultless, HandlerKeepsCalls DEF FaultlessInv
<1>5. ASSUME NEW i \in Issuers,
             \/ FindClient(i) \/ IssuerStep(i) \/ TimeOut(i)
             \/ Respond(i) \/ PutClientResponse(i)
      PROVE  OneRegistration' /\ AllAtCurrent' /\ ResponsesKept'
  <2>1. faults = 0 /\ UNCHANGED <<handler, stream>>
    BY <1>5 DEF FindClient, IssuerStep, TimeOut, Respond, PutClientResponse,
       ScheduleRequest, StartWaiting, StopWaiting, GetResponse, PurgeResponse
  <2>2. OneRegistration /\ AllAtCurrent /\ ResponsesKept
    BY <2>1 DEF FaultlessInv
  <2>3. \A g \in Handlers : Queued(g, None)' <=> Queued(g, None)
    <3>1. CASE ScheduleRequest(i)
      <4>1. issuer[i].ec \in Handlers /\ Push(issuer[i].ec, i) /\ TypeOK
        BY <3>1 DEF ScheduleRequest, IInv, LookupsSucceed, TypeOK, IssuerState, IssuerAt
      <4> QED
        BY <4>1, PushQueues, NoneAssumption
    <3>2. CASE ~ScheduleRequest(i)
      <4>1. UNCHANGED jobqueue
        BY <1>5, <3>2 DEF FindClient, IssuerStep, TimeOut, Respond, PutClientResponse,
           StartWaiting, StopWaiting, GetResponse, PurgeResponse
      <4> QED
        BY <4>1, SameQueues
    <3> QED
      BY <3>1, <3>2
  <2>4. OneRegistration'
    BY <2>1, <2>2, <2>3 DEF OneRegistration, Registered, HandlerAt
  <2> QED
    BY <1>5, <2>2, <2>4, IssuerFaultless, AnswerFaultless
<1> QED
  BY <1>2, <1>3, <1>4, <1>5 DEF Next

LEMMA InitFaultless == Init => FaultlessInv
<1> SUFFICES ASSUME Init PROVE OneRegistration /\ AllAtCurrent /\ ResponsesKept
  BY DEF FaultlessInv
<1>1. /\ \A h \in Handlers : jobqueue[h] = <<>> /\ handler[h].pc = "unused"
      /\ \A i \in Issuers : issuer[i].pc = "idle" /\ issuer[i].home = None
  BY DEF Init, NewHandler, NewIssuer
<1>2. ASSUME NEW h \in Handlers PROVE DOMAIN jobqueue[h] = {}
  <2>1. jobqueue[h] = <<>>
    BY <1>1
  <2> QED
    BY <2>1
<1>3. OneRegistration
  BY <1>1, <1>2 DEF OneRegistration, Registered, HandlerAt, Queued
<1> QED
  BY <1>1, <1>3 DEF AllAtCurrent, ResponsesKept, Scheduled, IssuerAt

\* Without a fault no manager's call fails, and each returns the response to
\* its own request or times out, whatever other calls are made at the time.
THEOREM FaultlessCallsNeverFail == Spec => []FaultlessCallsSucceed
<1>1. IInv => TypeOK
  BY DEF IInv
<1>2. Init => EndInv /\ FaultlessInv
  BY InitEndInv, InitFaultless
<1>3. IInv /\ TypeOK' /\ EndInv /\ FaultlessInv /\ [Next]_vars => EndInv' /\ FaultlessInv'
  BY StepEndInv, StepFaultless
<1>4. IInv /\ FaultlessInv => FaultlessCallsSucceed
  <2> SUFFICES ASSUME IInv, FaultlessInv, faults = 0, NEW i \in Issuers
               PROVE  ~IssuerAt(i, "failed") /\ (IssuerAt(i, "done") => issuer[i].answer = i)
    BY DEF FaultlessCallsSucceed
  <2>1. AllAtCurrent /\ ResponsesKept
    BY DEF FaultlessInv
  <2>2. ASSUME IssuerAt(i, "done") PROVE issuer[i].answer = i
    <3>1. issuer[i].answer # None
      BY <2>1, <2>2 DEF ResponsesKept, IssuerAt
    <3>2. /\ i \in Scheduled /\ issuer[i].answer \in Scheduled
          /\ issuer[issuer[i].answer].no = issuer[i].no
      BY <3>1 DEF IInv, AnswersNumbered
    <3> QED
      BY <2>1, <3>2 DEF AllAtCurrent, IInv, NumbersUnique
  <2> QED
    BY <2>1, <2>2 DEF ResponsesKept
<1> QED
  BY <1>1, <1>2, <1>3, <1>4, InductiveInvariant, PTL DEF Spec

-----------------------------------------------------------------------------
(* The refinement of RequestReply: a request is handed to the client once   *)
(* and never comes back from a later stage.                                 *)

\* Only a handler that yields has a request in its hands.
JobsYielded == \A h \in Handlers : handler[h].job # None => HandlerAt(h, "yielding")

RInv == IInv /\ PlacesInv /\ JobsYielded

LEMMA InitJobs == Init => JobsYielded
  BY DEF Init, JobsYielded, NewHandler

LEMMA StepJobs == IInv /\ JobsYielded /\ [Next]_vars => JobsYielded'
<1> SUFFICES ASSUME IInv, JobsYielded, [Next]_vars PROVE JobsYielded'
  OBVIOUS
<1> USE DEF ecvars, clientvars
<1>1. handler \in [Handlers -> HandlerState]
  BY DEF IInv, TypeOK
<1>2. ASSUME UNCHANGED handler PROVE JobsYielded'
  BY <1>2 DEF JobsYielded, HandlerAt
<1>3. ASSUME NEW h \in Handlers, Register(h) \/ HandlerStep(h) \/ RegistrationFails(h)
      PROVE  JobsYielded'
  <2>1. \A g \in Handlers \ {h} : handler'[g] = handler[g]
    BY <1>1, <1>3 DEF Register, HandlerStep, ScheduleDeletion, AddClient, LogRegistration,
       LookUp, GetRequest, YieldRequest, YieldToNobody, RegistrationFails, HandlerGoes
  <2>2. handler'[h].job # None => handler'[h].pc = "yielding"
    <3>1. CASE GetRequest(h)
      BY <1>1, <3>1 DEF GetRequest, HandlerGoes, HandlerState, JobsYielded, HandlerAt
    <3>2. CASE YieldRequest(h) \/ YieldToNobody(h)
      BY <1>1, <3>2 DEF YieldRequest, YieldToNobody, HandlerState
    <3>3. CASE ~(GetRequest(h) \/ YieldRequest(h) \/ YieldToNobody(h))
      BY <1>1, <1>3, <3>3 DEF Register, HandlerStep, ScheduleDeletion, AddClient,
         LogRegistration, LookUp, RegistrationFails, HandlerGoes, HandlerState,
         JobsYielded, HandlerAt
    <3> QED
      BY <3>1, <3>2, <3>3
  <2> QED
    BY <2>1, <2>2 DEF JobsYielded, HandlerAt
<1>4. ASSUME NEW i \in Issuers,
             \/ FindClient(i) \/ IssuerStep(i) \/ TimeOut(i)
             \/ Respond(i) \/ PutClientResponse(i)
      PROVE  UNCHANGED handler
  BY <1>4 DEF FindClient, IssuerStep, TimeOut, Respond, PutClientResponse,
     ScheduleRequest, StartWaiting, StopWaiting, GetResponse, PurgeResponse
<1>5. CASE BreakConnection \/ ClientCrash \/ UNCHANGED vars
  BY <1>2, <1>5 DEF BreakConnection, ClientCrash, vars
<1>6. CASE ServerRestart
  <2>1. \A h \in Handlers : handler'[h] = handler[h] \/ handler'[h].job = None
    BY <1>6 DEF ServerRestart, NewHandler
  <2> QED
    BY <2>1 DEF JobsYielded, HandlerAt
<1> QED
  BY <1>2, <1>3, <1>4, <1>5, <1>6 DEF Next

-----------------------------------------------------------------------------
(* Where a request is decides its stage.                                    *)

Pending(i) == \E h \in Handlers : Queued(h, i) \/ handler[h].job = i

LEMMA StageCases ==
  ASSUME RInv, NEW i \in Issuers
  PROVE  /\ i \notin Scheduled => Stage(i) = "new" /\ ~Pending(i) /\ ~AtClient(i)
         /\ i \in Scheduled =>
              /\ Stage(i) # "new"
              /\ i \in busy => Stage(i) = "executing" /\ ~Pending(i)
              /\ i \in calls \cup orphans => Stage(i) = "replying" /\ ~Pending(i)
              /\ Pending(i) => Stage(i) = "pending"
              /\ ~AtClient(i) /\ ~Pending(i) => Stage(i) = "over"
<1>1. PlacedOnce(i) /\ i # None
  BY NoneAssumption DEF RInv, PlacesInv
<1>2. i \notin Scheduled => ~Pending(i) /\ ~AtClient(i)
  BY <1>1 DEF RInv, IInv, OnlyScheduledTravel, Pending, Queued, AtClient
<1>3. AtClient(i) => ~Pending(i)
  BY <1>1 DEF PlacedOnce, Pending
<1>4. i \in calls \cup orphans => i \notin busy
  BY <1>1 DEF PlacedOnce
<1> QED
  BY <1>2, <1>3, <1>4 DEF Stage, Pending, Scheduled, AtClient

\* A step that moves the request nowhere.
LEMMA StageKept ==
  ASSUME NEW i \in Issuers, issuer'[i].home = issuer[i].home,
         Pending(i)' <=> Pending(i), i \in busy' <=> i \in busy,
         i \in calls' \cup orphans' <=> i \in calls \cup orphans
  PROVE  Stage(i)' = Stage(i)
  BY DEF Stage, Pending

LEMMA SameCalls ==
  ASSUME UNCHANGED <<issuer, responsedict>>
  PROVE  /\ \A i \in Issuers : Outcome(i)' = Outcome(i) /\ AnswerOf(i)' = AnswerOf(i)
         /\ ResponsesHeld' = ResponsesHeld
  BY DEF Outcome, AnswerOf, ResponsesHeld, IssuerAt

\* Losses: every step that neither moves a request on nor returns an answer.
LEMMA FailRefines ==
  ASSUME \A i \in Issuers :
            /\ \/ Stage(i)' = Stage(i)
               \/ Stage(i) \in {"pending", "executing", "replying"} /\ Stage(i)' = "over"
            /\ \/ Outcome(i)' = Outcome(i)
               \/ Outcome(i) = "open" /\ Outcome(i)' = "failed"
            /\ AnswerOf(i)' = AnswerOf(i),
         ResponsesHeld' \subseteq ResponsesHeld
  PROVE  Promise!RNext
<1> DEFINE lost == {i \in Issuers : Stage(i)' # Stage(i)}
           broken == {i \in Issuers : Outcome(i)' # Outcome(i)}
<1>1. \A i \in Issuers : Stage(i)' = IF i \in lost THEN "over" ELSE Stage(i)
  OBVIOUS
<1>2. \A i \in Issuers : Outcome(i)' = IF i \in broken THEN "failed" ELSE Outcome(i)
  OBVIOUS
<1>3. /\ \A i \in lost : i \in Issuers /\ Stage(i) \in {"pending", "executing", "replying"}
      /\ \A i \in broken : i \in Issuers /\ Outcome(i) = "open"
  OBVIOUS
<1>4. lost \in SUBSET Issuers /\ broken \in SUBSET Issuers
  OBVIOUS
<1> HIDE DEF lost, broken
<1>5. Promise!Fail(lost, broken)
  BY <1>1, <1>2, <1>3 DEF Promise!Fail
<1> QED
  BY <1>4, <1>5 DEF Promise!RNext

\* Steps on: one request gets a stage further.
LEMMA AdvanceRefines ==
  ASSUME NEW i \in Issuers, NEW to, Stage(i)' = to,
         \A j \in Issuers \ {i} : Stage(j)' = Stage(j),
         \A j \in Issuers : Outcome(j)' = Outcome(j) /\ AnswerOf(j)' = AnswerOf(j),
         \/ Stage(i) = "new" /\ to = "pending" /\ Outcome(i) = "open"
         \/ Stage(i) = "pending" /\ to = "executing"
         \/ Stage(i) = "executing" /\ to = "replying"
         \/ Stage(i) = "replying" /\ to = "over",
         \/ ResponsesHeld' = ResponsesHeld
         \/ to = "over" /\ ResponsesHeld' \subseteq ResponsesHeld \cup {i}
  PROVE  Promise!RNext
<1>1. [j \in Issuers |-> Stage(j)]' = [[j \in Issuers |-> Stage(j)] EXCEPT ![i] = to]
  OBVIOUS
<1>2. [j \in Issuers |-> Stage(j)][i] = Stage(i) /\ [j \in Issuers |-> Outcome(j)][i] = Outcome(i)
  OBVIOUS
<1>3. /\ [j \in Issuers |-> Outcome(j)]' = [j \in Issuers |-> Outcome(j)]
      /\ [j \in Issuers |-> AnswerOf(j)]' = [j \in Issuers |-> AnswerOf(j)]
  OBVIOUS
<1>4. \/ Promise!Issue(i) \/ Promise!Execute(i) \/ Promise!Reply(i) \/ Promise!Deliver(i)
  BY <1>1, <1>2, <1>3
     DEF Promise!Issue, Promise!Execute, Promise!Reply, Promise!Deliver, Promise!Advances
<1> QED
  BY <1>4 DEF Promise!RNext

-----------------------------------------------------------------------------
(* The steps of handlers.                                                   *)

LEMMA QuietHandlerRefines ==
  ASSUME RInv, NEW h \in Handlers,
         \/ Register(h) \/ ScheduleDeletion(h) \/ AddClient(h) \/ LogRegistration(h)
         \/ LookUp(h) \/ RegistrationFails(h)
  PROVE  Promise!RNext
<1> USE DEF ecvars, clientvars
<1>1. /\ TypeOK /\ handler \in [Handlers -> HandlerState]
      /\ UNCHANGED <<issuer, responsedict, busy, calls, orphans>>
  BY DEF RInv, IInv, TypeOK, Register, ScheduleDeletion, AddClient, LogRegistration,
     LookUp, RegistrationFails
<1>2. \A g \in Handlers : handler'[g].job = handler[g].job
  BY <1>1 DEF Register, ScheduleDeletion, AddClient, LogRegistration, LookUp,
     RegistrationFails, HandlerGoes, HandlerState
<1>3. \A g \in Handlers, i \in Issuers : Queued(g, i)' <=> Queued(g, i)
  <2>1. CASE UNCHANGED jobqueue
    BY <2>1, SameQueues
  <2>2. CASE ~UNCHANGED jobqueue
    <3>1. current \in Handlers /\ Push(current, None)
      BY <1>1, <2>2 DEF Register, ScheduleDeletion, AddClient, LogRegistration, LookUp,
         RegistrationFails, TypeOK
    <3> QED
      BY <1>1, <3>1, PushQueues, NoneAssumption
  <2> QED
    BY <2>1, <2>2
<1>4. \A i \in Issuers : Pending(i)' <=> Pending(i)
  BY <1>2, <1>3 DEF Pending
<1>5. \A i \in Issuers : Stage(i)' = Stage(i)
  BY <1>1, <1>4, StageKept
<1> QED
  BY <1>1, <1>5, SameCalls, FailRefines

\* A request goes from the queue into the handler's hands: it stays pending.
LEMMA GetRequestRefines ==
  ASSUME RInv, NEW h \in Handlers, GetRequest(h) PROVE Promise!RNext
<1> DEFINE at == handler[h].at
           job == Head(jobqueue[at])
<1>1. /\ IInv /\ handler \in [Handlers -> HandlerState]
      /\ UNCHANGED <<issuer, responsedict, busy, calls, orphans>>
  BY DEF RInv, IInv, TypeOK, GetRequest
<1>2. /\ at \in Handlers /\ job \in Issuers \cup {None} /\ Queued(at, job)
      /\ \A g \in Handlers, i \in Issuers \cup {None} : Queued(g, i)' => Queued(g, i)
  BY <1>1, GetQueues
<1>3. /\ \A g \in Handlers \ {at} : jobqueue'[g] = jobqueue[g]
      /\ jobqueue[at] \in Seq(Issuers \cup {None}) /\ jobqueue[at] # <<>>
      /\ jobqueue'[at] = Tail(jobqueue[at])
  BY <1>1, <1>2 DEF GetRequest, IInv, TypeOK
<1>4. \A i \in Issuers : i # job => \A g \in Handlers : Queued(g, i) => Queued(g, i)'
  <2>1. SUFFICES ASSUME NEW i \in Issuers, i # job, NEW k \in DOMAIN jobqueue[at],
                        jobqueue[at][k] = i
                 PROVE  \E l \in DOMAIN jobqueue'[at] : jobqueue'[at][l] = i
    BY <1>3 DEF Queued
  <2>2. k # 1
    BY <1>3, <2>1
  <2>3. k - 1 \in DOMAIN Tail(jobqueue[at]) /\ Tail(jobqueue[at])[k - 1] = i
    <3>1. /\ Len(jobqueue[at]) \in Nat /\ DOMAIN jobqueue[at] = 1 .. Len(jobqueue[at])
          /\ DOMAIN Tail(jobqueue[at]) = 1 .. Len(jobqueue[at]) - 1
          /\ \A l \in 1 .. Len(jobqueue[at]) - 1 : Tail(jobqueue[at])[l] = jobqueue[at][l + 1]
      BY <1>3
    <3>2. k - 1 \in 1 .. Len(jobqueue[at]) - 1 /\ (k - 1) + 1 = k
      BY <2>1, <2>2, <3>1
    <3> QED
      BY <2>1, <3>1, <3>2
  <2> QED
    BY <1>3, <2>3
<1>5. /\ \A g \in Handlers \ {h} : handler'[g] = handler[g]
      /\ handler[h].job = None
      /\ handler'[h].job = job
  BY <1>1 DEF GetRequest, HandlerGoes, HandlerState, RInv, JobsYielded, HandlerAt
<1>6. ASSUME NEW i \in Issuers PROVE Pending(i)' <=> Pending(i)
  <2>1. CASE i = job
    BY <1>2, <1>5, <2>1 DEF Pending
  <2>2. CASE i # job
    BY <1>2, <1>4, <1>5, <2>2, NoneAssumption DEF Pending
  <2> QED
    BY <2>1, <2>2
<1>7. \A i \in Issuers : Stage(i)' = Stage(i)
  BY <1>1, <1>6, StageKept
<1> QED
  BY <1>1, <1>7, SameCalls, FailRefines

\* The handler's request reaches the client or nobody.
LEMMA YieldRefines ==
  ASSUME RInv, RInv', NEW h \in Handlers, YieldRequest(h) \/ YieldToNobody(h)
  PROVE  Promise!RNext
<1> USE DEF ecvars, clientvars
<1> DEFINE job == handler[h].job
<1>1. /\ handler \in [Handlers -> HandlerState]
      /\ UNCHANGED <<issuer, responsedict, jobqueue, calls, orphans>>
      /\ job \in Scheduled /\ job \in Issuers
  BY DEF RInv, IInv, TypeOK, YieldRequest, YieldToNobody, OnlyScheduledTravel, HandlerAt,
     Scheduled
<1>2. /\ \A g \in Handlers \ {h} : handler'[g] = handler[g]
      /\ handler'[h].job = None
  BY <1>1 DEF YieldRequest, YieldToNobody, HandlerState
<1>3. \A g \in Handlers, i \in Issuers : Queued(g, i)' <=> Queued(g, i)
  BY <1>1, SameQueues
<1> HIDE DEF job
<1>4. ASSUME NEW i \in Issuers, i # job PROVE Stage(i)' = Stage(i)
  <2>1. Pending(i)' <=> Pending(i)
    BY <1>2, <1>3, <1>4, NoneAssumption DEF Pending, job
  <2>2. i \in busy' <=> i \in busy
    BY <1>4 DEF YieldRequest, YieldToNobody, job
  <2> QED
    BY <1>1, <2>1, <2>2, StageKept
<1>5. Stage(job) = "pending"
  BY <1>1, StageCases DEF Pending, job
<1>6. \A g \in Handlers : ~Queued(g, job) /\ (g # h => handler[g].job # job)
  BY <1>1 DEF RInv, PlacesInv, PlacedOnce, job
<1>7. ~AtClient(job)
  BY <1>1, <1>5, StageCases DEF AtClient
<1>8. Scheduled' = Scheduled
  BY <1>1 DEF Scheduled
<1>9. CASE YieldRequest(h)
  <2>1. job \in busy'
    BY <1>9 DEF YieldRequest, job
  <2>2. \A x \in Issuers : x = job => Stage(x)' = "executing"
    BY <1>1, <1>8, <2>1, StageCases DEF Stage, Scheduled
  <2> QED
    BY <1>1, <1>4, <1>5, <2>2, SameCalls, AdvanceRefines
<1>10. CASE YieldToNobody(h)
  <2>1. \A x \in Issuers : x = job => ~Pending(x)' /\ ~AtClient(x)'
    BY <1>1, <1>2, <1>3, <1>6, <1>7, <1>10, NoneAssumption
       DEF Pending, AtClient, YieldToNobody
  <2>2. \A x \in Issuers : x = job => Stage(x)' = "over"
    BY <1>1, <1>8, <2>1 DEF Stage, Pending, AtClient, Scheduled
  <2> QED
    BY <1>1, <1>4, <1>5, <2>2, SameCalls, FailRefines
<1> QED
  BY <1>9, <1>10

-----------------------------------------------------------------------------
(* The steps of calls.                                                      *)

LEMMA IssuerStages ==
  ASSUME RInv, NEW i \in Issuers,
         \/ FindClient(i) \/ StartWaiting(i) \/ StopWaiting(i) \/ TimeOut(i)
         \/ GetResponse(i) \/ PurgeResponse(i)
  PROVE  /\ issuer \in [Issuers -> IssuerState]
         /\ \A j \in Issuers \ {i} : issuer'[j] = issuer[j]
         /\ \A j \in Issuers : Stage(j)' = Stage(j)
<1> USE DEF ecvars, clientvars
<1>1. /\ issuer \in [Issuers -> IssuerState]
      /\ UNCHANGED <<handler, jobqueue, busy, calls, orphans>>
  BY DEF RInv, IInv, TypeOK, FindClient, StartWaiting, StopWaiting, TimeOut, GetResponse,
     PurgeResponse
<1>2. /\ \A j \in Issuers \ {i} : issuer'[j] = issuer[j]
      /\ issuer'[i].home = issuer[i].home
  BY <1>1 DEF FindClient, StartWaiting, StopWaiting, TimeOut, GetResponse, PurgeResponse,
     IssuerState
<1>3. \A j \in Issuers : Pending(j)' <=> Pending(j)
  BY <1>1, SameQueues DEF Pending
<1>4. \A j \in Issuers : Stage(j)' = Stage(j)
  BY <1>1, <1>2, <1>3, StageKept
<1> QED
  BY <1>1, <1>2, <1>4

LEMMA SimpleIssuerRefines ==
  ASSUME RInv, NEW i \in Issuers,
         FindClient(i) \/ StartWaiting(i) \/ StopWaiting(i) \/ TimeOut(i)
  PROVE  Promise!RNext
<1> USE DEF ecvars, clientvars
<1>1. /\ issuer \in [Issuers -> IssuerState]
      /\ \A j \in Issuers \ {i} : issuer'[j] = issuer[j]
      /\ \A j \in Issuers : Stage(j)' = Stage(j)
  BY IssuerStages
<1>2. /\ issuer'[i].answer = issuer[i].answer
      /\ issuer[i].pc \notin {"done", "timeout", "failed"}
      /\ issuer'[i].pc \notin {"done", "failed"}
  BY <1>1 DEF FindClient, StartWaiting, StopWaiting, TimeOut, IssuerState, IssuerAt
<1>3. ASSUME NEW j \in Issuers
      PROVE  /\ \/ Outcome(j)' = Outcome(j)
                \/ Outcome(j) = "open" /\ Outcome(j)' = "failed"
             /\ AnswerOf(j)' = AnswerOf(j)
  BY <1>1, <1>2 DEF Outcome, AnswerOf, IssuerAt
<1>4. \A j \in Issuers : issuer'[j].answer = issuer[j].answer
  BY <1>1, <1>2
<1>5. UNCHANGED responsedict
  BY DEF FindClient, StartWaiting, StopWaiting, TimeOut
<1>6. ResponsesHeld' \subseteq ResponsesHeld
  BY <1>4, <1>5 DEF ResponsesHeld
<1> QED
  BY <1>1, <1>3, <1>6, FailRefines

LEMMA ScheduleRequestRefines ==
  ASSUME RInv, NEW i \in Issuers, ScheduleRequest(i) PROVE Promise!RNext
<1> USE DEF clientvars
<1>1. /\ TypeOK /\ issuer[i].ec \in Handlers /\ Push(issuer[i].ec, i)
      /\ issuer \in [Issuers -> IssuerState]
      /\ UNCHANGED <<responsedict, handler, busy, calls, orphans>>
      /\ i \notin Scheduled
  BY DEF RInv, IInv, ScheduleRequest, LookupsSucceed, NumberedWhenScheduled, TypeOK,
     IssuerState, IssuerAt
<1>2. /\ \A j \in Issuers \ {i} : issuer'[j] = issuer[j]
      /\ issuer'[i].home = issuer[i].ec /\ issuer'[i].pc = "scheduled"
      /\ issuer'[i].answer = issuer[i].answer
      /\ issuer[i].pc = "found"
  BY <1>1 DEF ScheduleRequest, IssuerState, IssuerAt
<1>3. \A g \in Handlers, j \in Issuers :
         Queued(g, j)' <=> (g = issuer[i].ec /\ j = i) \/ Queued(g, j)
  BY <1>1, PushQueues
<1>4. Stage(i) = "new" /\ ~AtClient(i)
  BY <1>1, StageCases
<1>5. Stage(i)' = "pending"
  <2>1. issuer'[i].home # None
    BY <1>1, <1>2, NoneAssumption
  <2>2. \E g \in Handlers : Queued(g, i)'
    BY <1>1, <1>3
  <2> QED
    BY <1>1, <1>4, <2>1, <2>2 DEF Stage, AtClient
<1>6. \A j \in Issuers \ {i} : Stage(j)' = Stage(j)
  <2>1. \A j \in Issuers \ {i} : Pending(j)' <=> Pending(j)
    BY <1>1, <1>3 DEF Pending
  <2> QED
    BY <1>1, <1>2, <2>1, StageKept
<1>7. /\ \A j \in Issuers : Outcome(j)' = Outcome(j) /\ AnswerOf(j)' = AnswerOf(j)
      /\ Outcome(i) = "open"
  BY <1>2 DEF Outcome, AnswerOf, IssuerAt
<1>8. ResponsesHeld' = ResponsesHeld
  <2>1. \A j \in Issuers : issuer'[j].answer = issuer[j].answer
    BY <1>2
  <2> QED
    BY <1>1, <2>1 DEF ResponsesHeld
<1> QED
  BY <1>4, <1>5, <1>6, <1>7, <1>8, AdvanceRefines

LEMMA GetResponseRefines ==
  ASSUME RInv, NEW i \in Issuers, GetResponse(i) PROVE Promise!RNext
<1> USE DEF ecvars, clientvars
<1>1. /\ issuer \in [Issuers -> IssuerState]
      /\ \A j \in Issuers \ {i} : issuer'[j] = issuer[j]
      /\ \A j \in Issuers : Stage(j)' = Stage(j)
  BY IssuerStages
<1>2. current \in Handlers /\ UNCHANGED responsedict /\ issuer[i].pc = "arrived"
  BY DEF GetResponse, RInv, IInv, LookupsSucceed, TypeOK, IssuerAt
<1>3. /\ issuer'[i].pc = "purging"
      /\ \/ issuer'[i].answer = issuer[i].answer
         \/ \E r \in responsedict[current] : issuer'[i].answer = r[2]
  BY <1>1 DEF GetResponse, IssuerState, ResponsesFor
<1>4. \A j \in Issuers : Outcome(j)' = Outcome(j) /\ AnswerOf(j)' = AnswerOf(j)
  BY <1>1, <1>2, <1>3 DEF Outcome, AnswerOf, IssuerAt
<1>5. ResponsesHeld' \subseteq ResponsesHeld
  <2>1. SUFFICES ASSUME NEW k \in Issuers, NEW j \in Issuers, issuer'[j].answer = k
                 PROVE  k \in ResponsesHeld
    BY <1>2 DEF ResponsesHeld
  <2>2. CASE j = i
    BY <1>2, <1>3, <2>1, <2>2 DEF ResponsesHeld
  <2>3. CASE j # i
    BY <1>1, <2>1, <2>3 DEF ResponsesHeld
  <2> QED
    BY <2>2, <2>3
<1> QED
  BY <1>1, <1>4, <1>5, FailRefines

\* The call returns its answer, or fails as it has none.
LEMMA PurgeResponseRefines ==
  ASSUME RInv, NEW i \in Issuers, PurgeResponse(i) PROVE Promise!RNext
<1>1. /\ issuer \in [Issuers -> IssuerState]
      /\ \A j \in Issuers \ {i} : issuer'[j] = issuer[j]
      /\ \A j \in Issuers : Stage(j)' = Stage(j)
  BY IssuerStages
<1>2. /\ issuer[i].pc = "purging" /\ i \in Scheduled
      /\ issuer[i].answer \in Issuers \cup {None}
      /\ issuer'[i].answer = issuer[i].answer
      /\ issuer'[i].pc = IF issuer[i].answer = None THEN "failed" ELSE "done"
  BY <1>1 DEF PurgeResponse, RInv, IInv, NumberedWhenScheduled, Underway, IssuerState, IssuerAt
<1>3. ResponsesHeld' \subseteq ResponsesHeld
  <2>1. \A h \in Handlers : responsedict'[h] \subseteq responsedict[h]
    BY DEF PurgeResponse, RInv, IInv, TypeOK
  <2>2. \A j \in Issuers : issuer'[j].answer = issuer[j].answer
    BY <1>1, <1>2
  <2> QED
    BY <2>1, <2>2 DEF ResponsesHeld
<1>4. \A j \in Issuers \ {i} : Outcome(j)' = Outcome(j) /\ AnswerOf(j)' = AnswerOf(j)
  BY <1>1 DEF Outcome, AnswerOf, IssuerAt
<1>5. Outcome(i) = "open" /\ AnswerOf(i) = None
  BY <1>2 DEF Outcome, AnswerOf, IssuerAt
<1>6. CASE issuer[i].answer = None
  <2>1. Outcome(i)' = "failed" /\ AnswerOf(i)' = None
    BY <1>2, <1>6 DEF Outcome, AnswerOf, IssuerAt
  <2> QED
    BY <1>1, <1>3, <1>4, <1>5, <2>1, FailRefines
<1>7. CASE issuer[i].answer # None
  <2>1. PICK k \in Issuers : k = issuer[i].answer
    BY <1>2, <1>7
  <2>2. Outcome(i)' = "returned" /\ AnswerOf(i)' = k
    BY <1>2, <1>7, <2>1 DEF Outcome, AnswerOf, IssuerAt
  <2>3. k \in ResponsesHeld
    BY <2>1 DEF ResponsesHeld
  <2>4. Stage(i) # "new"
    BY <1>2, StageCases
  <2>5. /\ [j \in Issuers |-> Outcome(j)]' = [[j \in Issuers |-> Outcome(j)] EXCEPT ![i] = "returned"]
        /\ [j \in Issuers |-> AnswerOf(j)]' = [[j \in Issuers |-> AnswerOf(j)] EXCEPT ![i] = k]
        /\ [j \in Issuers |-> Stage(j)]' = [j \in Issuers |-> Stage(j)]
    BY <1>1, <1>4, <2>2
  <2>6. [j \in Issuers |-> Outcome(j)][i] = "open" /\ [j \in Issuers |-> Stage(j)][i] # "new"
    BY <1>5, <2>4
  <2>7. Promise!Return(i, k)
    BY <1>3, <2>3, <2>5, <2>6 DEF Promise!Return
  <2> QED
    BY <2>7 DEF Promise!RNext
<1> QED
  BY <1>6, <1>7

-----------------------------------------------------------------------------
(* The client's answers and the failures.                                   *)

LEMMA AnswerRefines ==
  ASSUME RInv, NEW i \in Issuers, Respond(i) \/ PutClientResponse(i)
  PROVE  Promise!RNext
<1> USE DEF ecvars
<1>1. /\ UNCHANGED <<issuer, handler, jobqueue>> /\ i \in Scheduled
      /\ PlacedOnce(i) /\ AtClient(i)
  BY DEF Respond, PutClientResponse, RInv, IInv, OnlyScheduledTravel, PlacesInv, AtClient
<1>2. \A j \in Issuers : Pending(j)' <=> Pending(j)
  BY <1>1, SameQueues DEF Pending
<1>3. \A j \in Issuers \ {i} : Stage(j)' = Stage(j)
  <2>1. ASSUME NEW j \in Issuers \ {i}
        PROVE  /\ j \in busy' <=> j \in busy
               /\ j \in calls' \cup orphans' <=> j \in calls \cup orphans
    BY DEF Respond, PutClientResponse
  <2> QED
    BY <1>1, <1>2, <2>1, StageKept
<1>4. \A j \in Issuers : Outcome(j)' = Outcome(j) /\ AnswerOf(j)' = AnswerOf(j)
  BY <1>1 DEF Outcome, AnswerOf, IssuerAt
<1>5. ~Pending(i) /\ issuer[i].home # None
  BY <1>1 DEF PlacedOnce, Pending, Scheduled
<1>6. CASE Respond(i)
  <2>1. Stage(i) = "executing"
    BY <1>1, <1>6, StageCases DEF Respond
  <2>2. Stage(i)' = "replying"
    BY <1>1, <1>5, <1>6 DEF Respond, Stage
  <2>3. ResponsesHeld' = ResponsesHeld
    BY <1>1, <1>6 DEF Respond, ResponsesHeld
  <2> QED
    BY <1>3, <1>4, <2>1, <2>2, <2>3, AdvanceRefines
<1>7. CASE PutClientResponse(i)
  <2>1. Stage(i) = "replying"
    BY <1>1, <1>7, StageCases DEF PutClientResponse
  <2>2. Stage(i)' = "over"
    <3>1. i \notin busy' /\ i \notin calls' \cup orphans'
      BY <1>1, <1>7 DEF PutClientResponse, PlacedOnce
    <3>2. ~Pending(i)' /\ issuer'[i].home # None
      BY <1>1, <1>2, <1>5
    <3> QED
      BY <3>1, <3>2 DEF Stage, Pending
  <2>3. \A h \in Handlers : \A r \in responsedict'[h] :
           r \in responsedict[h] \/ r[2] = i
    <3>1. CASE current = None
      BY <1>7, <3>1 DEF PutClientResponse
    <3>2. CASE current # None
      <4>1. current \in Handlers
        BY <3>2 DEF RInv, IInv, TypeOK
      <4>2. \A r : r = <<issuer[i].no, i>> => r[2] = i
        OBVIOUS
      <4> QED
        <5>1. /\ responsedict'[current] = (responsedict[current]
                    \ ResponsesFor(current, issuer[i].no)) \cup {<<issuer[i].no, i>>}
              /\ \A h \in Handlers \ {current} : responsedict'[h] = responsedict[h]
          BY <1>7, <3>2, <4>1 DEF PutClientResponse, RInv, IInv, TypeOK
        <5> QED
          BY <4>2, <5>1
    <3> QED
      BY <3>1, <3>2
  <2>4. ResponsesHeld' \subseteq ResponsesHeld \cup {i}
    BY <1>1, <2>3 DEF ResponsesHeld
  <2> QED
    BY <1>3, <1>4, <2>1, <2>2, <2>4, AdvanceRefines
<1> QED
  BY <1>6, <1>7

LEMMA ConnectionLostRefines ==
  ASSUME RInv, BreakConnection \/ ClientCrash PROVE Promise!RNext
<1> USE DEF ecvars
<1>1. /\ UNCHANGED <<issuer, responsedict, handler, jobqueue>>
      /\ busy' \subseteq busy /\ calls' = {} /\ orphans \subseteq orphans'
      /\ orphans' \subseteq orphans \cup calls
  BY DEF BreakConnection, ClientCrash, LoseCalls
<1>2. \A j \in Issuers : Pending(j)' <=> Pending(j)
  BY <1>1, SameQueues DEF Pending
<1>3. ASSUME NEW j \in Issuers
      PROVE  \/ Stage(j)' = Stage(j)
             \/ Stage(j) \in {"pending", "executing", "replying"} /\ Stage(j)' = "over"
  <2>1. CASE ~AtClient(j)
    BY <1>1, <1>2, <2>1, StageKept DEF AtClient
  <2>2. CASE AtClient(j)
    <3>1. /\ ~Pending(j) /\ issuer[j].home # None
          /\ ~(j \in busy /\ j \in calls \cup orphans)
      BY <2>2 DEF RInv, IInv, PlacesInv, PlacedOnce, OnlyScheduledTravel, Scheduled,
         AtClient, Pending
    <3>2. Stage(j) = IF j \in busy THEN "executing" ELSE "replying"
      BY <2>2, <3>1 DEF Stage, AtClient
    <3>3. ~Pending(j)' /\ issuer'[j].home # None
      BY <1>1, <1>2, <3>1
    <3>4. j \notin busy' /\ j \notin calls' \cup orphans' => Stage(j)' = "over"
      BY <3>3 DEF Stage, Pending
    <3>5. j \in busy' => Stage(j)' = "executing" /\ j \in busy
      BY <1>1, <3>3 DEF Stage
    <3>6. j \notin busy' /\ j \in calls' \cup orphans' => Stage(j)' = "replying" /\ j \notin busy
      BY <1>1, <3>1, <3>3 DEF Stage
    <3> QED
      BY <3>2, <3>4, <3>5, <3>6
  <2> QED
    BY <2>1, <2>2
<1> QED
  BY <1>1, <1>3, SameCalls, FailRefines

LEMMA ServerRestartRefines ==
  ASSUME RInv, ServerRestart PROVE Promise!RNext
<1>1. /\ \A h \in Handlers : jobqueue'[h] = <<>> /\ responsedict'[h] = {}
      /\ busy' = busy /\ calls' = {} /\ orphans' = {}
      /\ issuer \in [Issuers -> IssuerState]
  BY DEF ServerRestart, RInv, IInv, TypeOK
<1>2. \A h \in Handlers : handler'[h].job = None
  BY DEF ServerRestart, NewHandler, RInv, JobsYielded, HandlerAt
<1>3. ASSUME NEW j \in Issuers
      PROVE  /\ issuer'[j].home = issuer[j].home /\ issuer'[j].answer = issuer[j].answer
             /\ \/ issuer'[j].pc = issuer[j].pc
                \/ issuer[j].pc \notin {"done", "timeout"} /\ issuer'[j].pc = "failed"
  BY <1>1 DEF ServerRestart, IssuerState
<1>4. ASSUME NEW j \in Issuers PROVE ~Pending(j)'
  <2>1. \A h \in Handlers : ~Queued(h, j)'
    BY <1>1 DEF Queued
  <2> QED
    BY <1>2, <2>1, NoneAssumption DEF Pending
<1>5. ASSUME NEW j \in Issuers
      PROVE  \/ Stage(j)' = Stage(j)
             \/ Stage(j) \in {"pending", "executing", "replying"} /\ Stage(j)' = "over"
  <2>1. issuer'[j].home = issuer[j].home
    BY <1>3
  <2>2. Stage(j)' = IF issuer[j].home = None THEN "new"
                    ELSE IF j \in busy THEN "executing" ELSE "over"
    BY <1>1, <1>4, <2>1 DEF Stage, Pending
  <2> QED
    BY <2>2 DEF Stage
<1>6. ASSUME NEW j \in Issuers
      PROVE  /\ \/ Outcome(j)' = Outcome(j)
                \/ Outcome(j) = "open" /\ Outcome(j)' = "failed"
             /\ AnswerOf(j)' = AnswerOf(j)
  BY <1>3 DEF Outcome, AnswerOf, IssuerAt
<1>7. ResponsesHeld' \subseteq ResponsesHeld
  BY <1>1, <1>3 DEF ResponsesHeld
<1> QED
  BY <1>5, <1>6, <1>7, FailRefines

-----------------------------------------------------------------------------
(* The theorem.                                                             *)

LEMMA InitRefines == Init => Promise!RInit
<1> SUFFICES ASSUME Init PROVE Promise!RInit
  OBVIOUS
<1>1. /\ \A i \in Issuers : issuer[i] = NewIssuer
      /\ \A h \in Handlers : responsedict[h] = {}
  BY DEF Init
<1>2. \A i \in Issuers : Stage(i) = "new" /\ Outcome(i) = "open" /\ AnswerOf(i) = None
  BY <1>1 DEF Stage, Outcome, AnswerOf, IssuerAt, NewIssuer
<1>3. ResponsesHeld = {}
  BY <1>1, NoneAssumption DEF ResponsesHeld, NewIssuer
<1> QED
  BY <1>2, <1>3 DEF Promise!RInit

LEMMA StepRefines ==
  RInv /\ RInv' /\ [Next]_vars => [Promise!RNext]_(Promise!rvars)
<1> SUFFICES ASSUME RInv, RInv', [Next]_vars PROVE Promise!RNext
  OBVIOUS
<1>1. CASE UNCHANGED vars
  <2>1. UNCHANGED <<issuer, responsedict, handler, jobqueue, busy, calls, orphans>>
    BY <1>1 DEF vars
  <2>2. \A i \in Issuers : Stage(i)' = Stage(i)
    BY <2>1, SameQueues, StageKept DEF Pending
  <2> QED
    BY <2>1, <2>2, SameCalls, FailRefines
<1>2. ASSUME NEW h \in Handlers, Register(h) \/ HandlerStep(h) \/ RegistrationFails(h)
      PROVE  Promise!RNext
  BY <1>2, QuietHandlerRefines, GetRequestRefines, YieldRefines DEF HandlerStep
<1>3. ASSUME NEW i \in Issuers,
             \/ FindClient(i) \/ IssuerStep(i) \/ TimeOut(i)
             \/ Respond(i) \/ PutClientResponse(i)
      PROVE  Promise!RNext
  BY <1>3, SimpleIssuerRefines, ScheduleRequestRefines, GetResponseRefines,
     PurgeResponseRefines, AnswerRefines DEF IssuerStep
<1> QED
  BY <1>1, <1>2, <1>3, ConnectionLostRefines, ServerRestartRefines DEF Next

\* Requests go from queue to client to response and never back, and calls
\* return only responses that were put: the dispatch implements RequestReply.
THEOREM DispatchImplementsReply == Spec => ImplementsRequestReply
<1>1. Init => Promise!RInit
  BY InitRefines
<1>2. RInv /\ RInv' /\ [Next]_vars => [Promise!RNext]_(Promise!rvars)
  BY StepRefines
<1>3. Spec => []RInv
  <2>1. Init => PlacesInv /\ JobsYielded
    BY InitPlaces, InitJobs
  <2>2. IInv /\ PlacesInv /\ JobsYielded /\ [Next]_vars => PlacesInv' /\ JobsYielded'
    BY StepPlaces, StepJobs
  <2> QED
    BY <2>1, <2>2, InductiveInvariant, PTL DEF Spec, RInv
<1> QED
  BY <1>1, <1>2, <1>3, PTL DEF Spec, ImplementsRequestReply, Promise!RSpec
=============================================================================
