-------------------------- MODULE ServerHandlersProofs --------------------------
(***************************************************************************)
(* ServerHandlers, for any number of calls, devices, managers and workers:  *)
(* what a handler has written is stored although all handlers share one     *)
(* transaction, unless a statement failed while it ran.                      *)
(***************************************************************************)
EXTENDS ServerHandlers, FiniteSetTheorems, SequenceTheorems, TLAPS

-----------------------------------------------------------------------------
(* The inductive invariant.                                                 *)

\* A handler is where its method can be, and a listener has a queue.
CallFits(r) ==
    /\ call[r] \in Uses[r]
    /\ At(r, "telling") => Is(r, {"register", "error", "status", "response", "list"})
    /\ place[r] \in {"upsert", "commit"} => Is(r, {"register", "error"})
    /\ At(r, "log") => Is(r, {"error"})
    /\ place[r] \in {"update", "commitSeen"} =>
          Is(r, {"error", "status", "response", "settings", "list"})
    /\ place[r] \in {"check", "lookup", "get"} =>
          Is(r, {"listen"}) /\ listeners[WhoOf(r)] # None
    /\ At(r, "get") => waitsFor[r] # None
    /\ \A m \in toTell[r] : listeners[m] # None

\* In a transaction that has failed nobody has anything to lose who does not know.
FailureSeen(r) == aborted /\ place[r] \in {"log", "commit", "commitSeen"} => r \in failed

\* What a handler has written so far is stored, or waits for somebody's commit.
Written1(r) ==
    Is(r, {"error"}) =>
        /\ At(r, "commit") => <<r, "log">> \in pending \/ r \in logs
        /\ place[r] \in {"update", "commitSeen", "returned"} => r \in logs
Written2(r) ==
    Is(r, {"error", "list"}) =>
        /\ At(r, "commitSeen") => <<r, "seen">> \in pending \/ r \in seen
        /\ At(r, "returned") => r \in seen
        /\ At(r, "telling") /\ Is(r, {"list"}) => r \in seen
Wrote(r) == r \notin failed \cup deleted => Written1(r) /\ Written2(r)

\* Only devices' calls write.
PendingFits == \A s \in pending : ~Is(s[1], {"listen"})

HandlerFits(r) == CallFits(r) /\ FailureSeen(r) /\ Wrote(r)
IInv == Typed /\ PendingFits /\ \A r \in Rpcs : HandlerFits(r)

-----------------------------------------------------------------------------
(* Lemmas.                                                                  *)

LEMMA Callers ==
    ASSUME IInv, NEW r \in Rpcs
    PROVE  /\ MethodOf(r) \in Kinds
           /\ Is(r, {"listen"}) => WhoOf(r) \in Managers
           /\ ~Is(r, {"listen"}) => WhoOf(r) \in Devices
<1>1. call[r] \in Uses[r] /\ Uses[r] \subseteq (Kinds \ {"listen"}) \X Devices \cup {"listen"} \X Managers
  BY UsesAssumption DEF IInv, HandlerFits, CallFits
<1>2. CASE call[r] \in (Kinds \ {"listen"}) \X Devices
  BY <1>2 DEF MethodOf, WhoOf, Is
<1>3. CASE call[r] \in {"listen"} \X Managers
  BY <1>3 DEF MethodOf, WhoOf, Is, Kinds
<1> QED
  BY <1>1, <1>2, <1>3

LEMMA Counted ==
    ASSUME NEW S \in SUBSET Managers
    PROVE  Cardinality(S) \in 0..Cardinality(Managers)
  BY ManagersAssumption, FS_Subset, FS_CardinalityType

LEMMA LastTaken ==
    ASSUME NEW S, NEW q \in Seq(S), q # <<>>
    PROVE  SubSeq(q, 1, Len(q) - 1) \in Seq(S)
<1>1. PICK n \in Nat : n = Len(q)
  OBVIOUS
<1>2. 1 \in Int /\ n - 1 \in Int /\ \A i \in 1..n - 1 : q[i] \in S
  BY <1>1
<1> QED
  BY <1>1, <1>2, SubSeqProperties

\* The dictionary begins to be iterated over.
LEMMA TellingFits ==
    ASSUME IInv, NEW r \in Rpcs, BeginTelling(r)
    PROVE  /\ toTell' \in [Rpcs -> SUBSET Managers]
           /\ told' \in [Rpcs -> 0..Cardinality(Managers)]
           /\ \A s \in Rpcs : \A m \in toTell'[s] : listeners[m] # None
<1> DEFINE all == {m \in Managers : listeners[m] # None}
<1>1. Cardinality(all) \in 0..Cardinality(Managers)
  BY Counted
<1>2. toTell' = [toTell EXCEPT ![r] = all] /\ told' = [told EXCEPT ![r] = Cardinality(all)]
  BY DEF BeginTelling
<1>3. /\ toTell \in [Rpcs -> SUBSET Managers] /\ told \in [Rpcs -> 0..Cardinality(Managers)]
      /\ \A s \in Rpcs : \A m \in toTell[s] : listeners[m] # None
  BY DEF IInv, Typed, HandlerFits, CallFits
<1>4. all \in SUBSET Managers /\ \A m \in all : listeners[m] # None
  OBVIOUS
<1> HIDE DEF all
<1> QED
  BY <1>1, <1>2, <1>3, <1>4

Places == {"idle", "queued"} \cup Held \cup Ended

LEMMA GoesFits ==
    ASSUME IInv, NEW r \in Rpcs, NEW p \in Places, Goes(r, p)
    PROVE  /\ place' \in [Rpcs -> Places]
           /\ place'[r] = p /\ \A s \in Rpcs : s # r => place'[s] = place[s]
  BY DEF IInv, Typed, Goes, Places

\* A step of a handler that executes no statement takes nothing away.
LEMMA NothingWritten ==
    ASSUME IInv, UNCHANGED <<call, dbvars, histvars>>, NEW r \in Rpcs, NEW p \in Places,
           Goes(r, p), p \notin {"log", "commit", "commitSeen"},
           Is(r, {"error"}) => p \notin {"update", "returned"},
           Is(r, {"list"}) => p # "telling" /\ (p = "returned" => At(r, "telling"))
    PROVE  PendingFits' /\ \A s \in Rpcs : FailureSeen(s)' /\ Wrote(s)'
<1> USE DEF dbvars, histvars
<1>1. place'[r] = p /\ \A s \in Rpcs : s # r => place'[s] = place[s]
  BY GoesFits
<1>2. PendingFits'
  BY DEF IInv, PendingFits, Is, MethodOf
<1>3. ASSUME NEW s \in Rpcs PROVE FailureSeen(s)' /\ Wrote(s)'
  <2>1. CASE s = r
    BY <1>1, <2>1 DEF IInv, HandlerFits, FailureSeen, Wrote, Written1, Written2, At, Is, MethodOf
  <2>2. CASE s # r
    BY <1>1, <2>2 DEF IInv, HandlerFits, FailureSeen, Wrote, Written1, Written2, At, Is, MethodOf
  <2> QED
    BY <2>1, <2>2
<1> QED
  BY <1>2, <1>3

-----------------------------------------------------------------------------
(* The steps.                                                               *)

LEMMA CallIInv == ASSUME IInv, NEW r \in Rpcs, Call(r) PROVE IInv'
<1> USE DEF Call
<1>1. "queued" \in Places /\ Goes(r, "queued")
  BY DEF Places
<1>2. /\ place' \in [Rpcs -> Places]
      /\ place'[r] = "queued" /\ \A s \in Rpcs : s # r => place'[s] = place[s]
  BY <1>1, GoesFits
<1>3. PendingFits' /\ \A s \in Rpcs : FailureSeen(s)' /\ Wrote(s)'
  BY <1>1, NothingWritten
<1>4. Typed'
  BY <1>2 DEF IInv, Typed, Places, outvars, dbvars, histvars
<1>5. \A s \in Rpcs : CallFits(s)'
  BY <1>2 DEF IInv, HandlerFits, CallFits, At, Is, MethodOf, WhoOf, outvars
<1> QED
  BY <1>3, <1>4, <1>5 DEF IInv, HandlerFits

LEMMA RegisterClientIInv == ASSUME IInv, NEW r \in Rpcs, RegisterClient(r) PROVE IInv'
<1> USE DEF RegisterClient
<1>1. PICK p \in {"upsert"} : Accepted(r, p)
  BY DEF At
<1>2. Goes(r, p) /\ p \in Places /\ UNCHANGED <<call, dbvars, histvars>>
  BY <1>1 DEF Accepted, Places, Held, Ended, dbvars, histvars
<1>3. /\ place' \in [Rpcs -> Places]
      /\ place'[r] = p /\ \A s \in Rpcs : s # r => place'[s] = place[s]
  BY <1>2, GoesFits
<1>4. PendingFits' /\ \A s \in Rpcs : FailureSeen(s)' /\ Wrote(s)'
  BY <1>1, <1>2, NothingWritten DEF Is
<1>5. /\ toTell' \in [Rpcs -> SUBSET Managers] /\ told' \in [Rpcs -> 0..Cardinality(Managers)]
      /\ \A s \in Rpcs : \A m \in toTell'[s] : listeners'[m] # None
      /\ UNCHANGED <<listeners, messages>>
  BY DEF outvars, IInv, Typed, HandlerFits, CallFits
<1>6. Typed'
  <2>1. loggedIn' \subseteq Devices
    BY Callers DEF IInv, Typed, Is
  <2> QED
    BY <1>2, <1>3, <1>5, <2>1 DEF IInv, Typed, Places, dbvars, histvars
<1>7. \A s \in Rpcs : CallFits(s)'
  BY <1>1, <1>2, <1>3, <1>5 DEF IInv, HandlerFits, CallFits, At, Is, MethodOf, WhoOf
<1> QED
  BY <1>4, <1>6, <1>7 DEF IInv, HandlerFits

LEMMA PutStatusMsgIInv == ASSUME IInv, NEW r \in Rpcs, PutStatusMsg(r) PROVE IInv'
<1> USE DEF PutStatusMsg
<1>1. PICK p \in {"telling", "ignored"} : Accepted(r, p)
  BY DEF At
<1>2. Goes(r, p) /\ p \in Places /\ UNCHANGED <<call, dbvars, histvars>>
  BY <1>1 DEF Accepted, Places, Held, Ended, dbvars, histvars
<1>3. /\ place' \in [Rpcs -> Places]
      /\ place'[r] = p /\ \A s \in Rpcs : s # r => place'[s] = place[s]
  BY <1>2, GoesFits
<1>4. PendingFits' /\ \A s \in Rpcs : FailureSeen(s)' /\ Wrote(s)'
  BY <1>1, <1>2, NothingWritten DEF Is
<1>5. /\ toTell' \in [Rpcs -> SUBSET Managers] /\ told' \in [Rpcs -> 0..Cardinality(Managers)]
      /\ \A s \in Rpcs : \A m \in toTell'[s] : listeners'[m] # None
      /\ UNCHANGED <<listeners, messages>>
  <2>1. CASE BeginTelling(r) /\ UNCHANGED <<listeners, messages>>
    BY <2>1, TellingFits
  <2>2. CASE UNCHANGED outvars
    BY <2>2 DEF outvars, IInv, Typed, HandlerFits, CallFits
  <2> QED
    BY <2>1, <2>2
<1>6. Typed'
  <2>1. loggedIn' \subseteq Devices
    BY Callers DEF IInv, Typed, Is
  <2> QED
    BY <1>2, <1>3, <1>5, <2>1 DEF IInv, Typed, Places, dbvars, histvars
<1>7. \A s \in Rpcs : CallFits(s)'
  BY <1>1, <1>2, <1>3, <1>5 DEF IInv, HandlerFits, CallFits, At, Is, MethodOf, WhoOf
<1> QED
  BY <1>4, <1>6, <1>7 DEF IInv, HandlerFits

LEMMA PutClientResponseIInv == ASSUME IInv, NEW r \in Rpcs, PutClientResponse(r) PROVE IInv'
<1> USE DEF PutClientResponse
<1>1. PICK p \in {"update", "telling"} : Accepted(r, p)
  BY DEF At
<1>2. Goes(r, p) /\ p \in Places /\ UNCHANGED <<call, dbvars, histvars>>
  BY <1>1 DEF Accepted, Places, Held, Ended, dbvars, histvars
<1>3. /\ place' \in [Rpcs -> Places]
      /\ place'[r] = p /\ \A s \in Rpcs : s # r => place'[s] = place[s]
  BY <1>2, GoesFits
<1>4. PendingFits' /\ \A s \in Rpcs : FailureSeen(s)' /\ Wrote(s)'
  BY <1>1, <1>2, NothingWritten DEF Is
<1>5. /\ toTell' \in [Rpcs -> SUBSET Managers] /\ told' \in [Rpcs -> 0..Cardinality(Managers)]
      /\ \A s \in Rpcs : \A m \in toTell'[s] : listeners'[m] # None
      /\ UNCHANGED <<listeners, messages>>
  <2>1. CASE BeginTelling(r) /\ UNCHANGED <<listeners, messages>>
    BY <2>1, TellingFits
  <2>2. CASE UNCHANGED outvars
    BY <2>2 DEF outvars, IInv, Typed, HandlerFits, CallFits
  <2> QED
    BY <2>1, <2>2
<1>6. Typed'
  <2>1. loggedIn' \subseteq Devices
    BY Callers DEF IInv, Typed, Is
  <2> QED
    BY <1>2, <1>3, <1>5, <2>1 DEF IInv, Typed, Places, dbvars, histvars
<1>7. \A s \in Rpcs : CallFits(s)'
  BY <1>1, <1>2, <1>3, <1>5 DEF IInv, HandlerFits, CallFits, At, Is, MethodOf, WhoOf
<1> QED
  BY <1>4, <1>6, <1>7 DEF IInv, HandlerFits

LEMMA GetMsmtSttngsAndStartIInv == ASSUME IInv, NEW r \in Rpcs, GetMsmtSttngsAndStart(r) PROVE IInv'
<1> USE DEF GetMsmtSttngsAndStart
<1>1. PICK p \in {"update", "ignored"} : Accepted(r, p)
  BY DEF At
<1>2. Goes(r, p) /\ p \in Places /\ UNCHANGED <<call, dbvars, histvars>>
  BY <1>1 DEF Accepted, Places, Held, Ended, dbvars, histvars
<1>3. /\ place' \in [Rpcs -> Places]
      /\ place'[r] = p /\ \A s \in Rpcs : s # r => place'[s] = place[s]
  BY <1>2, GoesFits
<1>4. PendingFits' /\ \A s \in Rpcs : FailureSeen(s)' /\ Wrote(s)'
  BY <1>1, <1>2, NothingWritten DEF Is
<1>5. /\ toTell' \in [Rpcs -> SUBSET Managers] /\ told' \in [Rpcs -> 0..Cardinality(Managers)]
      /\ \A s \in Rpcs : \A m \in toTell'[s] : listeners'[m] # None
      /\ UNCHANGED <<listeners, messages>>
  BY DEF outvars, IInv, Typed, HandlerFits, CallFits
<1>6. Typed'
  <2>1. loggedIn' \subseteq Devices
    BY Callers DEF IInv, Typed, Is
  <2> QED
    BY <1>2, <1>3, <1>5, <2>1 DEF IInv, Typed, Places, dbvars, histvars
<1>7. \A s \in Rpcs : CallFits(s)'
  BY <1>1, <1>2, <1>3, <1>5 DEF IInv, HandlerFits, CallFits, At, Is, MethodOf, WhoOf
<1> QED
  BY <1>4, <1>6, <1>7 DEF IInv, HandlerFits

LEMMA PutMeasurementListIInv == ASSUME IInv, NEW r \in Rpcs, PutMeasurementList(r) PROVE IInv'
<1> USE DEF PutMeasurementList
<1>1. PICK p \in {"update"} : Accepted(r, p)
  BY DEF At
<1>2. Goes(r, p) /\ p \in Places /\ UNCHANGED <<call, dbvars, histvars>>
  BY <1>1 DEF Accepted, Places, Held, Ended, dbvars, histvars
<1>3. /\ place' \in [Rpcs -> Places]
      /\ place'[r] = p /\ \A s \in Rpcs : s # r => place'[s] = place[s]
  BY <1>2, GoesFits
<1>4. PendingFits' /\ \A s \in Rpcs : FailureSeen(s)' /\ Wrote(s)'
  BY <1>1, <1>2, NothingWritten DEF Is
<1>5. /\ toTell' \in [Rpcs -> SUBSET Managers] /\ told' \in [Rpcs -> 0..Cardinality(Managers)]
      /\ \A s \in Rpcs : \A m \in toTell'[s] : listeners'[m] # None
      /\ UNCHANGED <<listeners, messages>>
  BY DEF outvars, IInv, Typed, HandlerFits, CallFits
<1>6. Typed'
  <2>1. loggedIn' \subseteq Devices
    BY Callers DEF IInv, Typed, Is
  <2> QED
    BY <1>2, <1>3, <1>5, <2>1 DEF IInv, Typed, Places, dbvars, histvars
<1>7. \A s \in Rpcs : CallFits(s)'
  BY <1>1, <1>2, <1>3, <1>5 DEF IInv, HandlerFits, CallFits, At, Is, MethodOf, WhoOf
<1> QED
  BY <1>4, <1>6, <1>7 DEF IInv, HandlerFits

LEMMA AddNewMessageOutListenerIInv ==
    ASSUME IInv, NEW r \in Rpcs, AddNewMessageOutListener(r) PROVE IInv'
<1> USE DEF AddNewMessageOutListener
<1>1. "check" \in Places /\ Goes(r, "check") /\ UNCHANGED <<call, dbvars, histvars>>
  BY DEF Places, Held, Accepted, dbvars, histvars
<1>2. /\ place' \in [Rpcs -> Places]
      /\ place'[r] = "check" /\ \A s \in Rpcs : s # r => place'[s] = place[s]
  BY <1>1, GoesFits
<1>3. PendingFits' /\ \A s \in Rpcs : FailureSeen(s)' /\ Wrote(s)'
  BY <1>1, NothingWritten
<1>4. WhoOf(r) \in Managers
  BY Callers
<1>5. /\ listeners' \in [Managers -> Rpcs \cup {None}] /\ listeners'[WhoOf(r)] = r
      /\ \A m \in Managers : listeners[m] # None => listeners'[m] # None
  BY <1>4, NoneAssumption DEF IInv, Typed
<1>6. Typed'
  BY <1>1, <1>2, <1>5 DEF IInv, Typed, Places, dbvars, histvars
<1>7. \A s \in Rpcs : CallFits(s)'
  <2> SUFFICES ASSUME NEW s \in Rpcs PROVE CallFits(s)'
    OBVIOUS
  <2>1. toTell[s] \subseteq Managers /\ \A m \in toTell[s] : listeners'[m] # None
    BY <1>5 DEF IInv, Typed, HandlerFits, CallFits
  <2>2. CASE s = r
    BY <1>1, <1>2, <1>5, <2>1, <2>2, NoneAssumption
       DEF IInv, HandlerFits, CallFits, At, Is, MethodOf, WhoOf
  <2>3. CASE s # r
    <3>1. Is(s, {"listen"}) => WhoOf(s) \in Managers
      BY Callers
    <3> QED
      BY <1>1, <1>2, <1>5, <2>1, <2>3, <3>1 DEF IInv, HandlerFits, CallFits, At, Is, MethodOf, WhoOf
  <2> QED
    BY <2>2, <2>3
<1> QED
  BY <1>3, <1>6, <1>7 DEF IInv, HandlerFits

LEMMA TellIInv == ASSUME IInv, NEW r \in Rpcs, Tell(r) PROVE IInv'
<1> USE DEF Tell
<1>1. At(r, "telling") /\ Is(r, {"register", "error", "status", "response", "list"})
  BY DEF IInv, HandlerFits, CallFits
<1>2. CASE StopTelling(r) /\ UNCHANGED messages /\ (Goes(r, "raised") \/ Goes(r, AfterTelling(r)))
  <2>1. PICK p \in {"raised", "serving", "upsert", "update", "returned"} :
          /\ Goes(r, p)
          /\ p = "serving" => Is(r, {"register"})
          /\ p = "upsert" => Is(r, {"error"})
          /\ p = "update" => Is(r, {"status", "response"})
          /\ p = "returned" => Is(r, {"list"})
    BY <1>1, <1>2 DEF AfterTelling, Is
  <2>2. p \in Places
    BY DEF Places, Held, Ended
  <2>3. /\ place' \in [Rpcs -> Places]
        /\ place'[r] = p /\ \A s \in Rpcs : s # r => place'[s] = place[s]
    BY <2>1, <2>2, GoesFits
  <2>4. PendingFits' /\ \A s \in Rpcs : FailureSeen(s)' /\ Wrote(s)'
    BY <1>1, <2>1, <2>2, NothingWritten DEF Is
  <2>5. /\ toTell' \in [Rpcs -> SUBSET Managers] /\ told' \in [Rpcs -> 0..Cardinality(Managers)]
        /\ \A s \in Rpcs : toTell'[s] \subseteq toTell[s]
    <3>1. 0 \in 0..Cardinality(Managers)
      BY Counted
    <3> QED
      BY <1>2, <3>1 DEF StopTelling, IInv, Typed
  <2>6. Typed'
    BY <1>2, <2>3, <2>5 DEF IInv, Typed, Places, dbvars, histvars
  <2>7. \A s \in Rpcs : CallFits(s)'
    BY <2>1, <2>3, <2>5 DEF IInv, HandlerFits, CallFits, At, Is, MethodOf, WhoOf
  <2> QED
    BY <2>4, <2>6, <2>7 DEF IInv, HandlerFits
<1>3. ASSUME NEW m \in toTell[r],
             messages' = [messages EXCEPT ![listeners[m]] = Append(@, r)],
             toTell' = [toTell EXCEPT ![r] = @ \ {m}], UNCHANGED <<place, told>>
      PROVE  IInv'
  <2>1. m \in Managers /\ listeners[m] \in Rpcs
    BY DEF IInv, Typed, HandlerFits, CallFits
  <2>2. messages' \in [Rpcs -> Seq(Rpcs)]
    <3>1. messages[listeners[m]] \in Seq(Rpcs)
      BY <2>1 DEF IInv, Typed
    <3>2. Append(messages[listeners[m]], r) \in Seq(Rpcs)
      BY <3>1
    <3> QED
      BY <1>3, <2>1, <3>2 DEF IInv, Typed
  <2>3. toTell' \in [Rpcs -> SUBSET Managers] /\ \A s \in Rpcs : toTell'[s] \subseteq toTell[s]
    BY <1>3 DEF IInv, Typed
  <2>4. Typed'
    BY <1>3, <2>2, <2>3 DEF IInv, Typed, dbvars, histvars
  <2>5. \A s \in Rpcs : CallFits(s)'
    BY <1>3, <2>3 DEF IInv, HandlerFits, CallFits, At, Is, MethodOf, WhoOf
  <2>6. PendingFits' /\ \A s \in Rpcs : FailureSeen(s)' /\ Wrote(s)'
    BY <1>3 DEF IInv, PendingFits, HandlerFits, FailureSeen, Wrote, Written1, Written2, At, Is, MethodOf,
                dbvars, histvars
  <2> QED
    BY <2>4, <2>5, <2>6 DEF IInv, HandlerFits
<1> QED
  BY <1>2, <1>3

\* A statement: if it works it waits for a commit, and if it fails all that run know.
LEMMA ExecuteIInv ==
    ASSUME IInv, NEW r \in Rpcs, NEW what \in Statements, NEW works,
           NEW next \in {"log", "commit", "commitSeen"},
           Execute(r, what, works, next),
           place[r] \in {"upsert", "log", "update"},
           next = "log" => Is(r, {"error"}) /\ At(r, "upsert"),
           next = "commit" => Is(r, {"register", "error"})
                              /\ (Is(r, {"error"}) => what = "log"),
           next = "commitSeen" => At(r, "update") /\ what = "seen"
    PROVE  IInv'
<1> USE DEF Execute, outvars
<1>1. PICK p \in {next, "raised"} : Goes(r, p)
  OBVIOUS
<1>2. next \in Places /\ p \in Places
  BY <1>1 DEF Places, Held, Ended
<1>3. /\ place' \in [Rpcs -> Places]
      /\ place'[r] = p /\ \A s \in Rpcs : s # r => place'[s] = place[s]
  BY <1>1, <1>2, GoesFits
<1>4. ~Is(r, {"listen"})
  BY DEF IInv, HandlerFits, CallFits, At, Is
<1>5. Typed'
  <2>1. Busy \subseteq Rpcs
    BY DEF Busy
  <2>2. \/ pending' = pending \cup {<<r, what>>} /\ aborted' = aborted /\ failed' = failed
        \/ pending' = pending /\ aborted' = TRUE /\ failed' = failed \cup Busy
    OBVIOUS
  <2>3. pending \subseteq Rpcs \X Statements /\ aborted \in BOOLEAN /\ failed \subseteq Rpcs
    BY DEF IInv, Typed
  <2> HIDE DEF Execute
  <2>4. pending' \subseteq Rpcs \X Statements /\ failed' \subseteq Rpcs
    BY <2>1, <2>2, <2>3
  <2>5. aborted' \in BOOLEAN
    BY <2>2, <2>3
  <2> USE DEF Execute
  <2> QED
    BY <1>3, <2>4, <2>5 DEF IInv, Typed, Places
<1>6. PendingFits'
  BY <1>4 DEF IInv, PendingFits, Is, MethodOf
<1>7. \A s \in Rpcs : CallFits(s)'
  BY <1>1, <1>3 DEF IInv, HandlerFits, CallFits, At, Is, MethodOf, WhoOf
<1>8. CASE aborted' = TRUE /\ place'[r] = "raised" /\ failed' = failed \cup Busy /\ UNCHANGED pending
  <2>1. \A s \in Rpcs : place[s] \in {"log", "commit", "commitSeen"} => s \in Busy
    BY DEF Busy, Held
  <2>2. \A s \in Rpcs : FailureSeen(s)'
    BY <1>3, <1>8, <2>1 DEF FailureSeen
  <2>3. \A s \in Rpcs : Wrote(s)'
    BY <1>3, <1>8 DEF IInv, HandlerFits, Wrote, Written1, Written2, At, Is, MethodOf
  <2> QED
    BY <1>5, <1>6, <1>7, <2>2, <2>3 DEF IInv, HandlerFits
<1>9. CASE /\ ~aborted /\ pending' = pending \cup {<<r, what>>} /\ Goes(r, next)
           /\ UNCHANGED <<aborted, failed>>
  <2>1. \A s \in Rpcs : FailureSeen(s)'
    BY <1>9 DEF FailureSeen
  <2>2. place'[r] = next
    BY <1>2, <1>9, GoesFits
  <2>3. ASSUME NEW s \in Rpcs PROVE Wrote(s)'
    <3>1. CASE s = r
      BY <1>9, <2>2, <3>1 DEF IInv, HandlerFits, Wrote, Written1, Written2, At, Is, MethodOf
    <3>2. CASE s # r
      BY <1>3, <1>9, <3>2 DEF IInv, HandlerFits, Wrote, Written1, Written2, At, Is, MethodOf
    <3> QED
      BY <3>1, <3>2
  <2> QED
    BY <1>5, <1>6, <1>7, <2>1, <2>3 DEF IInv, HandlerFits
<1>10. CASE aborted \/ ~works
  <2>1. aborted' = TRUE /\ Goes(r, "raised") /\ failed' = failed \cup Busy /\ UNCHANGED pending
    BY <1>10
  <2>2. "raised" \in Places
    BY DEF Places, Ended
  <2>3. place'[r] = "raised"
    BY <2>1, <2>2, GoesFits
  <2> QED
    BY <1>8, <2>1, <2>3
<1> QED
  BY <1>9, <1>10

LEMMA UpsertIInv == ASSUME IInv, NEW r \in Rpcs, Upsert(r) PROVE IInv'
<1>1. Is(r, {"register", "error"}) /\ At(r, "upsert")
  BY DEF Upsert, IInv, HandlerFits, CallFits, At
<1>2. CASE Is(r, {"error"})
  <2>1. Execute(r, "client", TRUE, "log")
    BY <1>2 DEF Upsert
  <2> QED
    BY <1>1, <1>2, <2>1, ExecuteIInv DEF Statements, At
<1>3. CASE ~Is(r, {"error"})
  <2>1. Execute(r, "client", TRUE, "commit")
    BY <1>3 DEF Upsert
  <2> QED
    BY <1>1, <1>3, <2>1, ExecuteIInv DEF Statements, At
<1> QED
  BY <1>2, <1>3

LEMMA InsertLogIInv == ASSUME IInv, NEW r \in Rpcs, InsertLog(r) PROVE IInv'
<1>1. Is(r, {"error"}) /\ At(r, "log")
  BY DEF InsertLog, IInv, HandlerFits, CallFits
<1> QED
  BY <1>1, ExecuteIInv DEF InsertLog, Statements, At, Is

LEMMA UpdateSeenIInv == ASSUME IInv, NEW r \in Rpcs, UpdateSeen(r) PROVE IInv'
  BY ExecuteIInv DEF UpdateSeen, Statements, At

\* A commit stores what all have written, unless a statement has failed: then it is
\* the commit of one that knows.
LEMMA CommitIInv ==
    ASSUME IInv, NEW r \in Rpcs, NEW next \in {"update", "telling", "returned"}, Commit(r, next),
           place[r] \in {"commit", "commitSeen"},
           next = "telling" => Is(r, {"register", "list"}),
           next = "update" => At(r, "commit") /\ Is(r, {"error"}),
           Is(r, {"list"}) => next = "telling",
           next \in {"returned"} => At(r, "commitSeen"),
           next = "telling" /\ Is(r, {"list"}) => At(r, "commitSeen")
    PROVE  IInv'
<1> USE DEF Commit
<1>1. next \in Places
  BY DEF Places, Held, Ended
<1>2. /\ place' \in [Rpcs -> Places]
      /\ place'[r] = next /\ \A s \in Rpcs : s # r => place'[s] = place[s]
  BY <1>1, GoesFits
<1>3. /\ toTell' \in [Rpcs -> SUBSET Managers] /\ told' \in [Rpcs -> 0..Cardinality(Managers)]
      /\ \A s \in Rpcs : \A m \in toTell'[s] : listeners'[m] # None
  <2>1. CASE BeginTelling(r)
    BY <2>1, TellingFits
  <2>2. CASE UNCHANGED <<toTell, told>>
    BY <2>2 DEF IInv, Typed, HandlerFits, CallFits
  <2> QED
    BY <2>1, <2>2
<1>4. Typed'
  <2>1. pending \subseteq Rpcs \X Statements
    BY DEF IInv, Typed
  <2>2. Lasting \subseteq Devices
    <3>1. \A s \in pending : WhoOf(s[1]) \in Devices
      BY <2>1, Callers DEF IInv, PendingFits
    <3> QED
      BY <3>1 DEF Lasting, IInv, Typed
  <2>3. Written("log") \subseteq Rpcs /\ Written("seen") \subseteq Rpcs
    BY <2>1 DEF Written
  <2>4. clients' \subseteq Devices /\ logs' \subseteq Rpcs /\ seen' \subseteq Rpcs
    BY <2>2, <2>3 DEF IInv, Typed
  <2>5. pending' \subseteq Rpcs \X Statements /\ aborted' \in BOOLEAN
    OBVIOUS
  <2> QED
    BY <1>2, <1>3, <2>4, <2>5 DEF IInv, Typed, Places, histvars
<1>5. PendingFits' /\ \A s \in Rpcs : FailureSeen(s)'
  BY DEF PendingFits, FailureSeen
<1>6. \A s \in Rpcs : CallFits(s)'
  BY <1>2, <1>3 DEF IInv, HandlerFits, CallFits, At, Is, MethodOf, WhoOf
<1>7. CASE aborted
  <2>1. UNCHANGED <<logs, seen, failed, deleted>> /\ r \in failed
    BY <1>7 DEF IInv, HandlerFits, FailureSeen, histvars
  <2>2. \A s \in Rpcs : s \notin failed => place[s] \notin {"log", "commit", "commitSeen"}
    BY <1>7 DEF IInv, HandlerFits, FailureSeen
  <2>3. \A s \in Rpcs : Wrote(s)'
    BY <1>2, <2>1, <2>2 DEF IInv, HandlerFits, Wrote, Written1, Written2, At, Is, MethodOf
  <2> QED
    BY <1>4, <1>5, <1>6, <2>3 DEF IInv, HandlerFits
<1>8. CASE ~aborted
  <2>1. /\ logs' = logs \cup Written("log") /\ seen' = seen \cup Written("seen")
        /\ UNCHANGED <<failed, deleted>>
    BY <1>8 DEF histvars
  <2>2. \A s \in Rpcs : /\ <<s, "log">> \in pending \/ s \in logs => s \in logs'
                        /\ <<s, "seen">> \in pending \/ s \in seen => s \in seen'
    BY <2>1 DEF Written
  <2>3. ASSUME NEW s \in Rpcs PROVE Wrote(s)'
    <3>1. CASE s = r
      BY <1>2, <2>1, <2>2, <3>1 DEF IInv, HandlerFits, Wrote, Written1, Written2, At, Is, MethodOf
    <3>2. CASE s # r
      BY <1>2, <2>1, <2>2, <3>2 DEF IInv, HandlerFits, Wrote, Written1, Written2, At, Is, MethodOf
    <3> QED
      BY <3>1, <3>2
  <2> QED
    BY <1>4, <1>5, <1>6, <2>3 DEF IInv, HandlerFits
<1> QED
  BY <1>7, <1>8

LEMMA CommitClientIInv == ASSUME IInv, NEW r \in Rpcs, CommitClient(r) PROVE IInv'
<1>1. Is(r, {"register", "error"}) /\ At(r, "commit")
  BY DEF CommitClient, IInv, HandlerFits, CallFits, At
<1>2. CASE Is(r, {"error"})
  <2>1. Commit(r, "update") /\ ~Is(r, {"list"})
    BY <1>2 DEF CommitClient, Is
  <2> QED
    BY <1>1, <1>2, <2>1, CommitIInv DEF At
<1>3. CASE ~Is(r, {"error"})
  <2>1. Commit(r, "telling") /\ Is(r, {"register", "list"}) /\ ~Is(r, {"list"})
    BY <1>1, <1>3 DEF CommitClient, Is
  <2> QED
    BY <1>1, <2>1, CommitIInv DEF At
<1> QED
  BY <1>2, <1>3

LEMMA CommitSeenIInv == ASSUME IInv, NEW r \in Rpcs, CommitSeen(r) PROVE IInv'
<1>1. At(r, "commitSeen")
  BY DEF CommitSeen
<1>2. CASE Is(r, {"list"})
  <2>1. Commit(r, "telling") /\ Is(r, {"register", "list"})
    BY <1>2 DEF CommitSeen, Is
  <2> QED
    BY <1>1, <1>2, <2>1, CommitIInv DEF At
<1>3. CASE ~Is(r, {"list"})
  <2>1. Commit(r, "returned")
    BY <1>3 DEF CommitSeen
  <2> QED
    BY <1>1, <1>3, <2>1, CommitIInv DEF At
<1> QED
  BY <1>2, <1>3

LEMMA DeleteDeviceIInv == ASSUME IInv, NEW d \in Devices, DeleteDevice(d) PROVE IInv'
<1> USE DEF DeleteDevice, outvars
<1>1. Typed'
  BY DEF IInv, Typed
<1>2. PendingFits' /\ \A s \in Rpcs : FailureSeen(s)'
  BY DEF IInv, HandlerFits, PendingFits, FailureSeen, Is, MethodOf
<1>3. \A s \in Rpcs : CallFits(s)'
  BY DEF IInv, HandlerFits, CallFits, At, Is, MethodOf, WhoOf
<1>4. ASSUME NEW s \in Rpcs PROVE Wrote(s)'
  <2>1. CASE WhoOf(s) = d /\ place[s] \notin {"idle", "queued"}
    BY <2>1 DEF Wrote
  <2>2. CASE place[s] \in {"idle", "queued"}
    BY <2>2 DEF Wrote, Written1, Written2, At
  <2>3. CASE WhoOf(s) # d
    <3>1. s \in logs' <=> s \in logs
      BY <2>3
    <3> QED
      BY <3>1 DEF IInv, HandlerFits, Wrote, Written1, Written2, At, Is, MethodOf
  <2> QED
    BY <2>1, <2>2, <2>3
<1> QED
  BY <1>1, <1>2, <1>3, <1>4 DEF IInv, HandlerFits

LEMMA CheckActiveIInv == ASSUME IInv, NEW r \in Rpcs, CheckActive(r) PROVE IInv'
<1> USE DEF CheckActive
<1>1. PICK p \in {"returned", "lookup"} : Goes(r, p)
  OBVIOUS
<1>2. p \in Places /\ At(r, "check") /\ Is(r, {"listen"}) /\ listeners[WhoOf(r)] # None
  BY DEF Places, Held, Ended, IInv, HandlerFits, CallFits, At
<1>3. /\ place' \in [Rpcs -> Places]
      /\ place'[r] = p /\ \A s \in Rpcs : s # r => place'[s] = place[s]
  BY <1>1, <1>2, GoesFits
<1>4. PendingFits' /\ \A s \in Rpcs : FailureSeen(s)' /\ Wrote(s)'
  BY <1>1, <1>2, NothingWritten DEF Is
<1>5. Typed'
  BY <1>3 DEF IInv, Typed, Places, outvars, dbvars, histvars
<1>6. \A s \in Rpcs : CallFits(s)'
  BY <1>2, <1>3 DEF IInv, HandlerFits, CallFits, At, Is, MethodOf, WhoOf, outvars
<1> QED
  BY <1>4, <1>5, <1>6 DEF IInv, HandlerFits

LEMMA LookUpQueueIInv == ASSUME IInv, NEW r \in Rpcs, LookUpQueue(r) PROVE IInv'
<1> USE DEF LookUpQueue
<1>1. "get" \in Places /\ Is(r, {"listen"}) /\ listeners[WhoOf(r)] # None
  BY DEF Places, Held, IInv, HandlerFits, CallFits, At
<1>2. /\ place' \in [Rpcs -> Places]
      /\ place'[r] = "get" /\ \A s \in Rpcs : s # r => place'[s] = place[s]
  BY <1>1, GoesFits
<1>3. PendingFits' /\ \A s \in Rpcs : FailureSeen(s)' /\ Wrote(s)'
  BY <1>1, NothingWritten DEF Is
<1>4. /\ waitsFor' \in [Rpcs -> Rpcs \cup {None}] /\ waitsFor'[r] # None
      /\ \A s \in Rpcs : s # r => waitsFor'[s] = waitsFor[s]
  <2>1. WhoOf(r) \in Managers
    BY <1>1, Callers
  <2>2. listeners[WhoOf(r)] \in Rpcs
    BY <1>1, <2>1 DEF IInv, Typed
  <2> QED
    BY <2>2, NoneAssumption DEF IInv, Typed
<1>5. Typed'
  BY <1>2, <1>4 DEF IInv, Typed, Places, outvars, dbvars, histvars
<1>6. \A s \in Rpcs : CallFits(s)'
  BY <1>1, <1>2, <1>4 DEF IInv, HandlerFits, CallFits, At, Is, MethodOf, WhoOf, outvars
<1> QED
  BY <1>3, <1>5, <1>6 DEF IInv, HandlerFits

LEMMA GetMessageIInv == ASSUME IInv, NEW r \in Rpcs, GetMessage(r) PROVE IInv'
<1> USE DEF GetMessage
<1>1. "check" \in Places /\ Is(r, {"listen"}) /\ listeners[WhoOf(r)] # None /\ waitsFor[r] \in Rpcs
  BY DEF Places, Held, IInv, Typed, HandlerFits, CallFits, At
<1>2. /\ place' \in [Rpcs -> Places]
      /\ place'[r] = "check" /\ \A s \in Rpcs : s # r => place'[s] = place[s]
  BY <1>1, GoesFits
<1>3. PendingFits' /\ \A s \in Rpcs : FailureSeen(s)' /\ Wrote(s)'
  BY <1>1, NothingWritten DEF Is
<1>4. messages' \in [Rpcs -> Seq(Rpcs)]
  <2> DEFINE queue == messages[waitsFor[r]]
  <2>1. queue \in Seq(Rpcs) /\ queue # <<>>
    BY <1>1 DEF IInv, Typed
  <2>2. SubSeq(queue, 1, Len(queue) - 1) \in Seq(Rpcs)
    BY <2>1, LastTaken
  <2>3. messages' = [messages EXCEPT ![waitsFor[r]] = SubSeq(queue, 1, Len(queue) - 1)]
    OBVIOUS
  <2> HIDE DEF queue
  <2> QED
    BY <2>2, <2>3, ZenonT(40) DEF IInv, Typed
<1>5. /\ waitsFor' \in [Rpcs -> Rpcs \cup {None}]
      /\ \A s \in Rpcs : s # r => waitsFor'[s] = waitsFor[s]
  BY DEF IInv, Typed
<1>6. Typed'
  BY <1>2, <1>4, <1>5 DEF IInv, Typed, Places, dbvars, histvars
<1>7. \A s \in Rpcs : CallFits(s)'
  BY <1>1, <1>2, <1>5 DEF IInv, HandlerFits, CallFits, At, Is, MethodOf, WhoOf
<1> QED
  BY <1>3, <1>6, <1>7 DEF IInv, HandlerFits

LEMMA BreakOffIInv == ASSUME IInv, NEW r \in Rpcs, BreakOff(r) PROVE IInv'
<1> USE DEF BreakOff, outvars, dbvars, histvars
<1>1. Typed'
  BY DEF IInv, Typed
<1>2. PendingFits' /\ \A s \in Rpcs : FailureSeen(s)' /\ Wrote(s)'
  BY DEF IInv, PendingFits, HandlerFits, FailureSeen, Wrote, Written1, Written2, At, Is, MethodOf
<1>3. \A s \in Rpcs : CallFits(s)'
  BY DEF IInv, HandlerFits, CallFits, At, Is, MethodOf, WhoOf
<1> QED
  BY <1>1, <1>2, <1>3 DEF IInv, HandlerFits

-----------------------------------------------------------------------------
(* The theorems.                                                            *)

LEMMA InitIInv == ASSUME Init PROVE IInv
<1> USE DEF Init
<1>1. call \in [Rpcs -> Kinds \X (Devices \cup Managers)]
  <2>1. \A r \in Rpcs : Uses[r] \subseteq Kinds \X (Devices \cup Managers)
    BY UsesAssumption DEF Kinds
  <2> QED
    BY <2>1
<1>2. Typed
  <2>1. 0 \in 0..Cardinality(Managers)
    BY Counted
  <2>2. messages \in [Rpcs -> Seq(Rpcs)]
    OBVIOUS
  <2> QED
    BY <1>1, <2>1, <2>2 DEF Typed
<1>3. PendingFits /\ \A r \in Rpcs : CallFits(r) /\ FailureSeen(r) /\ Wrote(r)
  BY DEF PendingFits, CallFits, FailureSeen, Wrote, Written1, Written2, At
<1> QED
  BY <1>2, <1>3 DEF IInv, HandlerFits

LEMMA NextIInv == ASSUME IInv, [Next]_vars PROVE IInv'
<1>1. ASSUME NEW r \in Rpcs, Accept(r) PROVE IInv'
  BY <1>1, RegisterClientIInv, PutStatusMsgIInv, PutClientResponseIInv, GetMsmtSttngsAndStartIInv,
     PutMeasurementListIInv, AddNewMessageOutListenerIInv DEF Accept
<1>2. ASSUME NEW r \in Rpcs, Run(r) PROVE IInv'
  BY <1>2, TellIInv, UpsertIInv, InsertLogIInv, CommitClientIInv, UpdateSeenIInv, CommitSeenIInv,
     CheckActiveIInv, LookUpQueueIInv, GetMessageIInv DEF Run
<1>3. CASE UNCHANGED vars
  BY <1>3 DEF vars, IInv, Typed, PendingFits, HandlerFits, CallFits, FailureSeen, Wrote, Written1,
              Written2, At, Is, MethodOf, WhoOf
<1> QED
  BY <1>1, <1>2, <1>3, CallIInv, BreakOffIInv, DeleteDeviceIInv DEF Next

LEMMA Invariance == Spec => []IInv
<1>1. Init => IInv
  BY InitIInv
<1>2. IInv /\ [Next]_vars => IInv'
  BY NextIInv
<1> QED
  BY <1>1, <1>2, PTL DEF Spec

\* Every variable keeps its type, and a getMessages call that waits has found a queue
\* (src/server/server.py:327): another call of its manager may have put a queue of its
\* own into the dictionary, or ended, but none takes the manager's entry away.
THEOREM TypeCorrect == Spec => []TypeOK
<1>1. IInv => TypeOK
  BY DEF IInv, TypeOK, HandlerFits, CallFits
<1> QED
  BY <1>1, Invariance, PTL

\* What a handler that has returned has written is stored, whoever committed it
\* (src/server/server.py:343), unless a statement failed while it ran or its device
\* has been deleted since.
THEOREM WhatIsWrittenIsStored == Spec => []WritesStored
<1>1. IInv => WritesStored
  BY DEF IInv, HandlerFits, Wrote, Written1, Written2, WritesStored, At, Is
<1> QED
  BY <1>1, Invariance, PTL
=============================================================================
