----------------------------- MODULE ServerHandlers -----------------------------
(***************************************************************************)
(* What the handlers of the server (src/server/server.py) share: its worker *)
(* threads, the queues of those who listen to messages (OutCommunicator),   *)
(* and one connection to the database, with one transaction for all.        *)
(*                                                                          *)
(* psycopg2 runs one statement of a connection at a time, whichever thread  *)
(* it comes from, and a commit ends the transaction of all.  After a        *)
(* statement has failed PostgreSQL refuses all others of the transaction    *)
(* and makes the commit a rollback.                                         *)
(***************************************************************************)
EXTENDS Naturals, Sequences, FiniteSets

CONSTANTS
    Rpcs,      \* calls, each made once
    Devices, Managers,
    Uses,      \* the methods that each call may be of, and who makes it
    Workers,   \* number of worker threads
    None

Kinds == {"register", "error", "status", "response", "settings", "list", "listen"}
ASSUME UsesAssumption ==
    Uses \in [Rpcs -> SUBSET ((Kinds \ {"listen"}) \X Devices \cup {"listen"} \X Managers)]
\* What happens if a device registers again is the subject of RequestDispatch.
ASSUME RegistersOnce ==
    \A r, s \in Rpcs, d \in Devices :
        <<"register", d>> \in Uses[r] \cap Uses[s] => r = s
ASSUME WorkersAssumption == Workers \in Nat
ASSUME ManagersAssumption == IsFiniteSet(Managers)
ASSUME NoneAssumption == None \notin Rpcs

VARIABLES
    call,       \* method and caller of each call
    place,      \* where the handler of each call is
    loggedIn,   \* devices in loggedInClients
    listeners,  \* outMessageQueues: the getMessages call whose queue a manager has
    messages,   \* contents of these queues: the calls that the messages are from
    toTell,     \* listeners that an iteration has yet to visit
    told,       \* size of the dictionary when the iteration began
    waitsFor,   \* the queue that getMessages gets from
    broken,     \* listeners that have disconnected
    clients,    \* rows of clients
    logs,       \* rows of logmessages, as calls
    seen,       \* calls whose UPDATE of last_seen is committed
    pending,    \* statements of the transaction, as (call, what)
    aborted,    \* the transaction has failed
    failed,     \* history: calls during which a statement has failed
    deleted     \* history: calls since whose beginning their device has been deleted

dbvars == <<clients, logs, seen, pending, aborted>>
histvars == <<failed, deleted>>
outvars == <<listeners, messages, toTell, told>>
vars == <<call, place, loggedIn, listeners, messages, toTell, told, waitsFor, broken,
          clients, logs, seen, pending, aborted, failed, deleted>>

MethodOf(r) == call[r][1]
WhoOf(r) == call[r][2]
Statements == {"client", "log", "seen"}
Held == {"telling", "upsert", "log", "commit", "update", "commitSeen", "serving",
         "check", "lookup", "get"}
Ended == {"returned", "ignored", "raised"}

Typed ==
    /\ call \in [Rpcs -> Kinds \X (Devices \cup Managers)]
    /\ place \in [Rpcs -> {"idle", "queued"} \cup Held \cup Ended]
    /\ loggedIn \subseteq Devices
    /\ listeners \in [Managers -> Rpcs \cup {None}]
    /\ messages \in [Rpcs -> Seq(Rpcs)]
    /\ toTell \in [Rpcs -> SUBSET Managers]
    /\ told \in [Rpcs -> 0..Cardinality(Managers)]
    /\ waitsFor \in [Rpcs -> Rpcs \cup {None}]
    /\ broken \subseteq Rpcs
    /\ clients \subseteq Devices
    /\ logs \subseteq Rpcs /\ seen \subseteq Rpcs
    /\ pending \subseteq Rpcs \X Statements
    /\ aborted \in BOOLEAN
    /\ failed \subseteq Rpcs /\ deleted \subseteq Rpcs

Init ==
    /\ call \in [Rpcs -> UNION {Uses[r] : r \in Rpcs}]
    /\ \A r \in Rpcs : call[r] \in Uses[r]
    /\ place = [r \in Rpcs |-> "idle"]
    /\ loggedIn = {}
    /\ listeners = [m \in Managers |-> None]
    /\ messages = [l \in Rpcs |-> <<>>]
    /\ toTell = [r \in Rpcs |-> {}]
    /\ told = [r \in Rpcs |-> 0]
    /\ waitsFor = [l \in Rpcs |-> None]
    /\ broken = {}
    /\ clients = {} /\ logs = {} /\ seen = {}
    /\ pending = {} /\ aborted = FALSE
    /\ failed = {} /\ deleted = {}

At(r, p) == place[r] = p

\* Type correctness.  Also, getMessages always finds a queue for its manager, whichever
\* call of that manager has ended: outMessageQueues[managementUid] raises no exception.
TypeOK == Typed /\ \A l \in Rpcs : At(l, "get") => waitsFor[l] # None

Is(r, kinds) == MethodOf(r) \in kinds
Goes(r, p) == place' = [place EXCEPT ![r] = p]
Busy == {r \in Rpcs : place[r] \in Held}

-----------------------------------------------------------------------------
(* Worker threads.                                                          *)

FreeThread == Cardinality(Busy) < Workers

\* A call waits if no thread is free, and is accepted as it comes otherwise.
Call(r) ==
    /\ At(r, "idle") /\ ~FreeThread
    /\ Goes(r, "queued")
    /\ UNCHANGED <<call, loggedIn, outvars, waitsFor, broken, dbvars, histvars>>

\* A call has a thread as long as its handler runs.
Accepted(r, p) ==
    /\ place[r] \in {"idle", "queued"} /\ FreeThread
    /\ Goes(r, p)
    /\ UNCHANGED histvars

\* An iteration over the keys of outMessageQueues begins.
BeginTelling(r) ==
    LET all == {m \in Managers : listeners[m] # None} IN
    /\ toTell' = [toTell EXCEPT ![r] = all]
    /\ told' = [told EXCEPT ![r] = Cardinality(all)]

-----------------------------------------------------------------------------
(* The beginnings of the handlers.                                          *)

\* The registration is in force before the database knows of it.
RegisterClient(r) ==
    /\ Is(r, {"register"}) /\ Accepted(r, "upsert")
    /\ loggedIn' = loggedIn \cup {WhoOf(r)}
    /\ UNCHANGED <<call, outvars, waitsFor, broken, dbvars>>

\* An error is logged; messages of other status are told only; a device that is
\* not registered is ignored.
PutStatusMsg(r) ==
    /\ Is(r, {"error", "status"})
    /\ IF WhoOf(r) \in loggedIn
       THEN Accepted(r, "telling") /\ BeginTelling(r) /\ UNCHANGED <<listeners, messages>>
       ELSE Accepted(r, "ignored") /\ UNCHANGED outvars
    /\ UNCHANGED <<call, loggedIn, waitsFor, broken, dbvars>>

\* A response to a device that is not registered is told of.
PutClientResponse(r) ==
    /\ Is(r, {"response"})
    /\ IF WhoOf(r) \in loggedIn
       THEN Accepted(r, "update") /\ UNCHANGED outvars
       ELSE Accepted(r, "telling") /\ BeginTelling(r) /\ UNCHANGED <<listeners, messages>>
    /\ UNCHANGED <<call, loggedIn, waitsFor, broken, dbvars>>

GetMsmtSttngsAndStart(r) ==
    /\ Is(r, {"settings"})
    /\ Accepted(r, IF WhoOf(r) \in loggedIn THEN "update" ELSE "ignored")
    /\ UNCHANGED <<call, loggedIn, outvars, waitsFor, broken, dbvars>>

\* Each name: here it is one.
PutMeasurementList(r) ==
    /\ Is(r, {"list"}) /\ Accepted(r, "update")
    /\ UNCHANGED <<call, loggedIn, outvars, waitsFor, broken, dbvars>>

-----------------------------------------------------------------------------
(* addMessageOut.                                                           *)

AfterTelling(r) ==
    CASE Is(r, {"register"}) -> "serving"
      [] Is(r, {"error"}) -> "upsert"
      [] Is(r, {"status", "response"}) -> "update"
      [] Is(r, {"list"}) -> "returned"

StopTelling(r) == toTell' = [toTell EXCEPT ![r] = {}] /\ told' = [told EXCEPT ![r] = 0]

\* The iteration goes on with another listener; it raises an exception if there are
\* more of them now.
Tell(r) ==
    /\ At(r, "telling")
    /\ IF Cardinality({m \in Managers : listeners[m] # None}) # told[r]
       THEN Goes(r, "raised") /\ StopTelling(r) /\ UNCHANGED messages
       ELSE IF toTell[r] = {}
       THEN Goes(r, AfterTelling(r)) /\ StopTelling(r) /\ UNCHANGED messages
       ELSE \E m \in toTell[r] :
               /\ messages' = [messages EXCEPT ![listeners[m]] = Append(@, r)]
               /\ toTell' = [toTell EXCEPT ![r] = @ \ {m}]
               /\ UNCHANGED <<place, told>>
    /\ UNCHANGED <<call, loggedIn, listeners, waitsFor, broken, dbvars, histvars>>

-----------------------------------------------------------------------------
(* The connection.                                                          *)

Lasting == clients \cup {WhoOf(s[1]) : s \in {x \in pending : x[2] = "client"}}

\* A statement of the transaction of all, which fails in a failed one, or if it
\* refers to no row.
Execute(r, what, works, next) ==
    /\ IF ~aborted /\ works
       THEN /\ pending' = pending \cup {<<r, what>>}
            /\ Goes(r, next)
            /\ UNCHANGED <<aborted, failed>>
       ELSE /\ aborted' = TRUE
            /\ Goes(r, "raised")
            /\ failed' = failed \cup Busy
            /\ UNCHANGED pending
    /\ UNCHANGED <<call, loggedIn, outvars, waitsFor, broken, clients, logs, seen, deleted>>

\* Faulty variant: nothing is committed.
LeaveOpen(r, next) ==
    /\ Goes(r, next)
    /\ IF next = "telling" THEN BeginTelling(r) ELSE UNCHANGED <<toTell, told>>
    /\ UNCHANGED <<call, loggedIn, listeners, messages, waitsFor, broken, dbvars, histvars>>

Written(what) == {s[1] : s \in {x \in pending : x[2] = what}}

\* Everybody's statements are stored, or nobody's.  What a handler tells next
\* begins with this step.
Commit(r, next) ==
    /\ Goes(r, next)
    /\ pending' = {} /\ aborted' = FALSE
    /\ clients' = IF aborted THEN clients ELSE Lasting
    /\ logs' = IF aborted THEN logs ELSE logs \cup Written("log")
    /\ seen' = IF aborted THEN seen ELSE seen \cup Written("seen")
    /\ IF next = "telling" THEN BeginTelling(r) ELSE UNCHANGED <<toTell, told>>
    /\ UNCHANGED <<call, loggedIn, listeners, messages, waitsFor, broken, histvars>>

\* registerClient, and putStatusMsg of an error.
Upsert(r) ==
    At(r, "upsert") /\ Execute(r, "client", TRUE, IF Is(r, {"error"}) THEN "log" ELSE "commit")
InsertLog(r) == At(r, "log") /\ Execute(r, "log", WhoOf(r) \in Lasting, "commit")
CommitClient(r) ==
    At(r, "commit") /\ Commit(r, IF Is(r, {"error"}) THEN "update" ELSE "telling")

\* logClientOccurance.  An UPDATE of no row if the client is not there.
UpdateSeen(r) == At(r, "update") /\ Execute(r, "seen", TRUE, "commitSeen")
CommitSeen(r) ==
    At(r, "commitSeen") /\ Commit(r, IF Is(r, {"list"}) THEN "telling" ELSE "returned")

\* deleteDevice of the web application, which waits for rows that are locked.
DeleteDevice(d) ==
    /\ d \in clients
    /\ \A s \in pending : WhoOf(s[1]) # d
    /\ clients' = clients \ {d}
    /\ logs' = {r \in logs : WhoOf(r) # d}
    /\ deleted' = deleted \cup {r \in Rpcs : WhoOf(r) = d /\ place[r] \notin {"idle", "queued"}}
    /\ UNCHANGED <<call, place, loggedIn, outvars, waitsFor, broken, seen, pending, aborted,
                   failed>>

-----------------------------------------------------------------------------
(* getMessages.                                                             *)

\* A queue of its own: that of a call before is no longer in the dictionary.
AddNewMessageOutListener(l) ==
    /\ Is(l, {"listen"}) /\ Accepted(l, "check")
    /\ listeners' = [listeners EXCEPT ![WhoOf(l)] = l]
    /\ UNCHANGED <<call, loggedIn, messages, toTell, told, waitsFor, broken, dbvars>>

\* Faulty variant: as long as there are messages.
CheckNothing(l) ==
    /\ At(l, "check")
    /\ Goes(l, "lookup")
    /\ UNCHANGED <<call, loggedIn, outvars, waitsFor, broken, dbvars, histvars>>

\* Faulty variant: the queue in the dictionary goes with the stream, whoever's it is.
CheckAndForget(l) ==
    /\ At(l, "check")
    /\ IF l \in broken
       THEN Goes(l, "returned") /\ listeners' = [listeners EXCEPT ![WhoOf(l)] = None]
       ELSE Goes(l, "lookup") /\ UNCHANGED listeners
    /\ UNCHANGED <<call, loggedIn, messages, toTell, told, waitsFor, broken, dbvars, histvars>>

CheckActive(l) ==
    /\ At(l, "check")
    /\ Goes(l, IF l \in broken THEN "returned" ELSE "lookup")
    /\ UNCHANGED <<call, loggedIn, outvars, waitsFor, broken, dbvars, histvars>>

\* getNextMessageOut: the queue of the moment, maybe that of a later call.
LookUpQueue(l) ==
    /\ At(l, "lookup")
    /\ waitsFor' = [waitsFor EXCEPT ![l] = listeners[WhoOf(l)]]
    /\ Goes(l, "get")
    /\ UNCHANGED <<call, loggedIn, outvars, broken, dbvars, histvars>>

\* Faulty variant: one message is all.
GetOneMessage(l) ==
    /\ At(l, "get") /\ messages[waitsFor[l]] # <<>>
    /\ LET queue == messages[waitsFor[l]] IN
       /\ messages' = [messages EXCEPT ![waitsFor[l]] = SubSeq(queue, 1, Len(queue) - 1)]
    /\ waitsFor' = [waitsFor EXCEPT ![l] = None]
    /\ Goes(l, "returned")
    /\ UNCHANGED <<call, loggedIn, listeners, toTell, told, broken, dbvars, histvars>>

\* The last message first.  A stream that has broken takes it nowhere.
GetMessage(l) ==
    /\ At(l, "get") /\ messages[waitsFor[l]] # <<>>
    /\ LET queue == messages[waitsFor[l]] IN
       /\ messages' = [messages EXCEPT ![waitsFor[l]] = SubSeq(queue, 1, Len(queue) - 1)]
    /\ waitsFor' = [waitsFor EXCEPT ![l] = None]
    /\ Goes(l, "check")
    /\ UNCHANGED <<call, loggedIn, listeners, toTell, told, broken, dbvars, histvars>>

\* The console goes.
BreakOff(l) ==
    /\ place[l] \in {"check", "lookup", "get"} /\ l \notin broken
    /\ broken' = broken \cup {l}
    /\ UNCHANGED <<call, place, loggedIn, outvars, waitsFor, dbvars, histvars>>

-----------------------------------------------------------------------------

Accept(r) ==
    \/ RegisterClient(r) \/ PutStatusMsg(r) \/ PutClientResponse(r)
    \/ GetMsmtSttngsAndStart(r) \/ PutMeasurementList(r) \/ AddNewMessageOutListener(r)
Run(r) ==
    \/ Tell(r) \/ Upsert(r) \/ InsertLog(r) \/ CommitClient(r) \/ UpdateSeen(r) \/ CommitSeen(r)
    \/ CheckActive(r) \/ LookUpQueue(r) \/ GetMessage(r)

Next ==
    \/ \E r \in Rpcs : Call(r) \/ Accept(r) \/ Run(r)
    \/ \E l \in Rpcs : BreakOff(l)
    \/ \E d \in Devices : DeleteDevice(d)

Spec == Init /\ [][Next]_vars

\* Threads go on, and a free one takes a call that waits.
FairSpec == Spec /\ \A r \in Rpcs : WF_vars(Run(r)) /\ WF_vars(At(r, "queued") /\ Accept(r))

-----------------------------------------------------------------------------
(* Properties.                                                              *)

\* A handler that has ended has stored what it wrote, unless a statement failed, or
\* its device was deleted, since it began: that others commit in between takes
\* nothing away.
WritesStored ==
    \A r \in Rpcs : At(r, "returned") /\ r \notin failed \cup deleted =>
        /\ Is(r, {"error"}) => r \in logs
        /\ Is(r, {"error", "list"}) => r \in seen

\* The rest is about where the server settles: calls are made once.

Replaced(l) == Is(l, {"listen"}) /\ listeners[WhoOf(l)] # l
Unheard(l) == Is(l, {"listen"}) /\ messages[l] # <<>>

\* Whatever is put into the queue of a listener is heard, unless one of its manager's
\* listeners has broken off, which may have taken the message with it, or another
\* call has taken the queue's place in the dictionary.
ListenersHear ==
    <>[](\A l \in Rpcs : Unheard(l) =>
            Replaced(l) \/ \E k \in broken : WhoOf(k) = WhoOf(l))

\* A message frees the thread of a listener that has gone, or that of another one of
\* the same manager, which waits for the same queue, unless one still runs that may
\* hear it, or another call has taken the queue's place in the dictionary.
ListenersEnd ==
    \A l \in {r \in Rpcs : \E u \in Uses[r] : u[1] = "listen"} :
        l \in broken /\ At(l, "get") /\ messages[waitsFor[l]] # <<>> ~>
            \/ Replaced(l)
            \/ \E k \in Rpcs :
                  /\ Is(k, {"listen"}) /\ WhoOf(k) = WhoOf(l)
                  /\ \/ At(k, "returned")
                     \/ place[k] \in {"check", "lookup", "get"} /\ k \notin broken
=============================================================================
