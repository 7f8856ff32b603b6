---------------------------- MODULE RunManagement ----------------------------
(***************************************************************************)
(* Runs, devices under test and the links between runs, clients and         *)
(* measurements, as the web application (src/server/management/app.py)      *)
(* changes them while putMeasurement (src/server/server.py) links new       *)
(* measurements.                                                            *)
(*                                                                          *)
(* A thread of the web server serves one request at a time: first the page  *)
(* that a user fills in, which shows the tables as they are then, later the *)
(* handler that the form is sent to.  A step is a transaction, or a         *)
(* statement of one that others can run in between of: what it writes is    *)
(* visible when the transaction is committed, and until then the rows it    *)
(* has touched are locked.  The constraints of                              *)
(* src/server/database_schema.sql are part of the statements they check.    *)
(***************************************************************************)
EXTENDS Integers, FiniteSets

CONSTANTS
    Threads,      \* threads of the web server
    Clients,      \* client uids
    Msmts,        \* shared measurement ids
    OwnerOf,      \* the client of each measurement
    None,         \* NULL
    Absent,       \* no row
    MaxRuns, MaxDuts,
    MaxTime,      \* last instant
    MaxRequests   \* requests that are made

ASSUME ThreadsAssumption == IsFiniteSet(Threads)
ASSUME OwnerAssumption == OwnerOf \in [Msmts -> Clients]
ASSUME BoundsAssumption ==
    MaxRuns \in Nat \ {0} /\ MaxDuts \in Nat \ {0} /\ MaxTime \in Nat /\ MaxRequests \in Nat

RunIds == 1..MaxRuns
DutIds == 1..MaxDuts
Times == 0..MaxTime

ASSUME NoneAssumption == None \notin RunIds \cup DutIds \cup Times \cup Msmts
ASSUME AbsentAssumption == Absent \notin RunIds \cup {None} /\ Absent \notin {"plain", "address"}

VARIABLES
    duts,      \* devices_under_test: "plain", with an "address", or Absent
    nextDut,   \* its next id
    clients,   \* rows of clients
    runs,      \* rows of runs, None where there is none
    nextRun,   \* its next id
    links,     \* rows of client_runs as pairs of a run and a client
    msmtRun,   \* measurements.run_id, Absent where there is no measurement
    now,
    pc,        \* where the request of each thread is
    form,      \* what it was sent with
    locked,    \* rows of client_runs and measurements it has deleted and not
               \* committed
    todo,      \* finishRun: clients it has yet to stop
    served,    \* number of requests so far
    dirty,     \* history: another request changed what this one has checked
    raced      \* history: runs saved by a request that was dirty

tables == <<duts, nextDut, clients, runs, nextRun, links, msmtRun>>
reqvars == <<pc, form, locked, todo, served>>
histvars == <<dirty, raced>>
vars == <<duts, nextDut, clients, runs, nextRun, links, msmtRun, now, pc, form, locked, todo,
          served, dirty, raced>>

Runs == [dut : DutIds, start : Times, stop : Times \cup {None}]
LinkRows == RunIds \X Clients
Kinds == {"add", "update", "finish", "delete", "link", "drop", "device",
          "addDut", "updateDut", "deleteDut"}
\* The kind of request, the run, device under test, clients, period and
\* measurement it is about, and what the addresses of a device under test are.
Forms == [kind : Kinds, run : RunIds \cup {None}, dut : DutIds \cup {None},
          clients : SUBSET Clients, start : Times \cup {None},
          stop : Times \cup {None}, msmt : Msmts \cup {None},
          entry : {"plain", "address", "invalid"}]
Ended == {"ok", "refused", "error"}

ASSUME RowsAssumption == None \notin Runs /\ None \notin Forms
ASSUME MsmtsAssumption == Msmts \cap LinkRows = {}

TypeOK ==
    /\ duts \in [DutIds -> {Absent, "plain", "address"}]
    /\ nextDut \in Nat /\ nextRun \in Nat
    /\ clients \subseteq Clients
    /\ runs \in [RunIds -> Runs \cup {None}]
    /\ links \subseteq LinkRows
    /\ msmtRun \in [Msmts -> RunIds \cup {None, Absent}]
    /\ now \in Times
    /\ pc \in [Threads -> {"idle", "sent", "valid", "checked", "inserted", "updating",
                           "reading", "finishing", "unlinking", "emptied",
                           "purging"} \cup Ended]
    /\ form \in [Threads -> Forms \cup {None}]
    /\ locked \in [Threads -> SUBSET (LinkRows \cup Msmts)]
    /\ todo \in [Threads -> SUBSET Clients]
    /\ served \in Nat
    /\ dirty \in [Threads -> BOOLEAN]
    /\ raced \subseteq RunIds

Exists(r) == runs[r] # None
LinksOf(r) == {l \in links : l[1] = r}
ClientsOf(r) == {c \in Clients : <<r, c>> \in links}
LinkedMmts(r) == {m \in Msmts : msmtRun[m] = r}
Stored(d) == duts[d] # Absent

\* An installation with a device under test and its clients, and no run or one
\* that has been started.
Init ==
    /\ duts = [d \in DutIds |-> IF d = 1 THEN "plain" ELSE Absent]
    /\ nextDut = 2
    /\ clients = Clients
    /\ \/ /\ nextRun = 1
          /\ runs = [r \in RunIds |-> None]
          /\ links = {}
       \/ /\ nextRun = 2
          /\ runs = [r \in RunIds |->
                       IF r = 1 THEN [dut |-> 1, start |-> 0, stop |-> None] ELSE None]
          /\ links \in SUBSET ({1} \X Clients)
    /\ msmtRun = [m \in Msmts |-> Absent]
    /\ now = 0
    /\ pc = [t \in Threads |-> "idle"]
    /\ form = [t \in Threads |-> None]
    /\ locked = [t \in Threads |-> {}]
    /\ todo = [t \in Threads |-> {}]
    /\ served = 0
    /\ dirty = [t \in Threads |-> FALSE]
    /\ raced = {}

At(t, place) == pc[t] = place
Of(t, kind) == form[t].kind = kind
Goes(t, place) == pc' = [pc EXCEPT ![t] = place]
\* The transaction's locks go with it.
Ends(t, place) ==
    /\ Goes(t, place)
    /\ locked' = [locked EXCEPT ![t] = {}]
    /\ todo' = [todo EXCEPT ![t] = {}]
    /\ UNCHANGED <<form, served>>
Steps(t, place) ==
    /\ Goes(t, place)
    /\ UNCHANGED <<form, locked, todo, served>>

-----------------------------------------------------------------------------
(* The pages, and what can be sent from them.                               *)

Blank == [kind |-> "add", run |-> None, dut |-> None, clients |-> {}, start |-> None,
          stop |-> None, msmt |-> None, entry |-> "plain"]

\* newRunPage: start is filled in with the present time.
NewRunForms ==
    [kind : {"add"}, run : {None}, dut : {d \in DutIds : Stored(d)},
     clients : SUBSET clients, start : {now, None}, stop : Times \cup {None},
     msmt : {None}, entry : {"plain"}]

\* manageRun: the run as it is, with an entry changed; its buttons.
RunForms ==
    UNION {LET page == [Blank EXCEPT !.kind = "update", !.run = r, !.dut = runs[r].dut,
                                     !.clients = ClientsOf(r),
                                     !.start = runs[r].start, !.stop = runs[r].stop]
           IN  {[page EXCEPT !.clients = cs] : cs \in SUBSET clients}
               \cup {[page EXCEPT !.start = b] : b \in Times}
               \cup {[page EXCEPT !.stop = e] : e \in Times \cup {None}}
               \cup {[page EXCEPT !.dut = d] : d \in {x \in DutIds : Stored(x)}}
               \cup {[page EXCEPT !.kind = k] :
                        k \in {"finish"} \cup (IF LinkedMmts(r) = {} THEN {"delete"} ELSE {})}
           : r \in {x \in RunIds : Exists(x)}}

\* manageMeasurement: a run of its client, or none.
MeasurementForms ==
    UNION {{[Blank EXCEPT !.kind = "link", !.msmt = m, !.run = r] :
               r \in {None} \cup {x \in RunIds : <<x, OwnerOf[m]>> \in links}}
           \cup {[Blank EXCEPT !.kind = "drop", !.msmt = m]}
           : m \in {x \in Msmts : msmtRun[x] # Absent}}

DeviceForms == {[Blank EXCEPT !.kind = "device", !.clients = {c}] : c \in clients}

\* newDutPage and manageDut.
DutForms ==
    {[Blank EXCEPT !.kind = "addDut", !.entry = e] : e \in {"plain", "address", "invalid"}}
    \cup UNION {{[Blank EXCEPT !.kind = "updateDut", !.dut = d, !.entry = e] :
                    e \in {"plain", "address", "invalid"}}
                \cup {[Blank EXCEPT !.kind = "deleteDut", !.dut = d]}
                : d \in {x \in DutIds : Stored(x)}}

\* Bounds: what is being added still has an id.
Pending(kind) == {t \in Threads : pc[t] \in {"sent", "valid", "checked"} /\ form[t].kind = kind}
HasRoom(f) ==
    /\ f.kind = "add" => nextRun + Cardinality(Pending("add")) \in RunIds
    /\ f.kind = "addDut" => nextDut + Cardinality(Pending("addDut")) \in DutIds

Send(t) ==
    /\ pc[t] \in {"idle"} \cup Ended
    /\ served < MaxRequests
    /\ \E f \in NewRunForms \cup RunForms \cup MeasurementForms \cup DeviceForms \cup DutForms :
          HasRoom(f) /\ form' = [form EXCEPT ![t] = f]
    /\ Goes(t, "sent")
    /\ served' = served + 1
    /\ UNCHANGED <<tables, now, locked, todo, histvars>>

-----------------------------------------------------------------------------
(* addNewRun and updateRun.                                                 *)

\* The run, its device and its clients exist; the period has a start and does
\* not end before it.
ValidateRun(t) ==
    /\ At(t, "sent") /\ form[t].kind \in {"add", "update"}
    /\ LET f == form[t]
           valid == /\ f.kind = "update" => Exists(f.run)
                    /\ Stored(f.dut)
                    /\ f.clients \subseteq clients
                    /\ f.start # None
                    /\ f.stop # None => f.start <= f.stop
       IN  IF valid THEN Steps(t, "valid") ELSE Ends(t, "refused")
    /\ UNCHANGED <<tables, now, histvars>>

\* Faulty variant: runs that have all of the clients (ALL instead of ANY).
ConflictsOfAll(f) ==
    {r \in RunIds : /\ Exists(r) /\ runs[r].stop = None
                    /\ r # f.run
                    /\ f.clients # {} /\ f.clients \subseteq ClientsOf(r)}

\* Unfinished runs of the clients, other than the run itself.
Conflicts(f) ==
    {r \in RunIds : /\ Exists(r) /\ runs[r].stop = None
                    /\ r # f.run
                    /\ ClientsOf(r) \cap f.clients # {}}

CheckConflicts(t) ==
    /\ At(t, "valid")
    /\ IF Conflicts(form[t]) = {} THEN Steps(t, "checked") ELSE Ends(t, "refused")
    /\ dirty' = [dirty EXCEPT ![t] = FALSE]
    /\ UNCHANGED <<tables, now, raced>>

\* The references and the CHECK of the table.
RowAllowed(f) == Stored(f.dut) /\ (f.stop # None => f.start < f.stop)
RowOf(f) == [dut |-> f.dut, start |-> f.start, stop |-> f.stop]

InsertRun(t) ==
    /\ At(t, "checked") /\ Of(t, "add")
    /\ IF RowAllowed(form[t])
       THEN /\ nextRun' = nextRun + 1
            /\ runs' = [runs EXCEPT ![nextRun] = RowOf(form[t])]
            /\ form' = [form EXCEPT ![t].run = nextRun]
            /\ Goes(t, "inserted")
            /\ UNCHANGED <<locked, todo, served>>
       ELSE Ends(t, "error") /\ UNCHANGED <<runs, nextRun>>
    /\ UNCHANGED <<duts, nextDut, clients, links, msmtRun, now, histvars>>

\* Faulty variant: a table without the references.
AnyLinks(f) == TRUE
\* Rows of client_runs refer to clients and runs that exist.
LinksAllowed(f) == f.clients \subseteq clients /\ (f.clients # {} => Exists(f.run))
NewLinks(f) == {f.run} \X f.clients

\* A run with its links is visible to others from now on.
Saved(t) ==
    /\ dirty' = [u \in Threads |->
                    u # t /\ (dirty[u] \/ pc[u] \in {"checked", "inserted", "updating"})]
    /\ raced' = IF dirty[t] THEN raced \cup {form[t].run} ELSE raced \ {form[t].run}

\* The second transaction of addNewRun.
InsertLinks(t) ==
    /\ At(t, "inserted")
    /\ IF LinksAllowed(form[t])
       THEN links' = links \cup NewLinks(form[t]) /\ Saved(t) /\ Ends(t, "ok")
       ELSE Ends(t, "error") /\ UNCHANGED <<links, histvars>>
    /\ UNCHANGED <<duts, nextDut, clients, runs, nextRun, msmtRun, now>>

\* The row of a run is locked from its UPDATE to the commit, rows of client_runs
\* and measurements from their DELETE.
RunFree(t, r) == \A u \in Threads \ {t} : ~(At(u, "updating") /\ form[u].run = r)
Free(t, rows) == \A u \in Threads \ {t} : locked[u] \cap rows = {}

\* An UPDATE of no row if the run is gone.
UpdateRow(t) ==
    /\ At(t, "checked") /\ Of(t, "update")
    /\ RunFree(t, form[t].run)
    /\ IF Exists(form[t].run) /\ ~RowAllowed(form[t])
       THEN Ends(t, "error") ELSE Steps(t, "updating")
    /\ UNCHANGED <<tables, now, histvars>>

\* DELETE and INSERT of the links, and the commit of everything.
ReplaceLinks(t) ==
    /\ At(t, "updating")
    /\ LET f == form[t] IN
       /\ Free(t, LinksOf(f.run))
       /\ IF LinksAllowed(f)
          THEN /\ runs' = IF Exists(f.run) THEN [runs EXCEPT ![f.run] = RowOf(f)] ELSE runs
               /\ links' = (links \ LinksOf(f.run)) \cup NewLinks(f)
               /\ Saved(t) /\ Ends(t, "ok")
          ELSE Ends(t, "error") /\ UNCHANGED <<runs, links, histvars>>
    /\ UNCHANGED <<duts, nextDut, clients, nextRun, msmtRun, now>>

-----------------------------------------------------------------------------
(* finishRun.                                                               *)

ReadStop(t) ==
    /\ At(t, "sent") /\ Of(t, "finish")
    /\ LET r == form[t].run IN
       IF ~Exists(r) \/ (runs[r].stop # None /\ runs[r].stop < now)
       THEN Ends(t, IF Exists(r) THEN "error" ELSE "refused")
       ELSE /\ form' = [form EXCEPT ![t].stop = now]
            /\ Goes(t, "reading")
            /\ UNCHANGED <<locked, todo, served>>
    /\ UNCHANGED <<tables, now, histvars>>

ReadClients(t) ==
    /\ At(t, "reading")
    /\ todo' = [todo EXCEPT ![t] = ClientsOf(form[t].run)]
    /\ Goes(t, "finishing")
    /\ UNCHANGED <<tables, now, form, locked, served, histvars>>

\* Faulty variant: when a client could not be stopped, all are stopped anew.
StopClientAgain(t) ==
    /\ At(t, "finishing")
    /\ \E c \in todo[t], stopped \in BOOLEAN :
          todo' = [todo EXCEPT ![t] = IF stopped THEN @ \ {c} ELSE ClientsOf(form[t].run)]
    /\ UNCHANGED <<tables, now, pc, form, locked, served, histvars>>

\* stopMeasurementAtDevice: its result is only reported.
StopClient(t) ==
    /\ At(t, "finishing")
    /\ \E c \in todo[t] : todo' = [todo EXCEPT ![t] = @ \ {c}]
    /\ UNCHANGED <<tables, now, pc, form, locked, served, histvars>>

\* The CHECK of the table holds for the time of the request's beginning.
SetStop(t) ==
    /\ At(t, "finishing") /\ todo[t] = {}
    /\ LET r == form[t].run IN
       /\ RunFree(t, r)
       /\ IF Exists(r) /\ runs[r].start >= form[t].stop
          THEN Ends(t, "error") /\ UNCHANGED runs
          ELSE /\ runs' = IF Exists(r) THEN [runs EXCEPT ![r].stop = form[t].stop] ELSE runs
               /\ Ends(t, "ok")
    /\ UNCHANGED <<duts, nextDut, clients, nextRun, links, msmtRun, now, histvars>>

-----------------------------------------------------------------------------
(* deleteRun, deleteDevice and deleteMeasurement.                           *)

CheckDeletable(t) ==
    /\ At(t, "sent") /\ Of(t, "delete")
    /\ IF Exists(form[t].run) /\ LinkedMmts(form[t].run) = {}
       THEN Steps(t, "checked") ELSE Ends(t, "refused")
    /\ UNCHANGED <<tables, now, histvars>>

DeleteLinks(t) ==
    /\ At(t, "checked") /\ Of(t, "delete")
    /\ Free(t, LinksOf(form[t].run))
    /\ locked' = [locked EXCEPT ![t] = LinksOf(form[t].run)]
    /\ Goes(t, "unlinking")
    /\ UNCHANGED <<tables, now, form, todo, served, histvars>>

\* History: links go that the check of a measurement's run has seen.
Unlinked ==
    /\ dirty' = [u \in Threads |-> dirty[u] \/ (At(u, "checked") /\ Of(u, "link"))]
    /\ UNCHANGED raced

\* Fails if a measurement or a new link refers to the run.
DeleteRow(t) ==
    /\ At(t, "unlinking")
    /\ LET r == form[t].run IN
       /\ RunFree(t, r) /\ Free(t, LinkedMmts(r) \cup LinksOf(r))
       /\ IF LinkedMmts(r) = {} /\ LinksOf(r) \subseteq locked[t]
          THEN /\ runs' = [runs EXCEPT ![r] = None]
               /\ links' = links \ LinksOf(r)
               /\ Unlinked /\ Ends(t, "ok")
          ELSE Ends(t, "refused") /\ UNCHANGED <<runs, links, histvars>>
    /\ UNCHANGED <<duts, nextDut, clients, nextRun, msmtRun, now>>

MmtsOf(c) == {m \in Msmts : OwnerOf[m] = c /\ msmtRun[m] # Absent}
PartsOf(c) == {l \in links : l[2] = c}
DeviceRows(c) == MmtsOf(c) \cup PartsOf(c)
\* What a transaction that deletes these rows leaves.
Without(rows) ==
    /\ links' = links \ rows
    /\ msmtRun' = [m \in Msmts |-> IF m \in rows THEN Absent ELSE msmtRun[m]]

\* Faulty variant: each statement is committed.
EmptyDeviceNow(t) ==
    /\ At(t, "sent") /\ Of(t, "device")
    /\ \E c \in form[t].clients : Free(t, MmtsOf(c)) /\ Without(MmtsOf(c))
    /\ Steps(t, "emptied")
    /\ UNCHANGED <<duts, nextDut, clients, runs, nextRun, now, histvars>>

\* deleteDevice deletes the client's measurements with their samples first, and
\* keeps them locked while it waits for the links.
EmptyDevice(t) ==
    /\ At(t, "sent") /\ Of(t, "device")
    /\ \E c \in form[t].clients :
          /\ Free(t, MmtsOf(c))
          /\ locked' = [locked EXCEPT ![t] = MmtsOf(c)]
    /\ Goes(t, "emptied")
    /\ UNCHANGED <<tables, now, form, todo, served, histvars>>

PurgeDevice(t) ==
    /\ At(t, "emptied")
    /\ \E c \in form[t].clients :
          /\ Free(t, PartsOf(c))
          /\ locked' = [locked EXCEPT ![t] = @ \cup PartsOf(c)]
    /\ Goes(t, "purging")
    /\ UNCHANGED <<tables, now, form, todo, served, histvars>>

\* Fails if rows that refer to the client have come meanwhile.
DeleteDevice(t) ==
    /\ At(t, "purging")
    /\ \E c \in form[t].clients :
          IF DeviceRows(c) \subseteq locked[t]
          THEN /\ Without(locked[t])
               /\ clients' = clients \ {c}
               /\ Unlinked /\ Ends(t, "ok")
          ELSE Ends(t, "error") /\ UNCHANGED <<clients, links, msmtRun, histvars>>
    /\ UNCHANGED <<duts, nextDut, runs, nextRun, now>>

DeleteMeasurement(t) ==
    /\ At(t, "sent") /\ Of(t, "drop")
    /\ Free(t, {form[t].msmt})
    /\ Ends(t, IF msmtRun[form[t].msmt] = Absent THEN "error" ELSE "ok")
    /\ Without({form[t].msmt})
    /\ UNCHANGED <<duts, nextDut, clients, runs, nextRun, now, histvars>>

-----------------------------------------------------------------------------
(* Linking measurements to runs.                                            *)

\* Faulty variant: the run only has to exist.
CheckRunOnly(t) ==
    /\ At(t, "sent") /\ Of(t, "link")
    /\ LET m == form[t].msmt  r == form[t].run IN
       IF msmtRun[m] # Absent /\ (r # None => Exists(r))
       THEN Steps(t, "checked") ELSE Ends(t, "refused")
    /\ dirty' = [dirty EXCEPT ![t] = FALSE]
    /\ UNCHANGED <<tables, now, raced>>

\* updateMeasurement: the run has to be one of the measurement's client.
CheckLink(t) ==
    /\ At(t, "sent") /\ Of(t, "link")
    /\ LET m == form[t].msmt  r == form[t].run IN
       IF msmtRun[m] # Absent /\ (r # None => <<r, OwnerOf[m]>> \in links)
       THEN Steps(t, "checked") ELSE Ends(t, "refused")
    /\ dirty' = [dirty EXCEPT ![t] = FALSE]
    /\ UNCHANGED <<tables, now, raced>>

SetRun(t) ==
    /\ At(t, "checked") /\ Of(t, "link")
    /\ LET m == form[t].msmt  r == form[t].run IN
       /\ Free(t, {m})
       /\ IF msmtRun[m] # Absent /\ r # None /\ ~Exists(r)
          THEN Ends(t, "error") /\ UNCHANGED msmtRun
          ELSE /\ Ends(t, "ok")
               /\ msmtRun' = IF msmtRun[m] = Absent THEN msmtRun
                             ELSE [msmtRun EXCEPT ![m] = r]
    /\ UNCHANGED <<duts, nextDut, clients, runs, nextRun, links, now, histvars>>

\* Runs of the client in whose period the instant lies.
Covering(c, ts) ==
    {r \in RunIds : /\ Exists(r) /\ <<r, c>> \in links
                    /\ runs[r].start <= ts
                    /\ runs[r].stop # None => ts <= runs[r].stop}

\* putMeasurement meets a new measurement; it is linked if there is one run to
\* choose only.
NewMeasurement(m) ==
    /\ msmtRun[m] = Absent
    /\ clients' = clients \cup {OwnerOf[m]}
    /\ \E ts \in 0..now :
          LET fitting == Covering(OwnerOf[m], ts) IN
          msmtRun' = [msmtRun EXCEPT ![m] =
                         IF Cardinality(fitting) = 1 THEN CHOOSE r \in fitting : TRUE ELSE None]
    /\ UNCHANGED <<duts, nextDut, runs, nextRun, links, now, reqvars, histvars>>

\* registerClient brings a client back.
Register(c) ==
    /\ c \notin clients
    /\ clients' = clients \cup {c}
    /\ UNCHANGED <<duts, nextDut, runs, nextRun, links, msmtRun, now, reqvars, histvars>>

-----------------------------------------------------------------------------
(* Devices under test.                                                      *)

\* addNewDut hands an address to the driver as an object, which it cannot adapt.
AddNewDut(t) ==
    /\ At(t, "sent") /\ Of(t, "addDut")
    /\ CASE form[t].entry = "invalid" -> Ends(t, "refused") /\ UNCHANGED <<duts, nextDut>>
         [] form[t].entry = "address" -> Ends(t, "error") /\ UNCHANGED <<duts, nextDut>>
         [] OTHER -> /\ duts' = [duts EXCEPT ![nextDut] = "plain"]
                     /\ nextDut' = nextDut + 1
                     /\ Ends(t, "ok")
    /\ UNCHANGED <<clients, runs, nextRun, links, msmtRun, now, histvars>>

\* Faulty variant: the addresses are not validated.
CheckDutExists(t) ==
    /\ At(t, "sent") /\ form[t].kind \in {"updateDut", "deleteDut"}
    /\ IF Stored(form[t].dut) THEN Steps(t, "checked") ELSE Ends(t, "refused")
    /\ UNCHANGED <<tables, now, histvars>>

CheckDut(t) ==
    /\ At(t, "sent") /\ form[t].kind \in {"updateDut", "deleteDut"}
    /\ IF Stored(form[t].dut) /\ form[t].entry # "invalid"
       THEN Steps(t, "checked") ELSE Ends(t, "refused")
    /\ UNCHANGED <<tables, now, histvars>>

UpdateDut(t) ==
    /\ At(t, "checked") /\ Of(t, "updateDut")
    /\ duts' = IF Stored(form[t].dut) THEN [duts EXCEPT ![form[t].dut] = form[t].entry]
               ELSE duts
    /\ Ends(t, "ok")
    /\ UNCHANGED <<nextDut, clients, runs, nextRun, links, msmtRun, now, histvars>>

\* Waits for a transaction that lets a run refer to it; fails if one does.
DeleteDut(t) ==
    /\ At(t, "checked") /\ Of(t, "deleteDut")
    /\ LET d == form[t].dut IN
       /\ \A u \in Threads : ~(At(u, "updating") /\ form[u].dut = d)
       /\ IF \E r \in RunIds : Exists(r) /\ runs[r].dut = d
          THEN Ends(t, "refused") /\ UNCHANGED duts
          ELSE Ends(t, "ok") /\ duts' = [duts EXCEPT ![d] = Absent]
    /\ UNCHANGED <<nextDut, clients, runs, nextRun, links, msmtRun, now, histvars>>

-----------------------------------------------------------------------------
(* Waiting.                                                                 *)

\* The row of runs and the rows of other tables that a request must lock next.
RunWanted(t) ==
    IF \/ At(t, "checked") /\ Of(t, "update")
       \/ At(t, "finishing") /\ todo[t] = {}
       \/ At(t, "unlinking")
    THEN form[t].run ELSE None
RowsWanted(t) ==
    CASE At(t, "updating") -> LinksOf(form[t].run)
      [] At(t, "checked") /\ Of(t, "delete") -> LinksOf(form[t].run)
      [] At(t, "unlinking") -> LinkedMmts(form[t].run) \cup LinksOf(form[t].run)
      [] At(t, "sent") /\ Of(t, "device") -> UNION {MmtsOf(c) : c \in form[t].clients}
      [] At(t, "emptied") -> UNION {PartsOf(c) : c \in form[t].clients}
      [] \/ At(t, "sent") /\ Of(t, "drop")
         \/ At(t, "checked") /\ Of(t, "link") -> {form[t].msmt}
      [] OTHER -> {}

WaitsFor(t, u) ==
    /\ t # u
    /\ \/ At(u, "updating") /\ RunWanted(t) # None /\ form[u].run = RunWanted(t)
       \/ At(u, "updating") /\ At(t, "checked") /\ Of(t, "deleteDut")
          /\ form[u].dut = form[t].dut
       \/ locked[u] \cap RowsWanted(t) # {}

\* Requests of which each waits for another one of them.
Stuck(S) == S # {} /\ \A t \in S : \E u \in S : WaitsFor(t, u)
\* No fewer of them would do.
Circle(S) == Stuck(S) /\ \A R \in SUBSET S : Stuck(R) => R = S

\* PostgreSQL ends one of the transactions that wait for each other in a circle.
BreakDeadlock(t) ==
    /\ \E S \in SUBSET Threads : t \in S /\ Circle(S)
    /\ Ends(t, "error")
    /\ UNCHANGED <<tables, now, histvars>>

Tick ==
    /\ now < MaxTime /\ now' = now + 1
    /\ UNCHANGED <<tables, reqvars, histvars>>

-----------------------------------------------------------------------------

\* A step of a request that has been sent.
Serve(t) ==
    \/ ValidateRun(t) \/ CheckConflicts(t) \/ InsertRun(t) \/ InsertLinks(t)
    \/ UpdateRow(t) \/ ReplaceLinks(t)
    \/ ReadStop(t) \/ ReadClients(t) \/ StopClient(t) \/ SetStop(t)
    \/ CheckDeletable(t) \/ DeleteLinks(t) \/ DeleteRow(t)
    \/ EmptyDevice(t) \/ PurgeDevice(t) \/ DeleteDevice(t) \/ DeleteMeasurement(t)
    \/ CheckLink(t) \/ SetRun(t)
    \/ AddNewDut(t) \/ CheckDut(t) \/ UpdateDut(t) \/ DeleteDut(t)
    \/ BreakDeadlock(t)

Next ==
    \/ \E t \in Threads : Send(t) \/ Serve(t)
    \/ \E m \in Msmts : NewMeasurement(m)
    \/ \E c \in Clients : Register(c)
    \/ Tick

Spec == Init /\ [][Next]_vars

\* The web server goes on with every request.
FairSpec == Spec /\ \A t \in Threads : WF_vars(Serve(t))

-----------------------------------------------------------------------------
(* Properties.                                                              *)

OpenOfOneClient(r, s) ==
    /\ Exists(r) /\ Exists(s) /\ r # s
    /\ runs[r].stop = None /\ runs[s].stop = None
    /\ ClientsOf(r) \cap ClientsOf(s) # {}

\* "we must ensure that no other run with unfinished stop_ts exists": no client
\* is in two unfinished runs.  Does not hold: addNewRun and updateRun look for
\* such runs in one transaction and save in another.
OpenRunsDisjoint == \A r, s \in RunIds : ~OpenOfOneClient(r, s)

\* The check is enough for requests that do not overlap: of two unfinished runs of
\* one client, one was saved by a request that others overtook between its check
\* and its commit.
OpenRunsDisjointUnlessRaced ==
    \A r, s \in RunIds : OpenOfOneClient(r, s) => r \in raced \/ s \in raced

PutIntoOwnRun ==
    \A m \in Msmts : msmtRun'[m] \in RunIds \ {msmtRun[m]} =>
        \/ <<msmtRun'[m], OwnerOf[m]>> \in links
        \/ \E t \in Threads : At(t, "checked") /\ form[t].msmt = m /\ dirty[t]

\* A measurement is put into a run of its own client, unless the client left the
\* run between the check of updateMeasurement and its UPDATE.
RunsOfTheirClient == [][PutIntoOwnRun]_vars

\* What is stored refers to what is stored: deletions in several statements leave
\* nothing behind.
ReferencesHold ==
    /\ \A l \in links : Exists(l[1]) /\ l[2] \in clients
    /\ \A m \in Msmts : /\ msmtRun[m] \in RunIds => Exists(msmtRun[m])
                        /\ msmtRun[m] # Absent => OwnerOf[m] \in clients
    /\ \A r \in RunIds : Exists(r) => Stored(runs[r].dut)

WholeRequest ==
    \A t \in Threads : pc'[t] # pc[t] \/ locked'[t] # locked[t] =>
        pc'[t] \in {"ok", "inserted"} \/ UNCHANGED tables

\* A request changes the tables in the step it succeeds with, or not at all: nobody
\* sees a half of it, and one that fails, is refused or is ended by a deadlock
\* leaves nothing.  The exception is the new run, which addNewRun commits before
\* its links.
AllOrNothing == [][WholeRequest]_vars

\* Every request ends, also when devices do not answer and when transactions wait
\* for each other.
RequestsEnd == \A t \in Threads : At(t, "sent") ~> pc[t] \in Ended
=============================================================================
