-------------------------- MODULE RunManagementProofs --------------------------
(***************************************************************************)
(* RunManagement, for any number of threads, requests, clients, runs and    *)
(* measurements: what is stored refers to what is stored, two unfinished    *)
(* runs of one client are the work of overlapping requests, a measurement   *)
(* gets a run of its client, and which requests can wait for each other.    *)
(***************************************************************************)
EXTENDS RunManagement, FiniteSetTheorems, TLAPS

-----------------------------------------------------------------------------
(* The inductive invariant.                                                 *)

Places == {"idle", "sent", "valid", "checked", "inserted", "updating", "reading", "finishing",
           "unlinking", "emptied", "purging"} \cup Ended
Serving(t) == pc[t] \notin {"idle"} \cup Ended

\* There are ids for all the runs that are being added.
RoomHolds ==
    nextRun \in Nat \ {0} /\ nextRun + Cardinality(Pending("add")) <= MaxRuns + 1

\* Ids are given in ascending order and not again.
RunsNumbered == \A r \in RunIds : Exists(r) => r < nextRun

\* What a form of each kind comes with.
FormFits(f) ==
    /\ f \in Forms
    /\ f.kind \in {"update", "finish", "delete"} => f.run \in RunIds /\ f.run < nextRun
    /\ f.kind \in {"add", "update", "updateDut", "deleteDut"} => f.dut \in DutIds
    /\ f.kind \in {"link", "drop"} => f.msmt \in Msmts
    /\ f.kind = "link" => f.run \in RunIds \cup {None}

\* A request has passed its checks to get where it is.
PlaceFits(t) ==
    /\ pc[t] \in {"sent", "valid", "checked"} => (Of(t, "add") => form[t].run = None)
    /\ At(t, "valid") => form[t].kind \in {"add", "update"}
    /\ At(t, "checked") =>
          /\ form[t].kind \in {"add", "update", "delete", "link", "updateDut", "deleteDut"}
          /\ form[t].kind = "updateDut" => form[t].entry # "invalid"
    /\ At(t, "inserted") => /\ form[t].kind = "add"
                            /\ form[t].run \in RunIds /\ form[t].run < nextRun
    /\ At(t, "updating") => form[t].kind = "update"
    /\ pc[t] \in {"valid", "checked", "inserted", "updating"} =>
          (form[t].kind \in {"add", "update"} => form[t].start \in Times)
    /\ pc[t] \in {"reading", "finishing"} => form[t].kind = "finish" /\ form[t].stop \in Times
    /\ At(t, "unlinking") => form[t].kind = "delete"
    /\ pc[t] \in {"emptied", "purging"} => form[t].kind = "device"

\* The row that updateRun has locked may be written: its device under test
\* cannot be deleted.
RowHeld(t) == At(t, "updating") /\ Exists(form[t].run) => RowAllowed(form[t])

\* What a request has checked still holds if nothing has interfered.
Checking(t) == pc[t] \in {"checked", "inserted", "updating"} /\ ~dirty[t]
ConflictsSeen(t) ==
    /\ Checking(t) /\ form[t].kind \in {"add", "update"} => Conflicts(form[t]) = {}
    /\ Checking(t) /\ At(t, "inserted") => LinksOf(form[t].run) = {}
LinkSeen(t) ==
    Checking(t) /\ Of(t, "link") => form[t].run = None \/ <<form[t].run, OwnerOf[form[t].msmt]>> \in links

RequestFits(t) ==
    /\ Serving(t) => FormFits(form[t])
    /\ PlaceFits(t) /\ RowHeld(t) /\ ConflictsSeen(t) /\ LinkSeen(t)

IInv ==
    /\ TypeOK /\ RoomHolds /\ RunsNumbered
    /\ ReferencesHold /\ OpenRunsDisjointUnlessRaced
    /\ \A t \in Threads : RequestFits(t)

-----------------------------------------------------------------------------
(* A request goes on.                                                       *)

LEMMA Moves ==
  ASSUME TypeOK, NEW t \in Threads, NEW place \in Places, Goes(t, place)
  PROVE  /\ pc' \in [Threads -> Places] /\ pc'[t] = place
         /\ \A u \in Threads \ {t} : pc'[u] = pc[u]
  BY DEF TypeOK, Goes, Places

LEMMA PendingTypes == IsFiniteSet(Pending("add")) /\ Cardinality(Pending("add")) \in Nat
<1>1. IsFiniteSet(Pending("add"))
  BY ThreadsAssumption, FS_Subset DEF Pending
<1> QED
  BY <1>1, FS_CardinalityType

LEMMA RoomKept ==
  ASSUME RoomHolds, nextRun' = nextRun, Pending("add")' \subseteq Pending("add")
  PROVE  RoomHolds'
<1>1. Cardinality(Pending("add")') <= Cardinality(Pending("add")) /\ Cardinality(Pending("add")') \in Nat
  BY PendingTypes, FS_Subset, FS_CardinalityType
<1> QED
  BY <1>1, PendingTypes, BoundsAssumption DEF RoomHolds

\* A step that changes nothing but one request.
LEMMA Quiet ==
  ASSUME IInv, NEW t \in Threads, UNCHANGED <<tables, now, served, raced>>,
         pc' \in [Threads -> Places], form' \in [Threads -> Forms \cup {None}],
         locked' \in [Threads -> SUBSET (LinkRows \cup Msmts)],
         todo' \in [Threads -> SUBSET Clients], dirty' \in [Threads -> BOOLEAN],
         \A u \in Threads \ {t} :
            pc'[u] = pc[u] /\ form'[u] = form[u] /\ dirty'[u] = dirty[u],
         t \in Pending("add")' => t \in Pending("add"),
         RequestFits(t)'
  PROVE  IInv'
<1> USE DEF tables
<1>1. TypeOK'
  BY DEF IInv, TypeOK, Places
<1>2. RoomHolds'
  <2>1. Pending("add")' \subseteq Pending("add")
    BY DEF Pending
  <2> QED
    BY <2>1, RoomKept DEF IInv
<1>3. RunsNumbered' /\ ReferencesHold' /\ OpenRunsDisjointUnlessRaced'
  BY DEF IInv, RunsNumbered, ReferencesHold, OpenRunsDisjointUnlessRaced, OpenOfOneClient,
     Exists, ClientsOf, Stored
<1>4. ASSUME NEW u \in Threads \ {t} PROVE RequestFits(u)'
  <2>1. RequestFits(u) /\ pc'[u] = pc[u] /\ form'[u] = form[u] /\ dirty'[u] = dirty[u]
    BY DEF IInv
  <2>2. Serving(u)' => FormFits(form[u])'
    BY <2>1 DEF RequestFits, Serving, FormFits
  <2>3. PlaceFits(u)' /\ RowHeld(u)'
    BY <2>1 DEF RequestFits, PlaceFits, RowHeld, At, Of, Exists, RowAllowed, Stored
  <2>4. ConflictsSeen(u)' /\ LinkSeen(u)'
    BY <2>1 DEF RequestFits, ConflictsSeen, LinkSeen, Checking, Conflicts, LinksOf, ClientsOf,
       Exists, At, Of
  <2> QED
    BY <2>2, <2>3, <2>4 DEF RequestFits
<1> QED
  BY <1>1, <1>2, <1>3, <1>4 DEF IInv

\* A request that has ended asks for nothing.
LEMMA EndedFits == ASSUME NEW t \in Threads, pc'[t] \in Ended PROVE RequestFits(t)'
  BY DEF RequestFits, Serving, PlaceFits, RowHeld, ConflictsSeen, LinkSeen, Checking, At, Ended

LEMMA EndsMoves ==
  ASSUME TypeOK, NEW t \in Threads, NEW place \in Ended, Ends(t, place)
  PROVE  /\ pc' \in [Threads -> Places] /\ pc'[t] = place
         /\ \A u \in Threads \ {t} : pc'[u] = pc[u]
         /\ locked' \in [Threads -> SUBSET (LinkRows \cup Msmts)]
         /\ todo' \in [Threads -> SUBSET Clients]
         /\ form' = form /\ served' = served
         /\ Pending("add")' = Pending("add") \ {t}
         /\ RequestFits(t)'
<1>1. /\ pc' \in [Threads -> Places] /\ pc'[t] = place
      /\ \A u \in Threads \ {t} : pc'[u] = pc[u]
  BY Moves DEF Ends, Places
<1>2. form' = form
  BY DEF Ends
<1>3. Pending("add")' = Pending("add") \ {t}
  BY <1>1, <1>2 DEF Pending, Ended
<1>4. RequestFits(t)'
  BY <1>1, EndedFits
<1> QED
  BY <1>1, <1>2, <1>3, <1>4 DEF Ends, TypeOK

LEMMA QuietEnd ==
  ASSUME IInv, NEW t \in Threads, NEW place \in Ended, Ends(t, place),
         UNCHANGED <<tables, now, raced>>, dirty' \in [Threads -> BOOLEAN],
         \A u \in Threads \ {t} : dirty'[u] = dirty[u]
  PROVE  IInv'
<1>1. TypeOK
  BY DEF IInv
<1> QED
  BY <1>1, EndsMoves, Quiet DEF TypeOK

LEMMA QuietStep ==
  ASSUME IInv, NEW t \in Threads, NEW place \in Places, Steps(t, place),
         UNCHANGED <<tables, now, raced>>, dirty' \in [Threads -> BOOLEAN],
         \A u \in Threads \ {t} : dirty'[u] = dirty[u],
         place \in {"sent", "valid", "checked"} => pc[t] \in {"sent", "valid", "checked"},
         RequestFits(t)'
  PROVE  IInv'
<1>1. TypeOK
  BY DEF IInv
<1>2. /\ pc' \in [Threads -> Places] /\ pc'[t] = place
      /\ \A u \in Threads \ {t} : pc'[u] = pc[u]
  BY <1>1, Moves DEF Steps
<1>3. t \in Pending("add")' => t \in Pending("add")
  BY <1>2 DEF Pending, Steps
<1> QED
  BY <1>1, <1>2, <1>3, Quiet DEF TypeOK, Steps

\* What a request in the middle of it is.
LEMMA ServedFits ==
  ASSUME IInv, NEW t \in Threads, pc[t] \notin {"idle"} \cup Ended
  PROVE  FormFits(form[t]) /\ RequestFits(t)
  BY DEF IInv, RequestFits, Serving

LEMMA NothingSeen ==
  ASSUME NEW t \in Threads,
         pc'[t] \in {"sent", "valid", "reading", "finishing", "unlinking", "emptied", "purging"}
  PROVE  RowHeld(t)' /\ ConflictsSeen(t)' /\ LinkSeen(t)'
  BY DEF RowHeld, ConflictsSeen, LinkSeen, Checking, At

-----------------------------------------------------------------------------
(* The steps that only read.                                                *)

LEMMA ValidateRunIInv == ASSUME IInv, NEW t \in Threads, ValidateRun(t) PROVE IInv'
<1> DEFINE f == form[t]
<1>0. TypeOK /\ FormFits(f) /\ dirty' = dirty /\ raced' = raced /\ UNCHANGED <<tables, now>>
  BY ServedFits DEF ValidateRun, At, IInv, histvars, Ended
<1>1. CASE Ends(t, "refused")
  BY <1>0, <1>1, QuietEnd DEF Ended, TypeOK
<1>2. CASE /\ Steps(t, "valid")
           /\ f.start # None /\ (f.stop # None => f.start <= f.stop)
  <2>1. f.start \in Times
    BY <1>0, <1>2 DEF FormFits, Forms
  <2>2. pc'[t] = "valid" /\ form' = form /\ nextRun' = nextRun
    BY <1>0, <1>2, Moves DEF Steps, Places, tables
  <2>3. FormFits(form[t])' /\ PlaceFits(t)'
    BY <1>0, <2>1, <2>2, ServedFits DEF RequestFits, FormFits, PlaceFits, At, Of, ValidateRun, Ended
  <2>4. RequestFits(t)'
    BY <2>2, <2>3, NothingSeen DEF RequestFits
  <2> QED
    BY <1>0, <1>2, <2>4, QuietStep DEF Places, TypeOK, ValidateRun, At
<1> QED
  BY <1>1, <1>2 DEF ValidateRun

LEMMA CheckConflictsIInv == ASSUME IInv, NEW t \in Threads, CheckConflicts(t) PROVE IInv'
<1> DEFINE f == form[t]
<1>0. /\ TypeOK /\ RequestFits(t) /\ FormFits(f) /\ raced' = raced /\ UNCHANGED <<tables, now>>
      /\ dirty' \in [Threads -> BOOLEAN] /\ \A u \in Threads \ {t} : dirty'[u] = dirty[u]
  BY ServedFits DEF CheckConflicts, At, IInv, TypeOK, Ended
<1>1. CASE Ends(t, "refused")
  BY <1>0, <1>1, QuietEnd DEF Ended
<1>2. CASE Steps(t, "checked") /\ Conflicts(f) = {}
  <2>1. pc'[t] = "checked" /\ form' = form
    BY <1>0, <1>2, Moves DEF Steps, Places
  <2>2. Conflicts(f)' = {}
    BY <1>0, <1>2, <2>1 DEF Conflicts, Exists, ClientsOf, tables
  <2>3. RequestFits(t)'
    BY <1>0, <2>1, <2>2 DEF RequestFits, FormFits, PlaceFits, RowHeld, ConflictsSeen, LinkSeen,
       At, Of, CheckConflicts, tables, Serving
  <2> QED
    BY <1>0, <1>2, <2>3, QuietStep DEF Places, CheckConflicts, At
<1> QED
  BY <1>1, <1>2 DEF CheckConflicts

LEMMA UpdateRowIInv == ASSUME IInv, NEW t \in Threads, UpdateRow(t) PROVE IInv'
<1> DEFINE f == form[t]
<1>0. /\ TypeOK /\ RequestFits(t) /\ FormFits(f) /\ dirty' = dirty /\ raced' = raced
      /\ UNCHANGED <<tables, now>>
  BY ServedFits DEF UpdateRow, At, IInv, TypeOK, Ended, histvars
<1>1. CASE Ends(t, "error")
  BY <1>0, <1>1, QuietEnd DEF Ended, TypeOK
<1>2. CASE Steps(t, "updating") /\ (Exists(f.run) => RowAllowed(f))
  <2>1. pc'[t] = "updating" /\ form' = form
    BY <1>0, <1>2, Moves DEF Steps, Places
  <2>2. FormFits(form[t])' /\ PlaceFits(t)'
    BY <1>0, <2>1 DEF FormFits, RequestFits, PlaceFits, UpdateRow, At, Of, tables
  <2>3. RowHeld(t)'
    BY <1>0, <1>2, <2>1 DEF RowHeld, Exists, RowAllowed, Stored, tables
  <2>4. ConflictsSeen(t)' /\ LinkSeen(t)'
    BY <1>0, <2>1 DEF RequestFits, ConflictsSeen, LinkSeen, Checking, UpdateRow, Conflicts,
       LinksOf, ClientsOf, Exists, At, Of, tables
  <2>5. RequestFits(t)'
    BY <2>2, <2>3, <2>4 DEF RequestFits
  <2> QED
    BY <1>0, <1>2, <2>5, QuietStep DEF Places, TypeOK
<1> QED
  BY <1>1, <1>2 DEF UpdateRow

LEMMA ReadStopIInv == ASSUME IInv, NEW t \in Threads, ReadStop(t) PROVE IInv'
<1> DEFINE f == form[t]
<1>0. /\ TypeOK /\ RequestFits(t) /\ FormFits(f) /\ dirty' = dirty /\ raced' = raced
      /\ UNCHANGED <<tables, now>>
  BY ServedFits DEF ReadStop, At, IInv, TypeOK, Ended, histvars
<1>1. CASE Ends(t, IF Exists(f.run) THEN "error" ELSE "refused")
  BY <1>0, <1>1, QuietEnd DEF Ended, TypeOK
<1>2. CASE /\ form' = [form EXCEPT ![t].stop = now]
           /\ Goes(t, "reading")
           /\ UNCHANGED <<locked, todo, served>>
  <2>1. /\ pc' \in [Threads -> Places] /\ pc'[t] = "reading"
        /\ \A u \in Threads \ {t} : pc'[u] = pc[u]
    BY <1>0, <1>2, Moves DEF Places
  <2>2. form'[t] = [f EXCEPT !.stop = now] /\ \A u \in Threads \ {t} : form'[u] = form[u]
    BY <1>0, <1>2 DEF TypeOK
  <2>3. form'[t] \in Forms
    BY <1>0, <2>2 DEF FormFits, Forms, TypeOK
  <2>4. form' \in [Threads -> Forms \cup {None}]
    BY <1>0, <1>2, <2>2, <2>3 DEF TypeOK
  <2>5. FormFits(form[t])' /\ PlaceFits(t)'
    BY <1>0, <2>1, <2>2, <2>3 DEF FormFits, Forms, PlaceFits, ReadStop, At, Of, tables, TypeOK
  <2>6. RequestFits(t)'
    BY <2>1, <2>5, NothingSeen DEF RequestFits
  <2>7. t \notin Pending("add")'
    BY <2>1 DEF Pending
  <2> QED
    BY <1>0, <1>2, <2>1, <2>2, <2>4, <2>6, <2>7, Quiet DEF TypeOK
<1> QED
  BY <1>1, <1>2 DEF ReadStop

LEMMA ReadClientsIInv == ASSUME IInv, NEW t \in Threads, ReadClients(t) PROVE IInv'
<1>0. /\ TypeOK /\ RequestFits(t) /\ FormFits(form[t]) /\ UNCHANGED <<tables, now, dirty, raced>>
  BY ServedFits DEF ReadClients, At, IInv, TypeOK, Ended, histvars
<1>1. /\ pc' \in [Threads -> Places] /\ pc'[t] = "finishing"
      /\ \A u \in Threads \ {t} : pc'[u] = pc[u]
  BY <1>0, Moves DEF Places, ReadClients
<1>2. form' = form /\ todo' \in [Threads -> SUBSET Clients]
  BY <1>0 DEF ReadClients, TypeOK, ClientsOf
<1>3. FormFits(form[t])' /\ PlaceFits(t)'
  BY <1>0, <1>1, <1>2 DEF RequestFits, FormFits, PlaceFits, ReadClients, At, tables
<1>4. RequestFits(t)'
  BY <1>1, <1>3, NothingSeen DEF RequestFits
<1>5. t \notin Pending("add")'
  BY <1>1 DEF Pending
<1> QED
  BY <1>0, <1>1, <1>2, <1>4, <1>5, Quiet DEF TypeOK, ReadClients

LEMMA StopClientIInv == ASSUME IInv, NEW t \in Threads, StopClient(t) PROVE IInv'
<1>0. /\ TypeOK /\ RequestFits(t) /\ FormFits(form[t]) /\ UNCHANGED <<tables, now, dirty, raced>>
  BY ServedFits DEF StopClient, At, IInv, TypeOK, Ended, histvars
<1>1. pc' = pc /\ form' = form /\ todo' \in [Threads -> SUBSET Clients]
  BY <1>0 DEF StopClient, TypeOK
<1>2. FormFits(form[t])' /\ PlaceFits(t)'
  BY <1>0, <1>1 DEF RequestFits, FormFits, PlaceFits, At, Of, tables
<1>3. RequestFits(t)'
  BY <1>1, <1>2, NothingSeen DEF RequestFits, StopClient, At
<1>4. t \notin Pending("add")'
  BY <1>1 DEF Pending, StopClient, At
<1> QED
  BY <1>0, <1>1, <1>3, <1>4, Quiet DEF TypeOK, StopClient, Places, Ended

LEMMA CheckDeletableIInv == ASSUME IInv, NEW t \in Threads, CheckDeletable(t) PROVE IInv'
<1> DEFINE f == form[t]
<1>0. /\ TypeOK /\ RequestFits(t) /\ FormFits(f) /\ UNCHANGED <<tables, now, dirty, raced>>
  BY ServedFits DEF CheckDeletable, At, IInv, TypeOK, Ended, histvars
<1>1. CASE Ends(t, "refused")
  BY <1>0, <1>1, QuietEnd DEF Ended, TypeOK
<1>2. CASE Steps(t, "checked")
  <2>1. pc'[t] = "checked" /\ form' = form
    BY <1>0, <1>2, Moves DEF Steps, Places
  <2>2. FormFits(form[t])' /\ PlaceFits(t)' /\ f.kind = "delete"
    BY <1>0, <2>1 DEF FormFits, PlaceFits, CheckDeletable, At, Of, tables
  <2>3. RequestFits(t)'
    BY <2>1, <2>2 DEF RequestFits, RowHeld, ConflictsSeen, LinkSeen, At, Of
  <2> QED
    BY <1>0, <1>2, <2>3, QuietStep DEF Places, TypeOK, CheckDeletable, At
<1> QED
  BY <1>1, <1>2 DEF CheckDeletable

LEMMA DeleteLinksIInv == ASSUME IInv, NEW t \in Threads, DeleteLinks(t) PROVE IInv'
<1>0. /\ TypeOK /\ RequestFits(t) /\ FormFits(form[t]) /\ UNCHANGED <<tables, now, dirty, raced>>
  BY ServedFits DEF DeleteLinks, At, IInv, TypeOK, Ended, histvars
<1>1. /\ pc' \in [Threads -> Places] /\ pc'[t] = "unlinking"
      /\ \A u \in Threads \ {t} : pc'[u] = pc[u]
  BY <1>0, Moves DEF Places, DeleteLinks
<1>2. form' = form /\ locked' \in [Threads -> SUBSET (LinkRows \cup Msmts)]
  BY <1>0 DEF DeleteLinks, TypeOK, LinksOf
<1>3. FormFits(form[t])' /\ PlaceFits(t)'
  BY <1>0, <1>1, <1>2 DEF RequestFits, FormFits, PlaceFits, DeleteLinks, At, Of, tables
<1>4. RequestFits(t)'
  BY <1>1, <1>3, NothingSeen DEF RequestFits
<1>5. t \notin Pending("add")'
  BY <1>1 DEF Pending
<1> QED
  BY <1>0, <1>1, <1>2, <1>4, <1>5, Quiet DEF TypeOK, DeleteLinks

LEMMA EmptyDeviceIInv == ASSUME IInv, NEW t \in Threads, EmptyDevice(t) PROVE IInv'
<1>0. /\ TypeOK /\ RequestFits(t) /\ FormFits(form[t]) /\ UNCHANGED <<tables, now, dirty, raced>>
  BY ServedFits DEF EmptyDevice, At, IInv, TypeOK, Ended, histvars
<1>1. /\ pc' \in [Threads -> Places] /\ pc'[t] = "emptied"
      /\ \A u \in Threads \ {t} : pc'[u] = pc[u]
  BY <1>0, Moves DEF Places, EmptyDevice
<1>2. form' = form /\ locked' \in [Threads -> SUBSET (LinkRows \cup Msmts)]
  BY <1>0 DEF EmptyDevice, TypeOK, MmtsOf
<1>3. FormFits(form[t])' /\ PlaceFits(t)'
  BY <1>0, <1>1, <1>2 DEF RequestFits, FormFits, PlaceFits, EmptyDevice, At, Of, tables
<1>4. RequestFits(t)'
  BY <1>1, <1>3, NothingSeen DEF RequestFits
<1>5. t \notin Pending("add")'
  BY <1>1 DEF Pending
<1> QED
  BY <1>0, <1>1, <1>2, <1>4, <1>5, Quiet DEF TypeOK, EmptyDevice

LEMMA PurgeDeviceIInv == ASSUME IInv, NEW t \in Threads, PurgeDevice(t) PROVE IInv'
<1>0. /\ TypeOK /\ RequestFits(t) /\ FormFits(form[t]) /\ UNCHANGED <<tables, now, dirty, raced>>
  BY ServedFits DEF PurgeDevice, At, IInv, TypeOK, Ended, histvars
<1>1. /\ pc' \in [Threads -> Places] /\ pc'[t] = "purging"
      /\ \A u \in Threads \ {t} : pc'[u] = pc[u]
  BY <1>0, Moves DEF Places, PurgeDevice
<1>2. form' = form /\ locked' \in [Threads -> SUBSET (LinkRows \cup Msmts)]
  BY <1>0 DEF PurgeDevice, TypeOK, PartsOf
<1>3. FormFits(form[t])' /\ PlaceFits(t)'
  BY <1>0, <1>1, <1>2 DEF RequestFits, FormFits, PlaceFits, PurgeDevice, At, Of, tables
<1>4. RequestFits(t)'
  BY <1>1, <1>3, NothingSeen DEF RequestFits
<1>5. t \notin Pending("add")'
  BY <1>1 DEF Pending
<1> QED
  BY <1>0, <1>1, <1>2, <1>4, <1>5, Quiet DEF TypeOK, PurgeDevice

LEMMA CheckDutIInv == ASSUME IInv, NEW t \in Threads, CheckDut(t) PROVE IInv'
<1> DEFINE f == form[t]
<1>0. /\ TypeOK /\ RequestFits(t) /\ FormFits(f) /\ UNCHANGED <<tables, now, dirty, raced>>
  BY ServedFits DEF CheckDut, At, IInv, TypeOK, Ended, histvars
<1>1. CASE Ends(t, "refused")
  BY <1>0, <1>1, QuietEnd DEF Ended, TypeOK
<1>2. CASE Steps(t, "checked") /\ f.entry # "invalid"
  <2>1. pc'[t] = "checked" /\ form' = form
    BY <1>0, <1>2, Moves DEF Steps, Places
  <2>2. FormFits(form[t])' /\ PlaceFits(t)' /\ f.kind \in {"updateDut", "deleteDut"}
    BY <1>0, <1>2, <2>1 DEF FormFits, PlaceFits, CheckDut, At, Of, tables
  <2>3. RequestFits(t)'
    BY <2>1, <2>2 DEF RequestFits, RowHeld, ConflictsSeen, LinkSeen, At, Of
  <2> QED
    BY <1>0, <1>2, <2>3, QuietStep DEF Places, TypeOK, CheckDut, At
<1> QED
  BY <1>1, <1>2 DEF CheckDut

LEMMA CheckLinkIInv == ASSUME IInv, NEW t \in Threads, CheckLink(t) PROVE IInv'
<1> DEFINE f == form[t]
<1>0. /\ TypeOK /\ RequestFits(t) /\ FormFits(f) /\ raced' = raced /\ UNCHANGED <<tables, now>>
      /\ dirty' \in [Threads -> BOOLEAN] /\ \A u \in Threads \ {t} : dirty'[u] = dirty[u]
  BY ServedFits DEF CheckLink, At, IInv, TypeOK, Ended
<1>1. CASE Ends(t, "refused")
  BY <1>0, <1>1, QuietEnd DEF Ended
<1>2. CASE Steps(t, "checked") /\ (f.run # None => <<f.run, OwnerOf[f.msmt]>> \in links)
  <2>1. pc'[t] = "checked" /\ form' = form
    BY <1>0, <1>2, Moves DEF Steps, Places
  <2>2. FormFits(form[t])' /\ PlaceFits(t)' /\ f.kind = "link"
    BY <1>0, <2>1 DEF FormFits, PlaceFits, CheckLink, At, Of, tables
  <2>3. RequestFits(t)'
    BY <1>0, <1>2, <2>1, <2>2 DEF RequestFits, RowHeld, ConflictsSeen, LinkSeen, At, Of, tables
  <2> QED
    BY <1>0, <1>2, <2>3, QuietStep DEF Places, CheckLink, At
<1> QED
  BY <1>1, <1>2 DEF CheckLink

LEMMA BreakDeadlockIInv ==
  ASSUME IInv, NEW t \in Threads, BreakDeadlock(t)
  PROVE  IInv'
  BY QuietEnd DEF BreakDeadlock, IInv, TypeOK, Ended, histvars

-----------------------------------------------------------------------------
(* The steps that change the tables.                                        *)

\* What another request's change has to leave to the requests in progress.
LEMMA Changes ==
  ASSUME IInv, NEW t \in Threads,
         \A u \in Threads \ {t} : pc'[u] = pc[u] /\ form'[u] = form[u],
         nextRun' \in Nat, nextRun <= nextRun',
         TypeOK', RoomHolds', RunsNumbered', ReferencesHold', OpenRunsDisjointUnlessRaced',
         RequestFits(t)',
         \A u \in Threads \ {t} : RowHeld(u)' /\ ConflictsSeen(u)' /\ LinkSeen(u)'
  PROVE  IInv'
<1>1. ASSUME NEW u \in Threads \ {t} PROVE RequestFits(u)'
  <2>1. RequestFits(u) /\ pc'[u] = pc[u] /\ form'[u] = form[u]
    BY DEF IInv
  <2>2. nextRun \in Nat
    BY DEF IInv, RoomHolds
  <2>3. Serving(u)' => FormFits(form[u])'
    BY <2>1, <2>2 DEF RequestFits, Serving, FormFits, RunIds
  <2>4. PlaceFits(u)'
    BY <2>1, <2>2 DEF RequestFits, PlaceFits, At, Of, RunIds
  <2> QED
    BY <2>3, <2>4 DEF RequestFits
<1> QED
  BY <1>1 DEF IInv

LEMMA RowHeldKept ==
  ASSUME NEW u \in Threads, RowHeld(u), pc'[u] = pc[u], form'[u] = form[u],
         At(u, "updating") /\ Exists(form[u].run)' =>
            Exists(form[u].run) /\ (Stored(form[u].dut) => duts'[form[u].dut] # Absent)
  PROVE  RowHeld(u)'
  BY DEF RowHeld, At, Exists, RowAllowed, Stored

\* No run is opened and no client put into one.
NothingOpened ==
    /\ links' \subseteq links
    /\ \A r \in RunIds :
          Exists(r)' /\ runs'[r].stop = None /\ ClientsOf(r)' # {} =>
             Exists(r) /\ runs[r].stop = None

LEMMA ConflictsKept ==
  ASSUME NEW u \in Threads, ConflictsSeen(u), pc'[u] = pc[u], form'[u] = form[u],
         Checking(u)' => Checking(u), NothingOpened
  PROVE  ConflictsSeen(u)'
<1>1. Conflicts(form[u])' \subseteq Conflicts(form[u]) /\ LinksOf(form[u].run)' \subseteq LinksOf(form[u].run)
  BY DEF Conflicts, LinksOf, ClientsOf, Exists, NothingOpened
<1> QED
  BY <1>1 DEF ConflictsSeen, At

LEMMA OpenRunsKept ==
  ASSUME OpenRunsDisjointUnlessRaced, NothingOpened, raced' = raced
  PROVE  OpenRunsDisjointUnlessRaced'
  BY DEF OpenRunsDisjointUnlessRaced, OpenOfOneClient, ClientsOf, Exists, NothingOpened

LEMMA LinkKept ==
  ASSUME NEW u \in Threads, LinkSeen(u), pc'[u] = pc[u], form'[u] = form[u],
         Checking(u)' /\ Of(u, "link") => Checking(u) /\ links \subseteq links'
  PROVE  LinkSeen(u)'
  BY DEF LinkSeen, Of

\* Steps after which the request has ended; the history may change.
LEMMA ChangesAtEnd ==
  ASSUME IInv, NEW t \in Threads, NEW place \in Ended, Ends(t, place),
         UNCHANGED <<nextRun, now>>,
         duts' \in [DutIds -> {Absent, "plain", "address"}], nextDut' \in Nat,
         clients' \subseteq Clients, runs' \in [RunIds -> Runs \cup {None}],
         links' \subseteq LinkRows, msmtRun' \in [Msmts -> RunIds \cup {None, Absent}],
         dirty' \in [Threads -> BOOLEAN], raced' \subseteq RunIds,
         RunsNumbered', ReferencesHold', OpenRunsDisjointUnlessRaced',
         \A u \in Threads \ {t} : RowHeld(u)' /\ ConflictsSeen(u)' /\ LinkSeen(u)'
  PROVE  IInv'
<1>0. TypeOK /\ RoomHolds
  BY DEF IInv
<1>1. /\ pc' \in [Threads -> Places] /\ pc'[t] = place
      /\ \A u \in Threads \ {t} : pc'[u] = pc[u]
      /\ locked' \in [Threads -> SUBSET (LinkRows \cup Msmts)]
      /\ todo' \in [Threads -> SUBSET Clients]
      /\ form' = form /\ served' = served
      /\ Pending("add")' = Pending("add") \ {t}
      /\ RequestFits(t)'
  BY <1>0, EndsMoves
<1>2. TypeOK'
  BY <1>0, <1>1 DEF TypeOK, Places
<1>3. RoomHolds'
  BY <1>0, <1>1, RoomKept
<1>4. nextRun \in Nat
  BY <1>0 DEF RoomHolds
<1> QED
  BY <1>1, <1>2, <1>3, <1>4, Changes

\* Steps in which rows of runs, links and measurements may be deleted, and runs
\* be finished.
LEMMA Deletes ==
  ASSUME IInv, NEW t \in Threads, NEW place \in Ended, Ends(t, place),
         UNCHANGED <<duts, nextDut, nextRun, now>>, clients' \subseteq Clients,
         runs' \in [RunIds -> Runs \cup {None}],
         msmtRun' \in [Msmts -> RunIds \cup {None, Absent}],
         NothingOpened, \A r \in RunIds : Exists(r)' => Exists(r),
         ReferencesHold', dirty' \in [Threads -> BOOLEAN], raced' = raced,
         \A u \in Threads : dirty[u] => dirty'[u],
         links' = links \/ \A u \in Threads : At(u, "checked") /\ Of(u, "link") => dirty'[u]
  PROVE  IInv'
<1>0. TypeOK
  BY DEF IInv
<1>1. links' \subseteq LinkRows /\ nextDut' \in Nat
  BY <1>0 DEF TypeOK, NothingOpened
<1>2. RunsNumbered' /\ OpenRunsDisjointUnlessRaced'
  BY OpenRunsKept DEF IInv, RunsNumbered
<1>3. ASSUME NEW u \in Threads \ {t}
      PROVE  RowHeld(u)' /\ ConflictsSeen(u)' /\ LinkSeen(u)'
  <2>1. RequestFits(u) /\ pc'[u] = pc[u] /\ form'[u] = form[u] /\ (Checking(u)' => Checking(u))
    BY <1>0, EndsMoves DEF IInv, Checking
  <2>2. RowHeld(u)'
    <3>1. ~(At(u, "updating") /\ Exists(form[u].run)') \/ form[u].run \in RunIds
      BY <2>1 DEF RequestFits, Serving, PlaceFits, FormFits, At, Ended
    <3> QED
      BY <2>1, <3>1, RowHeldKept DEF RequestFits, Stored
  <2>3. ConflictsSeen(u)'
    BY <2>1, ConflictsKept DEF RequestFits
  <2>4. LinkSeen(u)'
    <3>1. Checking(u)' /\ Of(u, "link") => At(u, "checked")
      BY <2>1 DEF RequestFits, PlaceFits, Checking, At, Of
    <3>2. Checking(u)' /\ Of(u, "link") => Checking(u) /\ links \subseteq links'
      BY <2>1, <3>1 DEF Checking
    <3> QED
      BY <2>1, <3>2, LinkKept DEF RequestFits
  <2> QED
    BY <2>2, <2>3, <2>4
<1> QED
  BY <1>0, <1>1, <1>2, <1>3, ChangesAtEnd DEF TypeOK

LEMMA SetStopIInv == ASSUME IInv, NEW t \in Threads, SetStop(t) PROVE IInv'
<1> DEFINE r == form[t].run
<1>0. /\ TypeOK /\ FormFits(form[t]) /\ PlaceFits(t) /\ ReferencesHold
      /\ UNCHANGED <<duts, nextDut, clients, nextRun, links, msmtRun, now, dirty, raced>>
  BY ServedFits DEF SetStop, At, IInv, Ended, histvars, RequestFits
<1>1. r \in RunIds /\ form[t].stop \in Times
  BY <1>0 DEF FormFits, PlaceFits, At, SetStop
<1>2. CASE Ends(t, "error") /\ runs' = runs
  BY <1>0, <1>2, QuietEnd DEF Ended, tables, TypeOK
<1>3. CASE /\ Ends(t, "ok")
           /\ runs' = IF Exists(r) THEN [runs EXCEPT ![r].stop = form[t].stop] ELSE runs
  <2>1. CASE ~Exists(r)
    BY <1>0, <1>3, <2>1, QuietEnd DEF Ended, tables, TypeOK
  <2>2. CASE Exists(r)
    <3>1. runs[r] \in Runs
      BY <1>0, <1>1, <2>2 DEF TypeOK, Exists
    <3>2. [runs[r] EXCEPT !.stop = form[t].stop] \in Runs
      BY <1>1, <3>1 DEF Runs
    <3>3. runs' \in [RunIds -> Runs \cup {None}]
      BY <1>0, <1>3, <2>2, <3>2 DEF TypeOK
    <3>4. \A q \in RunIds : Exists(q)' => Exists(q) /\ runs'[q].dut = runs[q].dut
      BY <1>0, <1>1, <1>3, <2>2, <3>1 DEF TypeOK, Exists, Runs
    <3>5. \A q \in RunIds : Exists(q) => Exists(q)'
      BY <1>0, <1>1, <1>3, <2>2, <3>2, RowsAssumption DEF TypeOK, Exists
    <3>6. NothingOpened
      <4>1. runs'[r].stop # None
        BY <1>0, <1>1, <1>3, <2>2, <3>1, NoneAssumption DEF TypeOK, Runs
      <4>2. \A q \in RunIds \ {r} : runs'[q] = runs[q]
        BY <1>0, <1>3, <2>2 DEF TypeOK
      <4> QED
        BY <1>0, <4>1, <4>2 DEF NothingOpened, Exists
    <3>7. ReferencesHold'
      BY <1>0, <3>4, <3>5 DEF ReferencesHold, Stored, TypeOK, LinkRows
    <3> QED
      BY <1>0, <1>3, <3>3, <3>4, <3>6, <3>7, Deletes DEF Ended, TypeOK
  <2> QED
    BY <2>1, <2>2
<1> QED
  BY <1>2, <1>3 DEF SetStop

LEMMA DeleteRowIInv == ASSUME IInv, NEW t \in Threads, DeleteRow(t) PROVE IInv'
<1>0. /\ TypeOK /\ FormFits(form[t]) /\ PlaceFits(t) /\ ReferencesHold
      /\ UNCHANGED <<duts, nextDut, clients, nextRun, msmtRun, now>>
  BY ServedFits DEF DeleteRow, At, IInv, Ended, histvars, RequestFits
<1>1. PICK r \in RunIds : r = form[t].run
  BY <1>0 DEF FormFits, PlaceFits, At, DeleteRow
<1>2. CASE Ends(t, "refused") /\ UNCHANGED <<runs, links, histvars>>
  BY <1>0, <1>2, QuietEnd DEF Ended, tables, TypeOK, histvars
<1>3. CASE /\ LinkedMmts(r) = {}
           /\ runs' = [runs EXCEPT ![r] = None]
           /\ links' = links \ LinksOf(r)
           /\ Unlinked /\ Ends(t, "ok")
  <2>1. runs' \in [RunIds -> Runs \cup {None}] /\ ~Exists(r)'
    BY <1>0, <1>1, <1>3 DEF TypeOK, Exists
  <2>2. \A q \in RunIds \ {r} : runs'[q] = runs[q]
    BY <1>0, <1>3 DEF TypeOK
  <2>3. (\A q \in RunIds : Exists(q)' => Exists(q)) /\ NothingOpened
    BY <1>3, <2>1, <2>2 DEF NothingOpened, Exists
  <2>4. ReferencesHold'
    <3>1. \A l \in links' : Exists(l[1])' /\ l[2] \in clients'
      BY <1>0, <1>3, <2>2 DEF ReferencesHold, LinksOf, Exists, TypeOK, LinkRows
    <3>2. \A m \in Msmts : /\ msmtRun'[m] \in RunIds => runs'[msmtRun'[m]] # None
                           /\ msmtRun'[m] # Absent => OwnerOf[m] \in clients'
      BY <1>0, <1>3, <2>2 DEF ReferencesHold, LinkedMmts, Exists
    <3>3. \A q \in RunIds : Exists(q)' => runs'[q] = runs[q] /\ Stored(runs[q].dut)
      BY <1>0, <2>1, <2>2 DEF ReferencesHold, Exists, Stored
    <3> QED
      BY <1>0, <3>1, <3>2, <3>3 DEF ReferencesHold, Stored, Exists
  <2>5. /\ dirty' \in [Threads -> BOOLEAN] /\ raced' = raced
        /\ \A u \in Threads : dirty[u] => dirty'[u]
        /\ \A u \in Threads : At(u, "checked") /\ Of(u, "link") => dirty'[u]
    BY <1>0, <1>3 DEF Unlinked, TypeOK
  <2> QED
    BY <1>0, <1>3, <2>1, <2>3, <2>4, <2>5, Deletes DEF Ended, TypeOK
<1> QED
  BY <1>1, <1>2, <1>3 DEF DeleteRow

LEMMA WithoutTypes ==
  ASSUME TypeOK, NEW rows, Without(rows)
  PROVE  /\ links' = links \ rows
         /\ msmtRun' \in [Msmts -> RunIds \cup {None, Absent}]
         /\ \A m \in Msmts : msmtRun'[m] = msmtRun[m] \/ msmtRun'[m] = Absent
         /\ \A m \in Msmts : m \in rows => msmtRun'[m] = Absent
  BY DEF Without, TypeOK

LEMMA DeleteDeviceIInv == ASSUME IInv, NEW t \in Threads, DeleteDevice(t) PROVE IInv'
<1>0. /\ TypeOK /\ FormFits(form[t]) /\ PlaceFits(t) /\ ReferencesHold
      /\ UNCHANGED <<duts, nextDut, runs, nextRun, now>>
  BY ServedFits DEF DeleteDevice, At, IInv, Ended, RequestFits
<1>1. PICK c \in form[t].clients :
         IF DeviceRows(c) \subseteq locked[t]
         THEN /\ Without(locked[t])
              /\ clients' = clients \ {c}
              /\ Unlinked /\ Ends(t, "ok")
         ELSE Ends(t, "error") /\ UNCHANGED <<clients, links, msmtRun, histvars>>
  BY DEF DeleteDevice
<1>2. CASE Ends(t, "error") /\ UNCHANGED <<clients, links, msmtRun, histvars>>
  BY <1>0, <1>2, QuietEnd DEF Ended, tables, TypeOK, histvars
<1>3. CASE /\ DeviceRows(c) \subseteq locked[t] /\ Without(locked[t])
           /\ clients' = clients \ {c}
           /\ Unlinked /\ Ends(t, "ok")
  <2>1. /\ links' = links \ locked[t]
        /\ msmtRun' \in [Msmts -> RunIds \cup {None, Absent}]
        /\ \A m \in Msmts : msmtRun'[m] = msmtRun[m] \/ msmtRun'[m] = Absent
        /\ \A m \in Msmts : m \in locked[t] => msmtRun'[m] = Absent
    BY <1>0, <1>3, WithoutTypes
  <2>2. (\A q \in RunIds : Exists(q)' => Exists(q)) /\ NothingOpened
    BY <1>0, <2>1 DEF NothingOpened, Exists
  <2>3. ReferencesHold'
    <3>1. \A l \in links' : Exists(l[1])' /\ l[2] \in clients'
      BY <1>0, <1>3, <2>1 DEF ReferencesHold, DeviceRows, PartsOf, Exists
    <3>2. \A m \in Msmts : msmtRun'[m] # Absent => msmtRun'[m] = msmtRun[m] /\ OwnerOf[m] # c
      BY <1>3, <2>1 DEF DeviceRows, MmtsOf
    <3>3. \A m \in Msmts : /\ msmtRun'[m] \in RunIds => runs'[msmtRun'[m]] # None
                           /\ msmtRun'[m] # Absent => OwnerOf[m] \in clients'
      BY <1>0, <1>3, <3>2, AbsentAssumption DEF ReferencesHold, Exists
    <3> QED
      BY <1>0, <3>1, <3>3 DEF ReferencesHold, Stored, Exists
  <2>4. /\ dirty' \in [Threads -> BOOLEAN] /\ raced' = raced
        /\ \A u \in Threads : dirty[u] => dirty'[u]
        /\ \A u \in Threads : At(u, "checked") /\ Of(u, "link") => dirty'[u]
    BY <1>0, <1>3 DEF Unlinked, TypeOK
  <2> QED
    BY <1>0, <1>3, <2>1, <2>2, <2>3, <2>4, Deletes DEF Ended, TypeOK
<1> QED
  BY <1>1, <1>2, <1>3

LEMMA DeleteMeasurementIInv == ASSUME IInv, NEW t \in Threads, DeleteMeasurement(t) PROVE IInv'
<1> DEFINE m == form[t].msmt
           place == IF msmtRun[m] = Absent THEN "error" ELSE "ok"
<1>0. /\ TypeOK /\ FormFits(form[t]) /\ ReferencesHold
      /\ UNCHANGED <<duts, nextDut, clients, runs, nextRun, now, dirty, raced>>
      /\ Ends(t, place) /\ place \in Ended /\ Without({m})
  BY ServedFits DEF DeleteMeasurement, At, IInv, Ended, histvars
<1>1. m \in Msmts
  BY <1>0 DEF FormFits, DeleteMeasurement, Of
<1>2. /\ msmtRun' \in [Msmts -> RunIds \cup {None, Absent}]
      /\ \A x \in Msmts : msmtRun'[x] = msmtRun[x] \/ msmtRun'[x] = Absent
      /\ links' = links \ {m}
  BY <1>0, WithoutTypes
<1>3. (\A q \in RunIds : Exists(q)' => Exists(q)) /\ NothingOpened
  BY <1>0, <1>2 DEF NothingOpened, Exists
<1>4. ReferencesHold'
  BY <1>0, <1>2, AbsentAssumption DEF ReferencesHold, Exists, Stored
<1>5. links' = links
  BY <1>0, <1>1, <1>2, MsmtsAssumption DEF TypeOK
<1> QED
  BY <1>0, <1>2, <1>3, <1>4, <1>5, Deletes DEF TypeOK

LEMMA SetRunIInv == ASSUME IInv, NEW t \in Threads, SetRun(t) PROVE IInv'
<1>0. /\ TypeOK /\ FormFits(form[t]) /\ ReferencesHold
      /\ UNCHANGED <<duts, nextDut, clients, runs, nextRun, links, now, dirty, raced>>
  BY ServedFits DEF SetRun, At, IInv, Ended, histvars
<1>1. PICK m \in Msmts, r \in RunIds \cup {None} : m = form[t].msmt /\ r = form[t].run
  BY <1>0 DEF FormFits, SetRun, Of
<1>2. CASE Ends(t, "error") /\ msmtRun' = msmtRun
  BY <1>0, <1>2, QuietEnd DEF Ended, tables, TypeOK
<1>3. CASE /\ Ends(t, "ok") /\ ~(msmtRun[m] # Absent /\ r # None /\ ~Exists(r))
           /\ msmtRun' = IF msmtRun[m] = Absent THEN msmtRun ELSE [msmtRun EXCEPT ![m] = r]
  <2>1. msmtRun' \in [Msmts -> RunIds \cup {None, Absent}]
    BY <1>0, <1>1, <1>3 DEF TypeOK
  <2>2. NothingOpened /\ \A q \in RunIds : Exists(q)' => Exists(q)
    BY <1>0 DEF NothingOpened, Exists
  <2>3. ReferencesHold'
    <3>1. \A x \in Msmts : /\ msmtRun'[x] \in RunIds => Exists(msmtRun'[x])
                           /\ msmtRun'[x] # Absent => OwnerOf[x] \in clients
      BY <1>0, <1>1, <1>3, NoneAssumption, AbsentAssumption DEF TypeOK, ReferencesHold
    <3> QED
      BY <1>0, <3>1 DEF ReferencesHold, Exists, Stored
  <2> QED
    BY <1>0, <1>3, <2>1, <2>2, <2>3, Deletes DEF Ended, TypeOK
<1> QED
  BY <1>1, <1>2, <1>3 DEF SetRun

\* A change of the devices under test leaves those that runs have, and those
\* that a run is about to get.
LEMMA DutChanges ==
  ASSUME IInv, NEW t \in Threads, Ends(t, "ok"),
         UNCHANGED <<clients, runs, nextRun, links, msmtRun, now, dirty, raced>>,
         duts' \in [DutIds -> {Absent, "plain", "address"}], nextDut' \in Nat,
         \A r \in RunIds : Exists(r) => duts'[runs[r].dut] # Absent,
         \A u \in Threads \ {t} : At(u, "updating") /\ Stored(form[u].dut) => duts'[form[u].dut] # Absent
  PROVE  IInv'
<1>0. TypeOK
  BY DEF IInv
<1>1. ReferencesHold' /\ RunsNumbered' /\ OpenRunsDisjointUnlessRaced'
  BY DEF IInv, ReferencesHold, Exists, Stored, RunsNumbered, OpenRunsDisjointUnlessRaced,
     OpenOfOneClient, ClientsOf
<1>2. ASSUME NEW u \in Threads \ {t}
      PROVE  RowHeld(u)' /\ ConflictsSeen(u)' /\ LinkSeen(u)'
  <2>1. RequestFits(u) /\ pc'[u] = pc[u] /\ form'[u] = form[u] /\ (Checking(u)' => Checking(u))
    BY <1>0, EndsMoves DEF IInv, Checking, Ended
  <2>2. RowHeld(u)'
    BY <2>1, RowHeldKept DEF RequestFits, Exists
  <2>3. ConflictsSeen(u)' /\ LinkSeen(u)'
    BY <2>1, ConflictsKept, LinkKept DEF RequestFits, NothingOpened, Exists
  <2> QED
    BY <2>2, <2>3
<1> QED
  BY <1>0, <1>1, <1>2, ChangesAtEnd DEF TypeOK, Ended

LEMMA AddNewDutIInv == ASSUME IInv, NEW t \in Threads, AddNewDut(t) PROVE IInv'
<1>0. /\ TypeOK /\ ReferencesHold
      /\ UNCHANGED <<clients, runs, nextRun, links, msmtRun, now, dirty, raced>>
  BY DEF AddNewDut, IInv, histvars
<1>1. CASE (Ends(t, "refused") \/ Ends(t, "error")) /\ UNCHANGED <<duts, nextDut>>
  BY <1>0, <1>1, QuietEnd DEF Ended, tables, TypeOK
<1>2. CASE /\ duts' = [duts EXCEPT ![nextDut] = "plain"]
           /\ nextDut' = nextDut + 1
           /\ Ends(t, "ok")
  <2>1. duts' \in [DutIds -> {Absent, "plain", "address"}] /\ nextDut' \in Nat
    <3>1. duts' = [d \in DutIds |-> IF d = nextDut THEN "plain" ELSE duts[d]]
      BY <1>0, <1>2 DEF TypeOK
    <3>2. \A d \in DutIds : duts[d] \in {Absent, "plain", "address"}
      BY <1>0 DEF TypeOK
    <3>3. duts' \in [DutIds -> {Absent, "plain", "address"}]
      BY <3>1, <3>2
    <3>4. nextDut' \in Nat
      BY <1>0, <1>2 DEF TypeOK
    <3> QED
      BY <3>3, <3>4
  <2>2. \A d \in DutIds : Stored(d) => duts'[d] # Absent
    BY <1>0, <1>2, AbsentAssumption DEF TypeOK, Stored
  <2>3. \A r \in RunIds : Exists(r) => duts'[runs[r].dut] # Absent
    BY <1>0, <2>2 DEF ReferencesHold, TypeOK, Exists, Runs
  <2>4. \A u \in Threads : At(u, "updating") => form[u].dut \in DutIds
    BY DEF IInv, RequestFits, Serving, FormFits, PlaceFits, At, Ended
  <2> QED
    BY <1>0, <1>2, <2>1, <2>2, <2>3, <2>4, DutChanges
<1> QED
  BY <1>1, <1>2 DEF AddNewDut

LEMMA UpdateDutIInv == ASSUME IInv, NEW t \in Threads, UpdateDut(t) PROVE IInv'
<1>0. /\ TypeOK /\ ReferencesHold /\ FormFits(form[t]) /\ PlaceFits(t) /\ Ends(t, "ok")
      /\ UNCHANGED <<nextDut, clients, runs, nextRun, links, msmtRun, now, dirty, raced>>
  BY ServedFits DEF UpdateDut, At, IInv, Ended, histvars, RequestFits
<1>1. form[t].dut \in DutIds /\ form[t].entry \in {"plain", "address"}
  BY <1>0 DEF FormFits, PlaceFits, UpdateDut, At, Of, Forms
<1>2. duts' \in [DutIds -> {Absent, "plain", "address"}] /\ nextDut' \in Nat
  BY <1>0, <1>1 DEF TypeOK, UpdateDut
<1>3. \A d \in DutIds : Stored(d) => duts'[d] # Absent
  BY <1>0, <1>1, AbsentAssumption DEF TypeOK, Stored, UpdateDut
<1>4. \A r \in RunIds : Exists(r) => duts'[runs[r].dut] # Absent
  BY <1>0, <1>3 DEF ReferencesHold, TypeOK, Exists, Runs
<1>5. \A u \in Threads : At(u, "updating") => form[u].dut \in DutIds
  BY DEF IInv, RequestFits, Serving, FormFits, PlaceFits, At, Ended
<1> QED
  BY <1>0, <1>2, <1>3, <1>4, <1>5, DutChanges

LEMMA DeleteDutIInv == ASSUME IInv, NEW t \in Threads, DeleteDut(t) PROVE IInv'
<1>0. /\ TypeOK /\ ReferencesHold /\ FormFits(form[t])
      /\ UNCHANGED <<nextDut, clients, runs, nextRun, links, msmtRun, now, dirty, raced>>
  BY ServedFits DEF DeleteDut, At, IInv, Ended, histvars
<1>1. PICK d \in DutIds : d = form[t].dut
  BY <1>0 DEF FormFits, DeleteDut, Of
<1>2. CASE Ends(t, "refused") /\ duts' = duts
  BY <1>0, <1>2, QuietEnd DEF Ended, tables, TypeOK
<1>3. CASE /\ \A u \in Threads : ~(At(u, "updating") /\ form[u].dut = d)
           /\ ~\E r \in RunIds : Exists(r) /\ runs[r].dut = d
           /\ Ends(t, "ok") /\ duts' = [duts EXCEPT ![d] = Absent]
  <2>1. duts' \in [DutIds -> {Absent, "plain", "address"}] /\ nextDut' \in Nat
    BY <1>0, <1>3 DEF TypeOK
  <2>2. \A x \in DutIds \ {d} : Stored(x) => duts'[x] # Absent
    BY <1>0, <1>3 DEF TypeOK, Stored
  <2>3. \A r \in RunIds : Exists(r) => duts'[runs[r].dut] # Absent
    BY <1>0, <1>3, <2>2 DEF ReferencesHold, TypeOK, Exists, Runs
  <2>4. \A u \in Threads : At(u, "updating") => form[u].dut \in DutIds \ {d}
    BY <1>3 DEF IInv, RequestFits, Serving, FormFits, PlaceFits, At, Ended
  <2> QED
    BY <1>0, <1>3, <2>1, <2>2, <2>3, <2>4, DutChanges
<1> QED
  BY <1>1, <1>2, <1>3 DEF DeleteDut

-----------------------------------------------------------------------------
(* Saving runs.                                                             *)

LEMMA InsertRunIInv == ASSUME IInv, NEW t \in Threads, InsertRun(t) PROVE IInv'
<1> DEFINE f == form[t]
<1>0. /\ TypeOK /\ FormFits(f) /\ PlaceFits(t) /\ ConflictsSeen(t)
      /\ RoomHolds /\ RunsNumbered /\ ReferencesHold /\ OpenRunsDisjointUnlessRaced
      /\ UNCHANGED <<duts, nextDut, clients, links, msmtRun, now, dirty, raced>>
  BY ServedFits DEF InsertRun, At, IInv, Ended, histvars, RequestFits
<1>1. At(t, "checked") /\ f.kind = "add" /\ f.run = None /\ f.start \in Times
  BY <1>0 DEF InsertRun, PlaceFits, At, Of
<1>2. CASE Ends(t, "error") /\ UNCHANGED <<runs, nextRun>>
  BY <1>0, <1>2, QuietEnd DEF Ended, tables, TypeOK
<1>3. CASE /\ RowAllowed(f)
           /\ nextRun' = nextRun + 1
           /\ runs' = [runs EXCEPT ![nextRun] = RowOf(f)]
           /\ form' = [form EXCEPT ![t].run = nextRun]
           /\ Goes(t, "inserted")
           /\ UNCHANGED <<locked, todo, served>>
  <2>1. /\ pc' \in [Threads -> Places] /\ pc'[t] = "inserted"
        /\ \A u \in Threads \ {t} : pc'[u] = pc[u]
    BY <1>0, <1>3, Moves DEF Places
  <2>2. form'[t] = [f EXCEPT !.run = nextRun] /\ \A u \in Threads \ {t} : form'[u] = form[u]
    BY <1>0, <1>3 DEF TypeOK
  <2>3. t \in Pending("add") /\ Pending("add")' = Pending("add") \ {t}
    BY <1>1, <2>1, <2>2 DEF Pending, At
  <2>4. /\ Cardinality(Pending("add")') = Cardinality(Pending("add")) - 1
        /\ Cardinality(Pending("add")) \in Nat /\ Cardinality(Pending("add")') \in Nat
    BY <2>3, PendingTypes, FS_RemoveElement, FS_CardinalityType
  <2>5. RoomHolds' /\ nextRun \in RunIds
    BY <1>0, <1>3, <2>4, BoundsAssumption DEF RoomHolds, RunIds
  <2>6. RowOf(f) \in Runs
    BY <1>0, <1>1 DEF RowOf, Runs, FormFits, Forms
  <2>7. /\ runs'[nextRun] = RowOf(f) /\ \A r \in RunIds \ {nextRun} : runs'[r] = runs[r]
        /\ runs' \in [RunIds -> Runs \cup {None}]
    BY <1>0, <1>3, <2>5, <2>6 DEF TypeOK
  <2>8. form'[t] \in Forms
    BY <1>0, <2>2, <2>5 DEF FormFits, Forms
  <2>9. TypeOK'
    <3>1. nextRun' \in Nat /\ form' \in [Threads -> Forms \cup {None}]
      BY <1>0, <1>3, <2>2, <2>8 DEF TypeOK
    <3> QED
      BY <1>0, <1>3, <2>1, <2>7, <3>1 DEF TypeOK, Places
  <2>10. ~Exists(nextRun) /\ \A c \in Clients : <<nextRun, c>> \notin links
    BY <1>0, <2>5 DEF RunsNumbered, ReferencesHold, TypeOK
  <2>11. RunsNumbered'
    BY <1>0, <1>3, <2>5, <2>7 DEF RunsNumbered, Exists, RunIds
  <2>12. ReferencesHold'
    <3>1. \A r \in RunIds : Exists(r) => runs'[r] = runs[r] /\ runs'[r] # None
      BY <2>7, <2>10 DEF Exists
    <3>2. \A l \in links' : Exists(l[1])' /\ l[2] \in clients'
      BY <1>0, <3>1 DEF ReferencesHold, TypeOK, LinkRows, Exists
    <3>3. \A m \in Msmts : /\ msmtRun'[m] \in RunIds => runs'[msmtRun'[m]] # None
                           /\ msmtRun'[m] # Absent => OwnerOf[m] \in clients'
      BY <1>0, <3>1 DEF ReferencesHold
    <3>4. \A r \in RunIds : runs'[r] # None => Stored(runs'[r].dut)
      BY <1>0, <1>3, <2>7 DEF ReferencesHold, Exists, RowAllowed, RowOf
    <3> QED
      BY <1>0, <3>2, <3>3, <3>4 DEF ReferencesHold, Exists, Stored
  <2>13. NothingOpened
    <3>1. ClientsOf(nextRun) = {}
      BY <2>10 DEF ClientsOf
    <3> QED
      BY <1>0, <2>7, <3>1 DEF NothingOpened, ClientsOf, Exists
  <2>14. OpenRunsDisjointUnlessRaced'
    BY <1>0, <2>13, OpenRunsKept
  <2>15. RequestFits(t)'
    <3>1. FormFits(form[t])' /\ PlaceFits(t)'
      BY <1>0, <1>1, <1>3, <2>1, <2>2, <2>5, <2>8 DEF FormFits, Forms, PlaceFits, At, Of, RoomHolds
    <3>2. ConflictsSeen(t)'
      <4>1. Checking(t)' => Conflicts(f) = {}
        BY <1>0, <1>1, <2>1 DEF ConflictsSeen, Checking, At
      <4>2. Conflicts(form[t])' \subseteq Conflicts(f)
        BY <1>0, <1>1, <2>2, <2>7, <2>8, NoneAssumption DEF Conflicts, ClientsOf, Exists, FormFits, Forms
      <4>3. LinksOf(form[t].run)' = {}
        BY <1>0, <2>2, <2>8, <2>10 DEF LinksOf, TypeOK, LinkRows, FormFits, Forms
      <4> QED
        BY <4>1, <4>2, <4>3 DEF ConflictsSeen
    <3>3. RowHeld(t)' /\ LinkSeen(t)'
      BY <1>0, <1>1, <2>1, <2>2 DEF RowHeld, LinkSeen, At, Of, FormFits, Forms
    <3> QED
      BY <3>1, <3>2, <3>3 DEF RequestFits
  <2>16. ASSUME NEW u \in Threads \ {t}
         PROVE  RowHeld(u)' /\ ConflictsSeen(u)' /\ LinkSeen(u)'
    <3>1. RequestFits(u) /\ pc'[u] = pc[u] /\ form'[u] = form[u] /\ (Checking(u)' => Checking(u))
      BY <1>0, <2>1, <2>2 DEF IInv, Checking
    <3>2. At(u, "updating") => form[u].run \in RunIds \ {nextRun}
      BY <3>1, <2>5 DEF RequestFits, Serving, FormFits, PlaceFits, At, Ended, RunIds
    <3>3. RowHeld(u)'
      BY <1>0, <3>1, <3>2, <2>7, RowHeldKept DEF RequestFits, Exists, Stored
    <3>4. ConflictsSeen(u)' /\ LinkSeen(u)'
      BY <1>0, <3>1, <2>13, ConflictsKept, LinkKept DEF RequestFits
    <3> QED
      BY <3>3, <3>4
  <2>17. nextRun \in Nat /\ nextRun' \in Nat /\ nextRun <= nextRun'
    BY <1>0, <1>3 DEF TypeOK
  <2> QED
    BY <2>1, <2>2, <2>5, <2>9, <2>11, <2>12, <2>14, <2>15, <2>16, <2>17, Changes
<1> QED
  BY <1>2, <1>3 DEF InsertRun

\* Who saves a run that has not been raced, has checked the clients it is saved
\* with against all runs there are now.
LEMMA SavedDisjoint ==
  ASSUME OpenRunsDisjointUnlessRaced, NEW t \in Threads, NEW r \in RunIds, r = form[t].run,
         raced' = IF dirty[t] THEN raced \cup {r} ELSE raced \ {r},
         \A q \in RunIds \ {r} : runs'[q] = runs[q] /\ ClientsOf(q)' = ClientsOf(q),
         ~dirty[t] => ClientsOf(r)' \subseteq form[t].clients /\ Conflicts(form[t]) = {}
  PROVE  OpenRunsDisjointUnlessRaced'
<1>1. \A q, s \in RunIds \ {r} : OpenOfOneClient(q, s)' => OpenOfOneClient(q, s)
  BY DEF OpenOfOneClient, Exists
<1>2. \A q \in RunIds : OpenOfOneClient(q, r)' \/ OpenOfOneClient(r, q)' => dirty[t]
  BY DEF OpenOfOneClient, Exists, Conflicts
<1> QED
  BY <1>1, <1>2 DEF OpenRunsDisjointUnlessRaced

\* The others that have checked something know that it is out of date.
LEMMA SavedTells ==
  ASSUME TypeOK, NEW t \in Threads, Saved(t), NEW u \in Threads \ {t}, pc'[u] = pc[u]
  PROVE  /\ dirty' \in [Threads -> BOOLEAN]
         /\ ConflictsSeen(u)' /\ LinkSeen(u)'
<1>1. dirty' \in [Threads -> BOOLEAN]
  BY DEF Saved, TypeOK
<1>2. ~Checking(u)'
  BY DEF Saved, Checking
<1> QED
  BY <1>1, <1>2 DEF ConflictsSeen, LinkSeen

LEMMA InsertLinksIInv == ASSUME IInv, NEW t \in Threads, InsertLinks(t) PROVE IInv'
<1> DEFINE f == form[t]
<1>0. /\ TypeOK /\ FormFits(f) /\ PlaceFits(t) /\ ConflictsSeen(t)
      /\ RunsNumbered /\ ReferencesHold /\ OpenRunsDisjointUnlessRaced
      /\ UNCHANGED <<duts, nextDut, clients, runs, nextRun, msmtRun, now>>
  BY ServedFits DEF InsertLinks, At, IInv, Ended, RequestFits
<1>1. PICK r \in RunIds : r = f.run
  BY <1>0 DEF InsertLinks, PlaceFits
<1>2. CASE Ends(t, "error") /\ UNCHANGED <<links, histvars>>
  BY <1>0, <1>2, QuietEnd DEF Ended, tables, TypeOK, histvars
<1>3. CASE LinksAllowed(f) /\ links' = links \cup NewLinks(f) /\ Saved(t) /\ Ends(t, "ok")
  <2>1. f.clients \subseteq clients /\ (f.clients # {} => Exists(r)) /\ NewLinks(f) = {r} \X f.clients
    BY <1>1, <1>3 DEF LinksAllowed, NewLinks
  <2>2. links' \subseteq LinkRows
    BY <1>0, <1>3, <2>1 DEF TypeOK, LinkRows
  <2>3. ReferencesHold'
    <3>1. \A l \in links' : Exists(l[1]) /\ l[2] \in clients
      BY <1>0, <1>3, <2>1 DEF ReferencesHold
    <3> QED
      BY <1>0, <3>1 DEF ReferencesHold, Exists, Stored
  <2>4. \A q \in RunIds \ {r} : ClientsOf(q)' = ClientsOf(q)
    BY <1>3, <2>1 DEF ClientsOf
  <2>5. ~dirty[t] => ClientsOf(r)' \subseteq f.clients /\ Conflicts(f) = {}
    <3>1. ~dirty[t] => Conflicts(f) = {} /\ LinksOf(r) = {}
      BY <1>0, <1>1 DEF ConflictsSeen, Checking, PlaceFits, InsertLinks, At
    <3> QED
      BY <1>3, <2>1, <3>1 DEF ClientsOf, LinksOf
  <2>6. raced' = IF dirty[t] THEN raced \cup {r} ELSE raced \ {r}
    BY <1>1, <1>3 DEF Saved
  <2>7. RunsNumbered' /\ OpenRunsDisjointUnlessRaced'
    BY <1>0, <1>1, <2>4, <2>5, <2>6, SavedDisjoint DEF RunsNumbered, Exists
  <2>8. ASSUME NEW u \in Threads \ {t}
        PROVE  RowHeld(u)' /\ ConflictsSeen(u)' /\ LinkSeen(u)'
    <3>1. RequestFits(u) /\ pc'[u] = pc[u] /\ form'[u] = form[u]
      BY <1>0, <1>3, EndsMoves DEF IInv, Ended
    <3>2. RowHeld(u)'
      BY <1>0, <3>1, RowHeldKept DEF RequestFits, Exists, Stored
    <3> QED
      BY <1>0, <1>3, <3>1, <3>2, SavedTells
  <2>9. dirty' \in [Threads -> BOOLEAN] /\ raced' \subseteq RunIds
    BY <1>0, <1>3, <2>6 DEF Saved, TypeOK
  <2> QED
    BY <1>0, <1>3, <2>2, <2>3, <2>7, <2>8, <2>9, ChangesAtEnd DEF Ended, TypeOK
<1> QED
  BY <1>2, <1>3 DEF InsertLinks

LEMMA ReplaceLinksIInv == ASSUME IInv, NEW t \in Threads, ReplaceLinks(t) PROVE IInv'
<1> DEFINE f == form[t]
<1>0. /\ TypeOK /\ FormFits(f) /\ PlaceFits(t) /\ RowHeld(t) /\ ConflictsSeen(t)
      /\ RunsNumbered /\ ReferencesHold /\ OpenRunsDisjointUnlessRaced /\ At(t, "updating")
      /\ UNCHANGED <<duts, nextDut, clients, nextRun, msmtRun, now>>
  BY ServedFits DEF ReplaceLinks, At, IInv, Ended, RequestFits
<1>1. PICK r \in RunIds : r = f.run
  BY <1>0 DEF FormFits, PlaceFits
<1>2. CASE Ends(t, "error") /\ UNCHANGED <<runs, links, histvars>>
  BY <1>0, <1>2, QuietEnd DEF Ended, tables, TypeOK, histvars
<1>3. CASE /\ LinksAllowed(f)
           /\ runs' = IF Exists(r) THEN [runs EXCEPT ![r] = RowOf(f)] ELSE runs
           /\ links' = (links \ LinksOf(r)) \cup NewLinks(f)
           /\ Saved(t) /\ Ends(t, "ok")
  <2>1. f.clients \subseteq clients /\ (f.clients # {} => Exists(r)) /\ NewLinks(f) = {r} \X f.clients
    BY <1>1, <1>3 DEF LinksAllowed, NewLinks
  <2>2. RowOf(f) \in Runs
    BY <1>0 DEF RowOf, Runs, PlaceFits, FormFits, Forms, At
  <2>3. /\ runs' \in [RunIds -> Runs \cup {None}]
        /\ \A q \in RunIds \ {r} : runs'[q] = runs[q]
        /\ runs'[r] = IF Exists(r) THEN RowOf(f) ELSE None
    BY <1>0, <1>1, <1>3, <2>2 DEF TypeOK, Exists
  <2>4. \A q \in RunIds : runs'[q] # None <=> Exists(q)
    BY <2>2, <2>3, RowsAssumption DEF Exists
  <2>5. links' \subseteq LinkRows
    BY <1>0, <1>3, <2>1 DEF TypeOK, LinkRows
  <2>6. ReferencesHold'
    <3>1. \A l \in links' : Exists(l[1]) /\ l[2] \in clients
      BY <1>0, <1>3, <2>1 DEF ReferencesHold
    <3>2. \A q \in RunIds : Exists(q) => Stored(runs'[q].dut)
      BY <1>0, <1>1, <2>3 DEF ReferencesHold, RowHeld, RowAllowed, RowOf
    <3> QED
      BY <1>0, <2>4, <2>5, <3>1, <3>2 DEF ReferencesHold, Exists, Stored, LinkRows
  <2>7. \A q \in RunIds \ {r} : ClientsOf(q)' = ClientsOf(q)
    BY <1>3, <2>1 DEF ClientsOf, LinksOf
  <2>8. ~dirty[t] => ClientsOf(r)' \subseteq f.clients /\ Conflicts(f) = {}
    <3>1. ClientsOf(r)' \subseteq f.clients
      BY <1>3, <2>1 DEF ClientsOf, LinksOf
    <3> QED
      BY <1>0, <3>1 DEF ConflictsSeen, Checking, PlaceFits, At
  <2>9. raced' = IF dirty[t] THEN raced \cup {r} ELSE raced \ {r}
    BY <1>1, <1>3 DEF Saved
  <2>10. RunsNumbered' /\ OpenRunsDisjointUnlessRaced'
    BY <1>0, <1>1, <2>3, <2>4, <2>7, <2>8, <2>9, SavedDisjoint DEF RunsNumbered, Exists
  <2>11. ASSUME NEW u \in Threads \ {t}
         PROVE  RowHeld(u)' /\ ConflictsSeen(u)' /\ LinkSeen(u)'
    <3>1. RequestFits(u) /\ pc'[u] = pc[u] /\ form'[u] = form[u]
      BY <1>0, <1>3, EndsMoves DEF IInv, Ended
    <3>2. At(u, "updating") => form[u].run \in RunIds
      BY <3>1 DEF RequestFits, Serving, FormFits, PlaceFits, At, Ended
    <3>3. RowHeld(u)'
      BY <1>0, <2>4, <3>1, <3>2, RowHeldKept DEF RequestFits, Exists, Stored
    <3> QED
      BY <1>0, <1>3, <3>1, <3>3, SavedTells
  <2>12. dirty' \in [Threads -> BOOLEAN] /\ raced' \subseteq RunIds
    BY <1>0, <1>3, <2>9 DEF Saved, TypeOK
  <2> QED
    BY <1>0, <1>3, <2>3, <2>5, <2>6, <2>10, <2>11, <2>12, ChangesAtEnd DEF Ended, TypeOK
<1> QED
  BY <1>1, <1>2, <1>3 DEF ReplaceLinks

-----------------------------------------------------------------------------
(* The surroundings, and new requests.                                      *)

LEMMA Surroundings ==
  ASSUME IInv, UNCHANGED <<duts, nextDut, runs, nextRun, links, reqvars, histvars>>,
         now' \in Times, clients \subseteq clients', clients' \subseteq Clients,
         msmtRun' \in [Msmts -> RunIds \cup {None, Absent}],
         \A m \in Msmts : /\ msmtRun'[m] \in RunIds => Exists(msmtRun'[m])
                          /\ msmtRun'[m] # Absent => OwnerOf[m] \in clients'
  PROVE  IInv'
<1> USE DEF reqvars, histvars
<1>1. TypeOK'
  BY DEF IInv, TypeOK
<1>2. RoomHolds'
  <2>1. Pending("add")' \subseteq Pending("add")
    BY DEF Pending
  <2> QED
    BY <2>1, RoomKept DEF IInv
<1>3. RunsNumbered' /\ ReferencesHold' /\ OpenRunsDisjointUnlessRaced'
  BY DEF IInv, RunsNumbered, ReferencesHold, OpenRunsDisjointUnlessRaced, OpenOfOneClient,
     Exists, ClientsOf, Stored
<1>4. ASSUME NEW u \in Threads PROVE RequestFits(u)'
  <2>1. RequestFits(u)
    BY DEF IInv
  <2>2. (Serving(u)' => FormFits(form[u])') /\ PlaceFits(u)' /\ RowHeld(u)'
    BY <2>1 DEF RequestFits, Serving, FormFits, PlaceFits, RowHeld, At, Of, Exists, RowAllowed, Stored
  <2>3. ConflictsSeen(u)' /\ LinkSeen(u)'
    BY <2>1 DEF RequestFits, ConflictsSeen, LinkSeen, Checking, Conflicts, LinksOf, ClientsOf,
       Exists, At, Of
  <2> QED
    BY <2>2, <2>3 DEF RequestFits
<1> QED
  BY <1>1, <1>2, <1>3, <1>4 DEF IInv

\* What putMeasurement puts a new measurement into.
LEMMA NewMeasurementRun ==
  ASSUME NEW m \in Msmts, NewMeasurement(m), TypeOK
  PROVE  \/ msmtRun' = [msmtRun EXCEPT ![m] = None]
         \/ \E r \in RunIds : /\ Exists(r) /\ <<r, OwnerOf[m]>> \in links
                              /\ msmtRun' = [msmtRun EXCEPT ![m] = r]
<1>1. PICK ts \in 0..now :
         msmtRun' = [msmtRun EXCEPT ![m] =
                        IF Cardinality(Covering(OwnerOf[m], ts)) = 1
                        THEN CHOOSE r \in Covering(OwnerOf[m], ts) : TRUE ELSE None]
  BY DEF NewMeasurement
<1> DEFINE fitting == Covering(OwnerOf[m], ts)
<1>2. CASE Cardinality(fitting) = 1
  <2>1. fitting # {}
    BY <1>2, FS_EmptySet
  <2>2. (CHOOSE r \in fitting : TRUE) \in fitting
    BY <2>1
  <2>3. \A r \in fitting : r \in RunIds /\ Exists(r) /\ <<r, OwnerOf[m]>> \in links
    BY DEF Covering
  <2> QED
    BY <1>1, <1>2, <2>2, <2>3
<1>3. CASE Cardinality(fitting) # 1
  BY <1>1, <1>3
<1> QED
  BY <1>2, <1>3

LEMMA NewMeasurementIInv == ASSUME IInv, NEW m \in Msmts, NewMeasurement(m) PROVE IInv'
<1>0. TypeOK /\ ReferencesHold /\ UNCHANGED <<duts, nextDut, runs, nextRun, links, now, reqvars, histvars>>
  BY DEF IInv, NewMeasurement
<1>1. clients' = clients \cup {OwnerOf[m]} /\ OwnerOf[m] \in Clients
  BY OwnerAssumption DEF NewMeasurement
<1>2. PICK r \in RunIds \cup {None} :
         msmtRun' = [msmtRun EXCEPT ![m] = r] /\ (r # None => Exists(r))
  BY <1>0, NewMeasurementRun
<1>3. /\ msmtRun' \in [Msmts -> RunIds \cup {None, Absent}]
      /\ msmtRun'[m] = r /\ \A x \in Msmts \ {m} : msmtRun'[x] = msmtRun[x]
  BY <1>0, <1>2 DEF TypeOK
<1>4. \A x \in Msmts : /\ msmtRun'[x] \in RunIds => Exists(msmtRun'[x])
                       /\ msmtRun'[x] # Absent => OwnerOf[x] \in clients'
  BY <1>0, <1>1, <1>2, <1>3, NoneAssumption DEF ReferencesHold
<1> QED
  BY <1>0, <1>1, <1>3, <1>4, Surroundings DEF TypeOK

LEMMA RegisterIInv == ASSUME IInv, NEW c \in Clients, Register(c) PROVE IInv'
  BY Surroundings DEF Register, IInv, TypeOK, ReferencesHold

LEMMA TickIInv == ASSUME IInv, Tick PROVE IInv'
<1>1. now' \in Times
  BY BoundsAssumption DEF Tick, IInv, TypeOK, Times
<1> QED
  BY <1>1, Surroundings DEF Tick, tables, IInv, TypeOK, ReferencesHold

\* What a page lets its user send.
LEMMA SentFits ==
  ASSUME TypeOK, RunsNumbered, ReferencesHold,
         NEW f \in NewRunForms \cup RunForms \cup MeasurementForms \cup DeviceForms \cup DutForms
  PROVE  FormFits(f) /\ (f.kind = "add" => f.run = None)
<1>0. /\ clients \subseteq Clients /\ now \in Times
      /\ \A r \in RunIds : Exists(r) => /\ r < nextRun /\ runs[r].dut \in DutIds
                                        /\ runs[r].start \in Times
                                        /\ runs[r].stop \in Times \cup {None}
  BY DEF TypeOK, Exists, Runs, RunsNumbered
<1>1. CASE f \in NewRunForms
  BY <1>0, <1>1 DEF NewRunForms, FormFits, Forms, Kinds
<1>2. CASE f \in RunForms
  <2> DEFINE page(r) == [Blank EXCEPT !.kind = "update", !.run = r, !.dut = runs[r].dut,
                                      !.clients = ClientsOf(r),
                                      !.start = runs[r].start, !.stop = runs[r].stop]
             row(r, k, cs, d, b, e) ==
               [kind |-> k, run |-> r, dut |-> d, clients |-> cs, start |-> b, stop |-> e,
                msmt |-> None, entry |-> "plain"]
  <2>1. PICK r \in {x \in RunIds : Exists(x)} :
          f \in {[page(r) EXCEPT !.clients = cs] : cs \in SUBSET clients}
               \cup {[page(r) EXCEPT !.start = b] : b \in Times}
               \cup {[page(r) EXCEPT !.stop = e] : e \in Times \cup {None}}
               \cup {[page(r) EXCEPT !.dut = d] : d \in {x \in DutIds : Stored(x)}}
               \cup {[page(r) EXCEPT !.kind = k] :
                        k \in {"finish"} \cup (IF LinkedMmts(r) = {} THEN {"delete"} ELSE {})}
    BY <1>2 DEF RunForms
  <2>2. ClientsOf(r) \subseteq Clients
    BY DEF ClientsOf
  <2>3. PICK k \in {"update", "finish", "delete"}, cs \in SUBSET Clients, d \in DutIds,
             b \in Times, e \in Times \cup {None} : f = row(r, k, cs, d, b, e)
    <3>1. CASE \E cs \in SUBSET clients : f = [page(r) EXCEPT !.clients = cs]
      <4>1. \E cs \in SUBSET clients : f = row(r, "update", cs, runs[r].dut, runs[r].start, runs[r].stop)
        BY <3>1 DEF Blank
      <4> QED
        BY <1>0, <4>1
    <3>2. CASE \E b \in Times : f = [page(r) EXCEPT !.start = b]
      <4>1. \E b \in Times : f = row(r, "update", ClientsOf(r), runs[r].dut, b, runs[r].stop)
        BY <3>2 DEF Blank
      <4> QED
        BY <1>0, <2>2, <4>1
    <3>3. CASE \E e \in Times \cup {None} : f = [page(r) EXCEPT !.stop = e]
      <4>1. \E e \in Times \cup {None} :
               f = row(r, "update", ClientsOf(r), runs[r].dut, runs[r].start, e)
        BY <3>3 DEF Blank
      <4> QED
        BY <1>0, <2>2, <4>1
    <3>4. CASE \E d \in DutIds : f = [page(r) EXCEPT !.dut = d]
      <4>1. \E d \in DutIds : f = row(r, "update", ClientsOf(r), d, runs[r].start, runs[r].stop)
        BY <3>4 DEF Blank
      <4> QED
        BY <1>0, <2>2, <4>1
    <3>5. CASE \E k \in {"finish", "delete"} : f = [page(r) EXCEPT !.kind = k]
      <4>1. \E k \in {"finish", "delete"} :
               f = row(r, k, ClientsOf(r), runs[r].dut, runs[r].start, runs[r].stop)
        BY <3>5 DEF Blank
      <4> QED
        BY <1>0, <2>2, <4>1
    <3> HIDE DEF page, row
    <3> QED
      BY <2>1, <3>1, <3>2, <3>3, <3>4, <3>5
  <2>4. f.kind = k /\ f.run = r /\ f.dut = d /\ f \in Forms
    BY <2>3 DEF Forms, Kinds
  <2> QED
    BY <1>0, <2>1, <2>4 DEF FormFits
<1>3. CASE f \in MeasurementForms
  <2>1. PICK m \in Msmts :
           \/ \E r \in {None} \cup {x \in RunIds : <<x, OwnerOf[m]>> \in links} :
                 f = [Blank EXCEPT !.kind = "link", !.msmt = m, !.run = r]
           \/ f = [Blank EXCEPT !.kind = "drop", !.msmt = m]
    BY <1>3 DEF MeasurementForms
  <2>2. CASE \E r \in {None} \cup {x \in RunIds : <<x, OwnerOf[m]>> \in links} :
                f = [Blank EXCEPT !.kind = "link", !.msmt = m, !.run = r]
    BY <2>2 DEF FormFits, Forms, Kinds, Blank
  <2>3. CASE f = [Blank EXCEPT !.kind = "drop", !.msmt = m]
    BY <2>3 DEF FormFits, Forms, Kinds, Blank
  <2> QED
    BY <2>1, <2>2, <2>3
<1>4. CASE f \in DeviceForms
  <2>1. PICK c \in clients :
           f = [kind |-> "device", run |-> None, dut |-> None, clients |-> {c}, start |-> None,
                stop |-> None, msmt |-> None, entry |-> "plain"]
    BY <1>4 DEF DeviceForms, Blank
  <2> QED
    BY <1>0, <2>1 DEF FormFits, Forms, Kinds
<1>5. CASE f \in DutForms
  <2>1. \/ \E e \in {"plain", "address", "invalid"} : f = [Blank EXCEPT !.kind = "addDut", !.entry = e]
        \/ \E d \in DutIds : \/ \E e \in {"plain", "address", "invalid"} :
                                   f = [Blank EXCEPT !.kind = "updateDut", !.dut = d, !.entry = e]
                             \/ f = [Blank EXCEPT !.kind = "deleteDut", !.dut = d]
    <3>1. CASE f \in {[Blank EXCEPT !.kind = "addDut", !.entry = e] : e \in {"plain", "address", "invalid"}}
      BY <3>1
    <3>2. CASE \E d \in {x \in DutIds : Stored(x)} :
                  f \in {[Blank EXCEPT !.kind = "updateDut", !.dut = d, !.entry = e] :
                            e \in {"plain", "address", "invalid"}}
                       \cup {[Blank EXCEPT !.kind = "deleteDut", !.dut = d]}
      BY <3>2
    <3> QED
      BY <1>5, <3>1, <3>2 DEF DutForms
  <2>2. CASE \E e \in {"plain", "address", "invalid"} : f = [Blank EXCEPT !.kind = "addDut", !.entry = e]
    BY <2>2 DEF FormFits, Forms, Kinds, Blank
  <2>3. CASE \E d \in DutIds, e \in {"plain", "address", "invalid"} :
                f = [Blank EXCEPT !.kind = "updateDut", !.dut = d, !.entry = e]
    BY <2>3 DEF FormFits, Forms, Kinds, Blank
  <2>4. CASE \E d \in DutIds : f = [Blank EXCEPT !.kind = "deleteDut", !.dut = d]
    BY <2>4 DEF FormFits, Forms, Kinds, Blank
  <2> QED
    BY <2>1, <2>2, <2>3, <2>4
<1> QED
  BY <1>1, <1>2, <1>3, <1>4, <1>5

LEMMA SendIInv == ASSUME IInv, NEW t \in Threads, Send(t) PROVE IInv'
<1>0. /\ TypeOK /\ RoomHolds /\ RunsNumbered /\ ReferencesHold /\ pc[t] \in {"idle"} \cup Ended
      /\ UNCHANGED <<tables, now, locked, todo, histvars>> /\ served' = served + 1
  BY DEF IInv, Send
<1>1. PICK f \in NewRunForms \cup RunForms \cup MeasurementForms \cup DeviceForms \cup DutForms :
         HasRoom(f) /\ form' = [form EXCEPT ![t] = f]
  BY DEF Send
<1>2. FormFits(f) /\ (f.kind = "add" => f.run = None)
  BY <1>0, SentFits
<1>3. /\ pc' \in [Threads -> Places] /\ pc'[t] = "sent"
      /\ \A u \in Threads \ {t} : pc'[u] = pc[u]
  BY <1>0, Moves DEF Send, Places
<1>4. /\ form'[t] = f /\ \A u \in Threads \ {t} : form'[u] = form[u]
      /\ form' \in [Threads -> Forms \cup {None}]
  BY <1>0, <1>1, <1>2 DEF TypeOK, FormFits
<1>5. TypeOK'
  BY <1>0, <1>3, <1>4 DEF TypeOK, Places, tables, histvars
<1>6. RoomHolds'
  <2>1. CASE f.kind = "add"
    <3>1. Pending("add")' = Pending("add") \cup {t} /\ t \notin Pending("add")
      BY <1>0, <1>3, <1>4, <2>1 DEF Pending, Ended
    <3>2. Cardinality(Pending("add")') = Cardinality(Pending("add")) + 1
      BY <3>1, PendingTypes, FS_AddElement
    <3> QED
      BY <1>0, <1>1, <2>1, <3>2, PendingTypes, BoundsAssumption DEF RoomHolds, HasRoom, RunIds, tables
  <2>2. CASE f.kind # "add"
    <3>1. Pending("add")' \subseteq Pending("add")
      BY <1>3, <1>4, <2>2 DEF Pending
    <3> QED
      BY <1>0, <3>1, RoomKept DEF tables
  <2> QED
    BY <2>1, <2>2
<1>7. RunsNumbered' /\ ReferencesHold' /\ OpenRunsDisjointUnlessRaced'
  BY <1>0 DEF IInv, RunsNumbered, ReferencesHold, OpenRunsDisjointUnlessRaced, OpenOfOneClient,
     Exists, ClientsOf, Stored, tables, histvars
<1>8. RequestFits(t)'
  <2>1. FormFits(form[t])'
    BY <1>0, <1>2, <1>4 DEF FormFits, tables
  <2>2. PlaceFits(t)'
    BY <1>2, <1>3, <1>4 DEF PlaceFits, At, Of
  <2> QED
    BY <1>3, <2>1, <2>2, NothingSeen DEF RequestFits
<1>9. ASSUME NEW u \in Threads \ {t} PROVE RowHeld(u)' /\ ConflictsSeen(u)' /\ LinkSeen(u)'
  <2>1. RequestFits(u) /\ pc'[u] = pc[u] /\ form'[u] = form[u] /\ (Checking(u)' => Checking(u))
    BY <1>0, <1>3, <1>4 DEF IInv, Checking, histvars
  <2>2. NothingOpened
    BY <1>0 DEF NothingOpened, Exists, tables
  <2> QED
    BY <1>0, <2>1, <2>2, RowHeldKept, ConflictsKept, LinkKept DEF RequestFits, Exists, Stored, tables
<1>10. nextRun \in Nat /\ nextRun' \in Nat /\ nextRun <= nextRun'
  BY <1>0 DEF TypeOK, tables
<1> QED
  BY <1>3, <1>4, <1>5, <1>6, <1>7, <1>8, <1>9, <1>10, Changes

-----------------------------------------------------------------------------
(* The theorems.                                                            *)

LEMMA InitIInv == Init => IInv
<1> SUFFICES ASSUME Init PROVE IInv
  OBVIOUS
<1>1. 1 \in RunIds /\ 1 \in DutIds /\ 0 \in Times /\ None # 0
  BY BoundsAssumption, NoneAssumption DEF RunIds, DutIds, Times
<1>2. runs \in [RunIds -> Runs \cup {None}] /\ links \subseteq LinkRows
  BY <1>1 DEF Init, Runs, LinkRows
<1>3. TypeOK
  BY <1>1, <1>2 DEF Init, TypeOK
<1>4. RoomHolds
  <2>1. Pending("add") = {}
    BY DEF Pending, Init
  <2>2. nextRun \in {1, 2}
    BY DEF Init
  <2> QED
    BY <2>1, <2>2, FS_EmptySet, BoundsAssumption DEF RoomHolds
<1>5. /\ RunsNumbered /\ OpenRunsDisjointUnlessRaced
      /\ \A l \in links : Exists(l[1])
      /\ \A r \in RunIds : Exists(r) => r = 1 /\ runs[r].dut = 1
  <2>1. CASE nextRun = 1 /\ runs = [r \in RunIds |-> None] /\ links = {}
    BY <2>1 DEF RunsNumbered, OpenRunsDisjointUnlessRaced, OpenOfOneClient, Exists
  <2>2. CASE /\ nextRun = 2
             /\ runs = [r \in RunIds |->
                          IF r = 1 THEN [dut |-> 1, start |-> 0, stop |-> None] ELSE None]
             /\ links \in SUBSET ({1} \X Clients)
    <3>1. [dut |-> 1, start |-> 0, stop |-> None] # None
      BY <1>1, RowsAssumption DEF Runs
    <3> QED
      BY <1>1, <2>2, <3>1 DEF RunsNumbered, OpenRunsDisjointUnlessRaced, OpenOfOneClient, Exists
  <2> QED
    BY <2>1, <2>2 DEF Init
<1>6. ReferencesHold
  BY <1>1, <1>2, <1>5, AbsentAssumption DEF ReferencesHold, Stored, Init, LinkRows
<1>7. \A t \in Threads : RequestFits(t)
  BY DEF RequestFits, Serving, PlaceFits, RowHeld, ConflictsSeen, LinkSeen, Checking, At, Init
<1> QED
  BY <1>3, <1>4, <1>5, <1>6, <1>7 DEF IInv

LEMMA ServeIInv == ASSUME IInv, NEW t \in Threads, Serve(t) PROVE IInv'
<1>1. CASE ValidateRun(t) \/ CheckConflicts(t) \/ InsertRun(t) \/ InsertLinks(t) \/ UpdateRow(t)
           \/ ReplaceLinks(t)
  BY <1>1, ValidateRunIInv, CheckConflictsIInv, InsertRunIInv, InsertLinksIInv, UpdateRowIInv,
     ReplaceLinksIInv
<1>2. CASE ReadStop(t) \/ ReadClients(t) \/ StopClient(t) \/ SetStop(t)
  BY <1>2, ReadStopIInv, ReadClientsIInv, StopClientIInv, SetStopIInv
<1>3. CASE CheckDeletable(t) \/ DeleteLinks(t) \/ DeleteRow(t) \/ EmptyDevice(t)
           \/ PurgeDevice(t) \/ DeleteDevice(t) \/ DeleteMeasurement(t)
  BY <1>3, CheckDeletableIInv, DeleteLinksIInv, DeleteRowIInv, EmptyDeviceIInv, PurgeDeviceIInv, DeleteDeviceIInv,
     DeleteMeasurementIInv
<1>4. CASE CheckLink(t) \/ SetRun(t)
  BY <1>4, CheckLinkIInv, SetRunIInv
<1>5. CASE AddNewDut(t) \/ CheckDut(t) \/ UpdateDut(t) \/ DeleteDut(t)
  BY <1>5, AddNewDutIInv, CheckDutIInv, UpdateDutIInv, DeleteDutIInv
<1>6. CASE BreakDeadlock(t)
  BY <1>6, BreakDeadlockIInv
<1> QED
  BY <1>1, <1>2, <1>3, <1>4, <1>5, <1>6 DEF Serve

LEMMA IInvStep == IInv /\ [Next]_vars => IInv'
<1> SUFFICES ASSUME IInv, [Next]_vars PROVE IInv'
  OBVIOUS
<1>1. CASE \E t \in Threads : Send(t) \/ Serve(t)
  BY <1>1, SendIInv, ServeIInv
<1>2. CASE \E m \in Msmts : NewMeasurement(m)
  BY <1>2, NewMeasurementIInv
<1>3. CASE \E c \in Clients : Register(c)
  BY <1>3, RegisterIInv
<1>4. CASE Tick
  BY <1>4, TickIInv
<1>5. CASE UNCHANGED vars
  BY <1>5, Surroundings DEF vars, reqvars, histvars, IInv, TypeOK, ReferencesHold
<1> QED
  BY <1>1, <1>2, <1>3, <1>4, <1>5 DEF Next

LEMMA Invariance == Spec => []IInv
  BY InitIInv, IInvStep, PTL DEF Spec

\* The tables and the requests in progress keep their types: no page lets its
\* user send what the handlers cannot store.
THEOREM TypeCorrect == Spec => []TypeOK
<1>1. IInv => TypeOK
  BY DEF IInv
<1> QED
  BY <1>1, Invariance, PTL

\* Runs, links, measurements, clients and devices under test refer to rows that
\* exist, whatever is deleted in between the steps of a request: updateRun's lock
\* on its run (src/server/management/app.py:742) keeps deleteDut away.
THEOREM ReferencesAlwaysHold == Spec => []ReferencesHold
<1>1. IInv => ReferencesHold
  BY DEF IInv
<1> QED
  BY <1>1, Invariance, PTL

\* Two unfinished runs of one client come from requests that others overtook in
\* between the check and the commit (src/server/management/app.py:645), and from
\* nothing else.
THEOREM OnlyRacesOpenTwoRuns == Spec => []OpenRunsDisjointUnlessRaced
<1>1. IInv => OpenRunsDisjointUnlessRaced
  BY DEF IInv
<1> QED
  BY <1>1, Invariance, PTL

\* updateMeasurement and putMeasurement put a measurement into a run of its
\* client only, as far as the links stay while updateMeasurement is at work
\* (src/server/management/app.py:476).
LEMMA OwnRunStep == IInv /\ [Next]_vars => [PutIntoOwnRun]_vars
<1> SUFFICES ASSUME IInv, Next, NEW m \in Msmts, msmtRun'[m] \in RunIds \ {msmtRun[m]}
             PROVE  \/ <<msmtRun'[m], OwnerOf[m]>> \in links
                    \/ \E t \in Threads : At(t, "checked") /\ form[t].msmt = m /\ dirty[t]
  BY DEF PutIntoOwnRun, vars
<1>0. TypeOK
  BY DEF IInv
<1>1. CASE \E t \in Threads : SetRun(t)
  <2>1. PICK t \in Threads : SetRun(t)
    BY <1>1
  <2>2. form[t].msmt = m /\ form[t].run = msmtRun'[m] /\ At(t, "checked") /\ Of(t, "link")
    BY <1>0, <2>1 DEF SetRun, TypeOK
  <2>3. LinkSeen(t)
    BY DEF IInv, RequestFits
  <2> QED
    BY <2>2, <2>3, NoneAssumption DEF LinkSeen, Checking, At
<1>2. CASE \E x \in Msmts : NewMeasurement(x)
  BY <1>0, <1>2, NewMeasurementRun, NoneAssumption DEF TypeOK
<1>3. CASE \E t \in Threads : DeleteDevice(t) \/ DeleteMeasurement(t)
  BY <1>0, <1>3, WithoutTypes, AbsentAssumption DEF DeleteDevice, DeleteMeasurement
<1>4. CASE msmtRun' = msmtRun
  BY <1>4
<1>5. ASSUME NEW t \in Threads, Serve(t)
      PROVE  SetRun(t) \/ DeleteDevice(t) \/ DeleteMeasurement(t) \/ msmtRun' = msmtRun
  BY <1>5 DEF Serve, ValidateRun, CheckConflicts, InsertRun, InsertLinks, UpdateRow, ReplaceLinks,
     ReadStop, ReadClients, StopClient, SetStop, CheckDeletable, DeleteLinks, DeleteRow,
     EmptyDevice, PurgeDevice, CheckLink, AddNewDut, CheckDut, UpdateDut, DeleteDut, BreakDeadlock, tables
<1> QED
  BY <1>1, <1>2, <1>3, <1>4, <1>5 DEF Next, Send, Register, Tick, tables

\* A measurement gets a run of its own client.
THEOREM MeasurementsGetOwnRuns == Spec => RunsOfTheirClient
  BY Invariance, OwnRunStep, PTL DEF Spec, RunsOfTheirClient

LEMMA WholeStep == IInv /\ [Next]_vars => [WholeRequest]_vars
<1> SUFFICES ASSUME IInv, Next, NEW t \in Threads, pc'[t] # pc[t] \/ locked'[t] # locked[t]
             PROVE  pc'[t] \in {"ok", "inserted"} \/ UNCHANGED tables
  BY DEF WholeRequest, vars
<1>0. TypeOK
  BY DEF IInv
<1>1. ASSUME NEW u \in Threads, Ends(u, "ok") PROVE pc'[t] = "ok"
  BY <1>0, <1>1 DEF Ends, Goes, TypeOK
<1>2. ASSUME NEW u \in Threads, Goes(u, "inserted"), locked' = locked PROVE pc'[t] = "inserted"
  BY <1>0, <1>2 DEF Goes, TypeOK
<1>3. ASSUME NEW u \in Threads, Serve(u)
      PROVE  Ends(u, "ok") \/ (Goes(u, "inserted") /\ locked' = locked) \/ UNCHANGED tables
  <2>1. CASE InsertRun(u) \/ InsertLinks(u) \/ ReplaceLinks(u)
    BY <2>1 DEF InsertRun, InsertLinks, ReplaceLinks, tables
  <2>2. CASE SetStop(u) \/ DeleteRow(u) \/ DeleteDevice(u)
    BY <2>2 DEF SetStop, DeleteRow, DeleteDevice, tables
  <2>3. CASE DeleteMeasurement(u)
    <3>1. form[u].msmt \in Msmts /\ links \subseteq LinkRows
      BY <1>0, <2>3, ServedFits DEF DeleteMeasurement, FormFits, At, Of, Ended, TypeOK
    <3>2. msmtRun[form[u].msmt] = Absent => links' = links /\ msmtRun' = msmtRun
      BY <1>0, <2>3, <3>1, MsmtsAssumption DEF DeleteMeasurement, Without, TypeOK
    <3> QED
      BY <2>3, <3>2 DEF DeleteMeasurement, tables
  <2>4. CASE SetRun(u) \/ AddNewDut(u) \/ UpdateDut(u) \/ DeleteDut(u)
    BY <2>4 DEF SetRun, AddNewDut, UpdateDut, DeleteDut, tables
  <2>5. CASE \/ ValidateRun(u) \/ CheckConflicts(u) \/ UpdateRow(u) \/ ReadStop(u) \/ ReadClients(u)
             \/ StopClient(u) \/ CheckDeletable(u) \/ DeleteLinks(u) \/ EmptyDevice(u)
             \/ PurgeDevice(u) \/ CheckLink(u) \/ CheckDut(u) \/ BreakDeadlock(u)
    BY <2>5 DEF ValidateRun, CheckConflicts, UpdateRow, ReadStop, ReadClients, StopClient,
       CheckDeletable, DeleteLinks, EmptyDevice, PurgeDevice, CheckLink, CheckDut, BreakDeadlock
  <2> QED
    BY <1>3, <2>1, <2>2, <2>3, <2>4, <2>5 DEF Serve
<1> QED
  BY <1>1, <1>2, <1>3 DEF Next, Send, NewMeasurement, Register, Tick, reqvars

\* Requests leave no halves behind.
THEOREM RequestsAreWhole == Spec => AllOrNothing
  BY Invariance, WholeStep, PTL DEF Spec, AllOrNothing

-----------------------------------------------------------------------------
(* Who waits for whom: the safety part of RequestsEnd.  Of requests that    *)
(* wait for each other PostgreSQL ends one (BreakDeadlock).                 *)

Blocked(t) == \E u \in Threads : WaitsFor(t, u)

\* To wait is to find a guard of the statement false.
LEMMA WaitingIsTheGuards ==
  ASSUME NEW t \in Threads
  PROVE  ~Blocked(t) <=>
            /\ RunWanted(t) # None => RunFree(t, RunWanted(t))
            /\ Free(t, RowsWanted(t))
            /\ At(t, "checked") /\ Of(t, "deleteDut") =>
                  \A u \in Threads \ {t} : ~(At(u, "updating") /\ form[u].dut = form[t].dut)
BY DEF Blocked, WaitsFor, RunFree, Free

\* Requests are stuck only if one of them is deleteRun, between its two statements; and only
\* updateRun, deleteRun and deleteDevice, in the middle of their transactions, are ended for it.
DeadlocksAreOfDeletions ==
    \A S \in SUBSET Threads :
        /\ Stuck(S) => \E t \in S : At(t, "unlinking")
        /\ Circle(S) => \A t \in S : pc[t] \in {"updating", "unlinking", "emptied"}

\* Rows are locked by whoever deletes them and by nobody else.
LocksFit(t) ==
    /\ pc[t] \notin {"unlinking", "emptied", "purging"} => locked[t] = {}
    /\ At(t, "emptied") => locked[t] \subseteq Msmts
LocksInv == \A t \in Threads : LocksFit(t)

\* A step of one request.
LEMMA LocksKept ==
  ASSUME LocksInv, NEW t \in Threads,
         \A u \in Threads \ {t} : pc'[u] = pc[u] /\ locked'[u] = locked[u],
         LocksFit(t)'
  PROVE  LocksInv'
BY DEF LocksInv, LocksFit, At

LEMMA EndsLocks ==
  ASSUME TypeOK, LocksInv, NEW t \in Threads, NEW place \in Ended, Ends(t, place)
  PROVE  LocksInv'
<1>1. pc'[t] \in Ended /\ \A u \in Threads \ {t} : pc'[u] = pc[u] /\ locked'[u] = locked[u]
  BY DEF TypeOK, Ends, Goes
<1>2. locked'[t] = {}
  BY DEF TypeOK, Ends
<1> QED
  BY <1>1, <1>2, LocksKept DEF LocksFit, At, Ended

\* It has no locks, and takes none.
LEMMA GoesLocks ==
  ASSUME TypeOK, LocksInv, NEW t \in Threads, pc[t] \notin {"unlinking", "emptied", "purging"},
         NEW place \in Places, Goes(t, place), locked' = locked
  PROVE  LocksInv'
<1>1. pc'[t] = place /\ \A u \in Threads \ {t} : pc'[u] = pc[u]
  BY Moves
<1>2. locked'[t] = {}
  BY DEF LocksInv, LocksFit
<1> QED
  BY <1>1, <1>2, LocksKept DEF LocksFit, At

LEMMA StepsLocks ==
  ASSUME TypeOK, LocksInv, NEW t \in Threads, pc[t] \notin {"unlinking", "emptied", "purging"},
         NEW place \in Places, Steps(t, place)
  PROVE  LocksInv'
BY GoesLocks DEF Steps

LEMMA ChecksLocks ==
  ASSUME TypeOK, LocksInv, NEW t \in Threads,
         \/ ValidateRun(t) \/ CheckConflicts(t) \/ CheckDeletable(t) \/ CheckLink(t)
         \/ CheckDut(t) \/ UpdateRow(t) \/ StopClient(t) \/ ReadClients(t)
  PROVE  LocksInv'
<1> USE DEF At, Places, Ended
<1>1. CASE ValidateRun(t)
  BY <1>1, EndsLocks, StepsLocks DEF ValidateRun
<1>2. CASE CheckConflicts(t)
  BY <1>2, EndsLocks, StepsLocks DEF CheckConflicts
<1>3. CASE CheckDeletable(t)
  BY <1>3, EndsLocks, StepsLocks DEF CheckDeletable
<1>4. CASE CheckLink(t)
  BY <1>4, EndsLocks, StepsLocks DEF CheckLink
<1>5. CASE CheckDut(t)
  BY <1>5, EndsLocks, StepsLocks DEF CheckDut
<1>6. CASE StopClient(t)
  BY <1>6 DEF StopClient, LocksInv, LocksFit
<1>7. CASE ReadClients(t)
  BY <1>7, GoesLocks DEF ReadClients
<1>8. CASE UpdateRow(t)
  BY <1>8, EndsLocks, StepsLocks DEF UpdateRow
<1> QED
  BY <1>1, <1>2, <1>3, <1>4, <1>5, <1>6, <1>7, <1>8

\* Steps that end the request or only change the tables and its form.
LEMMA StatementsLocks ==
  ASSUME TypeOK, LocksInv, NEW t \in Threads,
         \/ InsertRun(t) \/ InsertLinks(t) \/ ReplaceLinks(t) \/ ReadStop(t) \/ SetStop(t)
         \/ DeleteRow(t) \/ DeleteDevice(t) \/ DeleteMeasurement(t) \/ SetRun(t)
         \/ AddNewDut(t) \/ UpdateDut(t) \/ DeleteDut(t)
  PROVE  LocksInv'
<1>1. CASE InsertRun(t)
  <2>1. CASE RowAllowed(form[t])
    BY <1>1, <2>1, GoesLocks DEF InsertRun, At, Places
  <2>2. CASE ~RowAllowed(form[t])
    BY <1>1, <2>2, EndsLocks DEF InsertRun, Ended
  <2> QED
    BY <2>1, <2>2
<1>2. CASE ReadStop(t)
  <2>1. CASE Ends(t, "error") \/ Ends(t, "refused")
    BY <2>1, EndsLocks DEF Ended
  <2>2. CASE Goes(t, "reading") /\ UNCHANGED <<locked, todo, served>>
    BY <1>2, <2>2, GoesLocks DEF ReadStop, At, Places
  <2> QED
    BY <1>2, <2>1, <2>2 DEF ReadStop
<1>3. ASSUME InsertLinks(t) \/ ReplaceLinks(t) \/ SetStop(t) \/ DeleteRow(t)
      PROVE  \E place \in Ended : Ends(t, place)
  BY <1>3 DEF InsertLinks, ReplaceLinks, SetStop, DeleteRow, Ended
<1>4. ASSUME DeleteDevice(t) \/ DeleteMeasurement(t) \/ SetRun(t)
      PROVE  \E place \in Ended : Ends(t, place)
  BY <1>4 DEF DeleteDevice, DeleteMeasurement, SetRun, Ended
<1>5. ASSUME AddNewDut(t) \/ UpdateDut(t) \/ DeleteDut(t)
      PROVE  \E place \in Ended : Ends(t, place)
  BY <1>5 DEF AddNewDut, UpdateDut, DeleteDut, Ended
<1> QED
  BY <1>1, <1>2, <1>3, <1>4, <1>5, EndsLocks

\* Steps that take locks.
LEMMA LockingLocks ==
  ASSUME TypeOK, LocksInv, NEW t \in Threads,
         DeleteLinks(t) \/ EmptyDevice(t) \/ PurgeDevice(t)
  PROVE  LocksInv'
<1>1. \A u \in Threads \ {t} : locked'[u] = locked[u]
  BY DEF DeleteLinks, EmptyDevice, PurgeDevice, TypeOK
<1>2. CASE DeleteLinks(t)
  <2>1. pc'[t] = "unlinking" /\ \A u \in Threads \ {t} : pc'[u] = pc[u]
    BY <1>2, Moves DEF DeleteLinks, Places
  <2> QED
    BY <1>1, <2>1, LocksKept DEF LocksFit, At
<1>3. CASE EmptyDevice(t)
  <2>1. pc'[t] = "emptied" /\ \A u \in Threads \ {t} : pc'[u] = pc[u]
    BY <1>3, Moves DEF EmptyDevice, Places
  <2>2. locked'[t] \subseteq Msmts
    BY <1>3 DEF EmptyDevice, TypeOK, MmtsOf
  <2> QED
    BY <1>1, <2>1, <2>2, LocksKept DEF LocksFit, At
<1>4. CASE PurgeDevice(t)
  <2>1. pc'[t] = "purging" /\ \A u \in Threads \ {t} : pc'[u] = pc[u]
    BY <1>4, Moves DEF PurgeDevice, Places
  <2> QED
    BY <1>1, <2>1, LocksKept DEF LocksFit, At
<1> QED
  BY <1>2, <1>3, <1>4

LEMMA SendLocks ==
  ASSUME TypeOK, LocksInv, NEW t \in Threads, Send(t)
  PROVE  LocksInv'
BY GoesLocks DEF Send, Ended, Places

LEMMA LocksStep == TypeOK /\ LocksInv /\ [Next]_vars => LocksInv'
<1> SUFFICES ASSUME TypeOK, LocksInv, [Next]_vars PROVE LocksInv'
  OBVIOUS
<1>1. ASSUME UNCHANGED <<pc, form, locked>> PROVE LocksInv'
  BY <1>1 DEF LocksInv, LocksFit, At
<1>2. ASSUME NEW t \in Threads, Serve(t) PROVE LocksInv'
  <2>1. ASSUME BreakDeadlock(t) PROVE LocksInv'
    BY <2>1, EndsLocks DEF BreakDeadlock, Ended
  <2> QED
    BY <1>2, <2>1, ChecksLocks, StatementsLocks, LockingLocks DEF Serve
<1>3. CASE UNCHANGED vars
  BY <1>1, <1>3 DEF vars
<1>4. ASSUME \/ \E m \in Msmts : NewMeasurement(m)
             \/ \E c \in Clients : Register(c)
             \/ Tick
      PROVE  LocksInv'
  BY <1>1, <1>4 DEF NewMeasurement, Register, Tick, reqvars
<1> QED
  BY <1>2, <1>3, <1>4, SendLocks DEF Next

\* Whoever is waited for is in the middle of an UPDATE or of deletions.
LEMMA Holders ==
  ASSUME LocksInv, NEW t \in Threads, NEW u \in Threads, WaitsFor(t, u)
  PROVE  pc[u] \in {"updating", "unlinking", "emptied", "purging"}
BY DEF LocksInv, LocksFit, WaitsFor, At

\* deleteDevice has all that it needs.
LEMMA PurgingGoesOn ==
  ASSUME NEW u \in Threads, At(u, "purging")
  PROVE  ~Blocked(u)
BY DEF Blocked, WaitsFor, RunWanted, RowsWanted, At

\* Who wants links only waits for deleteRun, or for deleteDevice's last statement.
LEMMA LinksWait ==
  ASSUME TypeOK, LocksInv, NEW t \in Threads, NEW u \in Threads, WaitsFor(t, u),
         pc[t] \in {"updating", "emptied"}
  PROVE  pc[u] \in {"unlinking", "purging"}
<1>1. locked[u] \cap RowsWanted(t) # {}
  BY NoneAssumption DEF WaitsFor, RunWanted, At
<1>2. RowsWanted(t) \subseteq LinkRows
  BY DEF RowsWanted, At, LinksOf, PartsOf, TypeOK
<1>3. ~(locked[u] \subseteq Msmts)
  BY <1>1, <1>2, MsmtsAssumption
<1> QED
  BY <1>3 DEF LocksInv, LocksFit, At

\* What is true of stuck requests.
LEMMA StuckWaits ==
  ASSUME NEW S \in SUBSET Threads, Stuck(S), NEW t \in S
  PROVE  ~At(t, "purging") /\ \E u \in S : WaitsFor(t, u)
<1>1. PICK u \in S : WaitsFor(t, u)
  BY DEF Stuck
<1> QED
  BY <1>1, PurgingGoesOn DEF Blocked

LEMMA StuckHasDeleteRun ==
  ASSUME TypeOK, LocksInv, NEW S \in SUBSET Threads, Stuck(S)
  PROVE  \E t \in S : At(t, "unlinking")
<1>1. PICK t \in S : TRUE
  BY DEF Stuck
<1>2. PICK u \in S : WaitsFor(t, u)
  BY <1>1, StuckWaits
<1>3. pc[u] \in {"updating", "unlinking", "emptied"}
  BY <1>2, Holders, StuckWaits DEF At
<1>4. PICK v \in S : WaitsFor(u, v)
  BY StuckWaits
<1>5. ~At(v, "purging")
  BY StuckWaits
<1> QED
  BY <1>3, <1>4, <1>5, LinksWait DEF At

\* Each request of a circle is waited for by another: the others would do without it.
LEMMA CircleMembers ==
  ASSUME LocksInv, NEW S \in SUBSET Threads, Circle(S), NEW t \in S
  PROVE  pc[t] \in {"updating", "unlinking", "emptied"}
<1>1. Stuck(S) /\ ~At(t, "purging")
  BY StuckWaits DEF Circle
<1>2. PICK v \in S : WaitsFor(t, v)
  BY <1>1, StuckWaits
<1>3. PICK u \in S : WaitsFor(u, t)
  <2> SUFFICES ASSUME \A u \in S : ~WaitsFor(u, t) PROVE FALSE
    OBVIOUS
  <2>1. v \in S \ {t}
    BY <1>2 DEF WaitsFor
  <2>2. \A x \in S \ {t} : \E u \in S \ {t} : WaitsFor(x, u)
    BY <1>1, StuckWaits
  <2>3. Stuck(S \ {t})
    BY <2>1, <2>2 DEF Stuck
  <2> QED
    BY <2>3 DEF Circle
<1> QED
  BY <1>1, <1>3, Holders DEF At

\* However many requests wait for rows that others have locked: without a deleteRun that has
\* deleted its links (src/server/management/app.py:588) some of them goes on, and no request
\* but updateRun, deleteRun and deleteDevice is ever the victim of a deadlock.
THEOREM DeadlocksNeedDeleteRun == Spec => []DeadlocksAreOfDeletions
<1>1. Init => LocksInv
  BY DEF Init, LocksInv, LocksFit, At
<1>2. TypeOK /\ LocksInv => DeadlocksAreOfDeletions
  BY StuckHasDeleteRun, CircleMembers DEF DeadlocksAreOfDeletions
<1> QED
  BY <1>1, <1>2, LocksStep, TypeCorrect, PTL DEF Spec
=============================================================================
