------------------------- MODULE SampleUploadProofs -------------------------
(***************************************************************************)
(* SampleUpload keeps its promises for every set of samples, measurements  *)
(* and streams, and every number of faults and deletions.                  *)
(***************************************************************************)
EXTENDS SampleUpload, TLAPS

-----------------------------------------------------------------------------
(* The inductive invariant.  UploadedIsKept alone is not inductive: what    *)
(* FinishUpload marks as uploaded are the acks of the stream, and those are *)
(* of stored rows only because the handler acknowledges after its commit.   *)
(* RowsOfTheirMeasurement needs that the ids in a batch, and the cached one, *)
(* are ids that their measurement has or once had: the sequence never hands *)
(* an id out twice.                                                         *)

\* Ids were drawn from the sequence before, and no two measurements share one.
IdsDrawn ==
    /\ \A m \in Measurements : msmtRow[m] < nextId
    /\ \A m1, m2 \in Measurements :
          msmtRow[m1] # 0 /\ msmtRow[m1] = msmtRow[m2] => m1 = m2

\* id is the measurement's or nobody's any more.
IdOf(id, m) ==
    /\ id # 0 /\ id < nextId
    /\ \A n \in Measurements : msmtRow[n] = id => n = m

CachedIds ==
    \A u \in Streams :
        /\ server[u].msmt # None => IdOf(server[u].id, server[u].msmt)
        /\ \A r \in server[u].batch : IdOf(r[2], MsmtOf[r[1]])

RowsFounded ==
    /\ RowsOfTheirMeasurement
    /\ \A r \in rows : r[2] # 0

\* An ack, read or not, is of a sample that the server stored.
AcksAreOfStored ==
    \A u \in Streams : acks[u] \cup client[u].acked \subseteq Held \cup erased

\* Only recorded samples travel.
OnlyRecordedTravel ==
    /\ \A u \in Streams : client[u].toSend \subseteq recorded
    /\ \A u \in Streams : \A r \in server[u].batch : r[1] \in recorded

IInv == /\ TypeOK
        /\ IdsDrawn
        /\ CachedIds
        /\ RowsFounded
        /\ AcksAreOfStored
        /\ UploadedIsKept
        /\ OnlyRecordedTravel

-----------------------------------------------------------------------------
(* Type correctness.                                                        *)

LEMMA IdleTypes == IdleClient \in ClientHalf /\ IdleServer \in ServerHalf
  BY DEF IdleClient, IdleServer, ClientHalf, ServerHalf

LEMMA InitTypeOK == Init => TypeOK
<1> SUFFICES ASSUME Init PROVE TypeOK
  OBVIOUS
<1>1. client \in [Streams -> ClientHalf] /\ server \in [Streams -> ServerHalf]
  BY IdleTypes DEF Init
<1>2. acks \in [Streams -> SUBSET Samples]
  BY DEF Init
<1>3. link \in [Streams -> {"up", "closed", "down"}] /\ msmtRow \in [Measurements -> Nat]
  BY DEF Init
<1>4. /\ measuring \in BOOLEAN /\ sampling \in BOOLEAN
      /\ doLastUpload \in BOOLEAN /\ idling \in BOOLEAN
  BY Zenon DEF Init
<1> QED
  BY <1>1, <1>2, <1>3, <1>4 DEF Init, TypeOK, DefaultInterval

LEMMA OpenStreamTypeOK ==
  ASSUME TypeOK, NEW u \in Streams, NEW S \in SUBSET Samples, OpenStream(u, S)
  PROVE  TypeOK'
<1>1. [pc |-> "sending", toSend |-> S, acked |-> {}] \in ClientHalf
  BY DEF ClientHalf
<1>2. [IdleServer EXCEPT !.pc = "reading"] \in ServerHalf
  BY DEF IdleServer, ServerHalf
<1> QED
  BY <1>1, <1>2 DEF TypeOK, OpenStream, cvars, dbvars

LEMMA AbortReaderType ==
  ASSUME TypeOK, NEW u \in Streams
  PROVE  AbortReader(u) \in ServerHalf
  BY IdleTypes DEF TypeOK, AbortReader

LEMMA SendSampleTypeOK ==
  ASSUME TypeOK, NEW u \in Streams, NEW s \in Samples, SendSample(u, s)
  PROVE  TypeOK'
<1>1. MsmtOf[s] \in Measurements
  BY MsmtOfAssumption
<1>2. server[u] \in ServerHalf /\ client[u] \in ClientHalf
  BY DEF TypeOK
<1>3. LookUpId(u, s) \in Nat
  BY <1>1, <1>2 DEF TypeOK, LookUpId, ServerHalf
<1>4. msmtRow' \in [Measurements -> Nat] /\ nextId' \in Nat \ {0}
  BY <1>1 DEF TypeOK, SendSample
<1>5. [server[u] EXCEPT !.msmt = MsmtOf[s], !.id = LookUpId(u, s),
                        !.batch = @ \cup {<<s, LookUpId(u, s)>>}] \in ServerHalf
  <2>1. server[u].batch \cup {<<s, LookUpId(u, s)>>} \in SUBSET (Samples \X Nat)
    BY <1>2, <1>3 DEF ServerHalf
  <2> QED
    BY <1>1, <1>2, <1>3, <2>1 DEF ServerHalf
<1>6. server' \in [Streams -> ServerHalf]
  BY <1>5 DEF TypeOK, SendSample
<1>7. [client[u] EXCEPT !.toSend = @ \ {s}] \in ClientHalf
  BY <1>2 DEF ClientHalf
<1>8. client' \in [Streams -> ClientHalf]
  BY <1>7 DEF TypeOK, SendSample
<1> QED
  BY <1>4, <1>6, <1>8 DEF TypeOK, SendSample, cvars, dbvars

LEMMA StepTypeOK == TypeOK /\ [Next]_vars => TypeOK'
<1> SUFFICES ASSUME TypeOK, [Next]_vars PROVE TypeOK'
    OBVIOUS
<1> USE DEF cvars, dbvars
<1>1. CASE \/ StartMeasurement \/ StopMeasurement \/ PinpointStarts \/ PinpointStops
          \/ ThreadIdles \/ ThreadAwakes \/ \E i \in Intervals : ApplySettings(i)
  BY <1>1, IntervalsAssumption
     DEF TypeOK, StartMeasurement, StopMeasurement, PinpointStarts, PinpointStops,
             ThreadIdles, ThreadAwakes, ApplySettings
<1>2. ASSUME NEW s \in Samples, Record(s) PROVE TypeOK'
  BY <1>2 DEF TypeOK, Record
<1>3. ASSUME NEW u \in ThreadStreams, ThreadUploads(u) PROVE TypeOK'
  BY <1>3, OpenStreamTypeOK DEF TypeOK, ThreadUploads, Unsent, Streams
<1>4. ASSUME NEW u \in RequestStreams, RequestUploads(u) PROVE TypeOK'
  <2>1. PICK S \in {Unsent} \cup {recorded \cap SamplesOf(m) : m \in Measurements} :
            OpenStream(u, S)
    BY <1>4 DEF RequestUploads
  <2>2. S \in SUBSET Samples
    BY <2>1 DEF TypeOK, Unsent
  <2> QED
    BY <2>1, <2>2, OpenStreamTypeOK DEF Streams
<1>5. ASSUME NEW u \in Streams, NEW s \in Samples, SendSample(u, s) PROVE TypeOK'
  BY <1>5, SendSampleTypeOK
<1>6. ASSUME NEW u \in Streams, NEW s \in Samples, ReadAck(u, s) PROVE TypeOK'
  <2>1. [client[u] EXCEPT !.acked = @ \cup {s}] \in ClientHalf
    BY DEF TypeOK, ClientHalf
  <2> QED
    BY <1>6, <2>1 DEF TypeOK, ReadAck
<1>7. ASSUME NEW u \in Streams, EndOfStream(u) PROVE TypeOK'
  <2>1. [client[u] EXCEPT !.pc = "sent"] \in ClientHalf
    BY DEF TypeOK, ClientHalf
  <2>2. [server[u] EXCEPT !.pc = "inserting"] \in ServerHalf
    BY DEF TypeOK, ServerHalf
  <2> QED
    BY <1>7, <2>1, <2>2 DEF TypeOK, EndOfStream
<1>17. ASSUME NEW u \in Streams, WriterFails(u) PROVE TypeOK'
  <2>1. [client[u] EXCEPT !.pc = "sent"] \in ClientHalf
    BY DEF TypeOK, ClientHalf
  <2>2. [server[u] EXCEPT !.pc = "inserting"] \in ServerHalf
    BY DEF TypeOK, ServerHalf
  <2> QED
    BY <1>17, <2>1, <2>2 DEF TypeOK, WriterFails, Fault
<1>8. ASSUME NEW u \in Streams, StoreBatch(u) PROVE TypeOK'
  <2>1. server[u].batch \subseteq Samples \X Nat
    BY DEF TypeOK, ServerHalf
  <2>2. BatchOf(u) \subseteq Samples
    BY <2>1 DEF BatchOf
  <2> QED
    BY <1>8, <2>1, <2>2, IdleTypes DEF TypeOK, StoreBatch
<1>9. ASSUME NEW u \in Streams, RejectBatch(u) PROVE TypeOK'
  BY <1>9, IdleTypes DEF TypeOK, RejectBatch
<1>10. ASSUME NEW u \in Streams, FinishUpload(u) PROVE TypeOK'
  <2>1. client[u].acked \subseteq Samples
    BY DEF TypeOK, ClientHalf
  <2> QED
    BY <1>10, <2>1, IdleTypes DEF TypeOK, FinishUpload, CloseClientHalf
<1>11. ASSUME NEW u \in Streams, BreakLink(u) PROVE TypeOK'
  BY <1>11, AbortReaderType DEF TypeOK, BreakLink, Fault
<1>12. ASSUME NEW u \in Streams, AckTransactionFails(u) PROVE TypeOK'
  <2>1. server' \in [Streams -> ServerHalf]
    BY <1>12, AbortReaderType DEF TypeOK, AckTransactionFails
  <2>2. client' \in [Streams -> ClientHalf]
    BY <1>12, IdleTypes DEF TypeOK, AckTransactionFails, CloseClientHalf
  <2>3. doLastUpload' \in BOOLEAN
    BY <1>12, Zenon DEF TypeOK, AckTransactionFails, CloseClientHalf
  <2> QED
    BY <1>12, <2>1, <2>2, <2>3 DEF TypeOK, AckTransactionFails, CloseClientHalf, Fault
<1>13. CASE ClientCrash
  <2>1. server' \in [Streams -> ServerHalf]
    BY <1>13, AbortReaderType DEF TypeOK, ClientCrash
  <2>2. client' \in [Streams -> ClientHalf]
    BY <1>13, IdleTypes DEF TypeOK, ClientCrash
  <2>3. acks' \in [Streams -> SUBSET Samples]
    BY <1>13 DEF TypeOK, ClientCrash
  <2>4. link' \in [Streams -> {"up", "closed", "down"}]
    BY <1>13 DEF TypeOK, ClientCrash
  <2>5. /\ measuring' \in BOOLEAN /\ sampling' \in BOOLEAN
        /\ doLastUpload' \in BOOLEAN /\ idling' \in BOOLEAN
    BY <1>13, Zenon DEF ClientCrash
  <2>6. periodicUploadMinutes' \in Nat
    BY <1>13 DEF ClientCrash, DefaultInterval
  <2> QED
    BY <1>13, <2>1, <2>2, <2>3, <2>4, <2>5, <2>6 DEF TypeOK, ClientCrash, Fault
<1>14. CASE ServerCrash
  BY <1>14, IdleTypes DEF TypeOK, ServerCrash, Fault
<1>15. ASSUME NEW m \in Measurements, DeleteMeasurement(m) PROVE TypeOK'
  BY <1>15 DEF TypeOK, DeleteMeasurement
<1>16. CASE UNCHANGED vars
  BY <1>16 DEF TypeOK, vars
<1> QED
  BY <1>1, <1>2, <1>3, <1>4, <1>5, <1>6, <1>7, <1>8, <1>9, <1>10, <1>11, <1>12,
     <1>13, <1>14, <1>15, <1>16, <1>17 DEF Next

\* The state is always well typed.
THEOREM TypeCorrect == Spec => []TypeOK
<1>1. Init => TypeOK
  BY InitTypeOK
<1>2. TypeOK /\ [Next]_vars => TypeOK'
  BY StepTypeOK
<1> QED
  BY <1>1, <1>2, PTL DEF Spec

-----------------------------------------------------------------------------
(* The invariant: the initial state, then the steps that only forget.       *)

LEMMA InitIInv == Init => IInv
<1> SUFFICES ASSUME Init PROVE IInv
  OBVIOUS
<1>1. \A u \in Streams : server[u] = IdleServer /\ client[u] = IdleClient /\ acks[u] = {}
  BY DEF Init
<1>2. \A m \in Measurements : msmtRow[m] = 0
  BY DEF Init
<1>3. IdsDrawn
  BY <1>2 DEF Init, IdsDrawn
<1>4. CachedIds
  BY <1>1 DEF CachedIds, IdleServer
<1>5. RowsFounded
  BY DEF Init, RowsFounded, RowsOfTheirMeasurement
<1>6. AcksAreOfStored /\ OnlyRecordedTravel
  BY <1>1 DEF AcksAreOfStored, OnlyRecordedTravel, IdleClient, IdleServer
<1>7. UploadedIsKept
  BY DEF Init, UploadedIsKept
<1> QED
  BY InitTypeOK, <1>3, <1>4, <1>5, <1>6, <1>7 DEF IInv

\* What is true of a step that leaves the server's database alone, forgets
\* what streams know or moves it to the client's database.
ServerForgets(u) ==
    /\ server'[u].batch \subseteq server[u].batch
    /\ \/ server'[u].msmt = None
       \/ server'[u].msmt = server[u].msmt /\ server'[u].id = server[u].id

ClientForgets(u) ==
    /\ acks'[u] \cup client'[u].acked \subseteq acks[u] \cup client[u].acked
    /\ client'[u].toSend \subseteq recorded'

Forgets ==
    /\ UNCHANGED dbvars
    /\ recorded \subseteq recorded'
    /\ \A s \in uploaded' : s \in uploaded \/ \E u \in Streams : s \in client[u].acked
    /\ \A u \in Streams : ServerForgets(u) /\ ClientForgets(u)

LEMMA ForgettingKeepsIInv ==
  ASSUME IInv, TypeOK', Forgets
  PROVE  IInv'
<1> USE DEF dbvars
<1>1. IdsDrawn'
  BY DEF Forgets, IInv, IdsDrawn
<1>2. CachedIds'
  <2>1. ASSUME NEW i, NEW m, IdOf(i, m) PROVE IdOf(i, m)'
    BY <2>1 DEF Forgets, IdOf
  <2> QED
    BY <2>1 DEF Forgets, ServerForgets, IInv, CachedIds
<1>3. RowsFounded'
  BY DEF Forgets, IInv, RowsFounded, RowsOfTheirMeasurement
<1>4. AcksAreOfStored'
  BY DEF Forgets, ClientForgets, IInv, AcksAreOfStored, Held
<1>5. UploadedIsKept'
  BY DEF Forgets, IInv, UploadedIsKept, AcksAreOfStored, Held
<1>6. OnlyRecordedTravel'
  BY DEF Forgets, ServerForgets, ClientForgets, IInv, OnlyRecordedTravel
<1> QED
  BY <1>1, <1>2, <1>3, <1>4, <1>5, <1>6 DEF IInv

-----------------------------------------------------------------------------
(* The three steps that change the server's database.                       *)

LEMMA SendSampleBatches ==
  ASSUME TypeOK, NEW u \in Streams, NEW s \in Samples, SendSample(u, s),
         NEW v \in Streams
  PROVE  /\ server[v].id \in Nat
         /\ \A r \in server[v].batch : r[2] \in Nat
         /\ \/ server'[v] = server[v]
            \/ /\ server'[v].msmt = MsmtOf[s] /\ server'[v].id = LookUpId(u, s)
               /\ server'[v].batch = server[v].batch \cup {<<s, LookUpId(u, s)>>}
  BY DEF SendSample, TypeOK, ServerHalf

LEMMA SendSampleIInv ==
  ASSUME IInv, TypeOK', NEW u \in Streams, NEW s \in Samples, SendSample(u, s)
  PROVE  IInv'
<1> DEFINE m == MsmtOf[s]
<1>1. m \in Measurements /\ m # None
  BY MsmtOfAssumption, NoneAssumption
<1>2. TypeOK /\ server[u] \in ServerHalf /\ client[u] \in ClientHalf
  BY DEF IInv, TypeOK
<1>3. PICK id \in Nat : id = LookUpId(u, s)
  BY <1>1, <1>2 DEF LookUpId, TypeOK, ServerHalf
<1>4. ASSUME Insertion(u, s) PROVE IdsDrawn' /\ RowsFounded' /\ IdOf(id, m)'
  <2>1. /\ msmtRow[m] = 0 /\ id = nextId
        /\ msmtRow' = [msmtRow EXCEPT ![m] = nextId] /\ nextId' = nextId + 1
    BY <1>3, <1>4 DEF SendSample, Insertion, LookUpId
  <2>2. IdsDrawn'
    BY <1>1, <1>2, <2>1 DEF IInv, IdsDrawn, TypeOK
  <2>3. IdOf(id, m)'
    BY <1>1, <1>2, <2>1 DEF IInv, IdsDrawn, IdOf, TypeOK
  <2>4. RowsFounded'
    BY <1>1, <1>2, <2>1, MsmtOfAssumption
       DEF SendSample, IInv, RowsFounded, RowsOfTheirMeasurement, TypeOK
  <2> QED
    BY <2>1, <2>2, <2>3, <2>4
<1>5. ASSUME ~Insertion(u, s) PROVE IdsDrawn' /\ RowsFounded' /\ IdOf(id, m)'
  <2>1. UNCHANGED <<msmtRow, nextId>>
    BY <1>5 DEF SendSample
  <2>2. IdsDrawn' /\ RowsFounded'
    BY <2>1 DEF SendSample, IInv, IdsDrawn, RowsFounded, RowsOfTheirMeasurement
  <2>3. IdOf(id, m)
    <3>1. CASE CachedId(u, s)
      BY <1>1, <1>3, <3>1 DEF IInv, CachedIds, LookUpId, CachedId
    <3>2. CASE ~CachedId(u, s)
      BY <1>1, <1>2, <1>3, <1>5, <3>2
         DEF IInv, IdsDrawn, IdOf, LookUpId, Insertion, TypeOK
    <3> QED
      BY <3>1, <3>2
  <2>4. IdOf(id, m)'
    BY <2>1, <2>3 DEF IdOf
  <2> QED
    BY <2>1, <2>2, <2>4
<1>6. CachedIds'
  <2>1. ASSUME NEW i \in Nat, NEW n, IdOf(i, n) PROVE IdOf(i, n)'
    <3>1. CASE Insertion(u, s)
      <4>1. /\ msmtRow[m] = 0
            /\ msmtRow' = [msmtRow EXCEPT ![m] = nextId] /\ nextId' = nextId + 1
        BY <3>1 DEF SendSample, Insertion
      <4> QED
        BY <1>1, <1>2, <2>1, <4>1 DEF IdOf, TypeOK
    <3>2. CASE ~Insertion(u, s)
      BY <2>1, <3>2 DEF SendSample, IdOf
    <3> QED
      BY <3>1, <3>2
  <2>2. SUFFICES ASSUME NEW v \in Streams
                 PROVE  /\ server'[v].msmt # None => IdOf(server[v].id, server[v].msmt)'
                        /\ \A r \in server'[v].batch : IdOf(r[2], MsmtOf[r[1]])'
    BY DEF CachedIds
  <2>3. CASE server'[v] = server[v]
    BY <1>2, <2>1, <2>3, SendSampleBatches DEF IInv, CachedIds
  <2>4. CASE server'[v] # server[v]
    <3>1. /\ server'[v].msmt = m /\ server'[v].id = id
          /\ server'[v].batch = server[v].batch \cup {<<s, id>>}
      BY <1>2, <1>3, <2>4, SendSampleBatches
    <3>2. IdOf(server[v].id, server[v].msmt)'
      BY <1>4, <1>5, <3>1
    <3>3. ASSUME NEW r \in server'[v].batch PROVE IdOf(r[2], MsmtOf[r[1]])'
      <4>1. CASE r \in server[v].batch
        BY <1>2, <2>1, <4>1, SendSampleBatches DEF IInv, CachedIds
      <4>2. CASE r = <<s, id>>
        BY <1>4, <1>5, <4>2
      <4> QED
        BY <3>1, <4>1, <4>2
    <3> QED
      BY <3>2, <3>3
  <2> QED
    BY <2>3, <2>4
<1>7. AcksAreOfStored' /\ UploadedIsKept'
  <2>1. \A v \in Streams : client'[v].acked = client[v].acked
    BY <1>2 DEF SendSample, TypeOK, ClientHalf
  <2> QED
    BY <2>1 DEF SendSample, IInv, AcksAreOfStored, UploadedIsKept, Held
<1>8. OnlyRecordedTravel'
  <2>1. \A v \in Streams : client'[v].toSend \subseteq client[v].toSend
    BY <1>2 DEF SendSample, TypeOK, ClientHalf
  <2>2. s \in recorded
    BY DEF SendSample, IInv, OnlyRecordedTravel
  <2>3. \A v \in Streams : \A r \in server'[v].batch : r \in server[v].batch \/ r[1] = s
    BY <1>2 DEF SendSample, TypeOK, ServerHalf
  <2> QED
    BY <2>1, <2>2, <2>3 DEF SendSample, cvars, IInv, OnlyRecordedTravel
<1> QED
  BY <1>4, <1>5, <1>6, <1>7, <1>8 DEF IInv

LEMMA StoreBatchIInv ==
  ASSUME IInv, TypeOK', NEW u \in Streams, StoreBatch(u)
  PROVE  IInv'
<1>1. TypeOK /\ server[u] \in ServerHalf
  BY DEF IInv, TypeOK
<1>2. \A r \in server[u].batch :
         /\ r \in Samples \X Nat
         /\ r[2] # 0 /\ msmtRow[MsmtOf[r[1]]] = r[2]
  BY <1>1 DEF StoreBatch, KnownIds, IInv, CachedIds, IdOf, ServerHalf
<1>3. RowsFounded'
  BY <1>2 DEF StoreBatch, IInv, RowsFounded, RowsOfTheirMeasurement
<1>4. IdsDrawn'
  BY DEF StoreBatch, IInv, IdsDrawn
<1>5. \A v \in Streams : server'[v] = IF v = u THEN IdleServer ELSE server[v]
  BY <1>1 DEF StoreBatch, TypeOK
<1>6. ASSUME NEW i, NEW n, IdOf(i, n) PROVE IdOf(i, n)'
  BY <1>6 DEF IdOf, StoreBatch
<1>7. CachedIds'
  BY <1>5, <1>6 DEF IInv, CachedIds, IdleServer
<1>8. Held' = Held \cup BatchOf(u)
  BY DEF StoreBatch, Held, BatchOf
<1>9. \A v \in Streams : acks'[v] \subseteq acks[v] \cup BatchOf(u)
  BY <1>1 DEF StoreBatch, TypeOK
<1>10. AcksAreOfStored' /\ UploadedIsKept'
  BY <1>8, <1>9 DEF StoreBatch, IInv, AcksAreOfStored, UploadedIsKept
<1>11. OnlyRecordedTravel'
  BY <1>5 DEF StoreBatch, cvars, IInv, OnlyRecordedTravel, IdleServer
<1> QED
  BY <1>3, <1>4, <1>7, <1>10, <1>11 DEF IInv

LEMMA DeleteMeasurementIInv ==
  ASSUME IInv, TypeOK', NEW m \in Measurements, DeleteMeasurement(m)
  PROVE  IInv'
<1>1. TypeOK
  BY DEF IInv
<1>2. \A n \in Measurements : msmtRow'[n] = IF n = m THEN 0 ELSE msmtRow[n]
  BY <1>1 DEF DeleteMeasurement, TypeOK
<1>3. IdsDrawn'
  BY <1>1, <1>2 DEF DeleteMeasurement, IInv, IdsDrawn, TypeOK
<1>4. ASSUME NEW i, NEW n, IdOf(i, n) PROVE IdOf(i, n)'
  BY <1>2, <1>4 DEF IdOf, DeleteMeasurement
<1>5. CachedIds'
  BY <1>4 DEF DeleteMeasurement, IInv, CachedIds
<1>6. \A r \in rows' : r \in rows /\ r[2] # msmtRow[m]
  BY DEF DeleteMeasurement
<1>7. RowsFounded'
  <2>1. \A r \in rows : MsmtOf[r[1]] \in Measurements
    BY <1>1, MsmtOfAssumption DEF TypeOK
  <2> QED
    BY <1>2, <1>6, <2>1 DEF IInv, RowsFounded, RowsOfTheirMeasurement
<1>8. Held \cup erased \subseteq Held' \cup erased'
  BY DEF DeleteMeasurement, Held
<1>9. AcksAreOfStored' /\ UploadedIsKept'
  BY <1>8 DEF DeleteMeasurement, IInv, AcksAreOfStored, UploadedIsKept
<1>10. OnlyRecordedTravel'
  BY DEF DeleteMeasurement, cvars, IInv, OnlyRecordedTravel
<1> QED
  BY <1>3, <1>5, <1>7, <1>9, <1>10 DEF IInv

-----------------------------------------------------------------------------
(* The other steps only forget.                                             *)

LEMMA OpenStreamForgets ==
  ASSUME IInv, NEW u \in Streams, NEW S \in SUBSET recorded, OpenStream(u, S)
  PROVE  Forgets
<1>1. TypeOK
  BY DEF IInv
<1>2. ASSUME NEW v \in Streams PROVE ServerForgets(v)
  BY <1>1 DEF OpenStream, ServerForgets, IdleServer, TypeOK
<1>3. ASSUME NEW v \in Streams PROVE ClientForgets(v)
  BY <1>1 DEF OpenStream, cvars, ClientForgets, TypeOK, IInv, OnlyRecordedTravel
<1> QED
  BY <1>2, <1>3 DEF OpenStream, cvars, Forgets

LEMMA AbortReaderForgets ==
  ASSUME NEW u \in Streams, server'[u] \in {server[u], IdleServer, AbortReader(u)}
  PROVE  ServerForgets(u)
  BY DEF ServerForgets, AbortReader, IdleServer

LEMMA StepIInv == IInv /\ [Next]_vars => IInv'
<1> SUFFICES ASSUME IInv, [Next]_vars PROVE IInv'
  OBVIOUS
<1> USE DEF cvars, dbvars
<1>1. TypeOK /\ TypeOK'
  BY StepTypeOK DEF IInv
<1>2. /\ \A u \in Streams : client[u] \in ClientHalf /\ server[u] \in ServerHalf
      /\ \A u \in Streams : client[u].toSend \subseteq recorded
  BY <1>1 DEF TypeOK, IInv, OnlyRecordedTravel
<1>3. Forgets => IInv'
  BY <1>1, ForgettingKeepsIInv
<1>4. CASE \/ StartMeasurement \/ StopMeasurement \/ PinpointStarts \/ PinpointStops
          \/ ThreadIdles \/ ThreadAwakes \/ \E i \in Intervals : ApplySettings(i)
  <2>1. UNCHANGED <<recorded, uploaded, client, server, acks, dbvars>>
    BY <1>4 DEF StartMeasurement, StopMeasurement, PinpointStarts, PinpointStops,
               ThreadIdles, ThreadAwakes, ApplySettings
  <2> QED
    BY <1>2, <1>3, <2>1 DEF Forgets, ServerForgets, ClientForgets
<1>5. ASSUME NEW s \in Samples, Record(s) PROVE IInv'
  BY <1>2, <1>3, <1>5 DEF Record, Forgets, ServerForgets, ClientForgets
<1>6. ASSUME NEW u \in ThreadStreams, ThreadUploads(u) PROVE IInv'
  BY <1>3, <1>6, OpenStreamForgets DEF ThreadUploads, Unsent, Streams
<1>7. ASSUME NEW u \in RequestStreams, RequestUploads(u) PROVE IInv'
  <2>1. PICK S \in {Unsent} \cup {recorded \cap SamplesOf(m) : m \in Measurements} :
            OpenStream(u, S)
    BY <1>7 DEF RequestUploads
  <2>2. S \in SUBSET recorded
    BY <2>1 DEF Unsent
  <2> QED
    BY <1>3, <2>1, <2>2, OpenStreamForgets DEF Streams
<1>8. ASSUME NEW u \in Streams, NEW s \in Samples, SendSample(u, s) PROVE IInv'
  BY <1>1, <1>8, SendSampleIInv
<1>9. ASSUME NEW u \in Streams, NEW s \in Samples, ReadAck(u, s) PROVE IInv'
  <2>1. ASSUME NEW v \in Streams PROVE ClientForgets(v)
    BY <1>1, <1>2, <1>9 DEF ReadAck, ClientForgets, TypeOK, ClientHalf
  <2> QED
    BY <1>3, <1>9, <2>1 DEF ReadAck, Forgets, ServerForgets
<1>10. ASSUME NEW u \in Streams, EndOfStream(u) PROVE IInv'
  <2>1. ASSUME NEW v \in Streams PROVE ClientForgets(v) /\ ServerForgets(v)
    BY <1>1, <1>2, <1>10
       DEF EndOfStream, ClientForgets, ServerForgets, TypeOK, ClientHalf, ServerHalf
  <2> QED
    BY <1>3, <1>10, <2>1 DEF EndOfStream, Forgets
<1>20. ASSUME NEW u \in Streams, WriterFails(u) PROVE IInv'
  <2>1. ASSUME NEW v \in Streams PROVE ClientForgets(v) /\ ServerForgets(v)
    BY <1>1, <1>2, <1>20
       DEF WriterFails, ClientForgets, ServerForgets, TypeOK, ClientHalf, ServerHalf
  <2> QED
    BY <1>3, <1>20, <2>1 DEF WriterFails, Forgets
<1>11. ASSUME NEW u \in Streams, StoreBatch(u) PROVE IInv'
  BY <1>1, <1>11, StoreBatchIInv
<1>12. ASSUME NEW u \in Streams, RejectBatch(u) PROVE IInv'
  <2>1. ASSUME NEW v \in Streams PROVE ClientForgets(v) /\ ServerForgets(v)
    BY <1>1, <1>2, <1>12, AbortReaderForgets DEF RejectBatch, ClientForgets, TypeOK
  <2> QED
    BY <1>3, <1>12, <2>1 DEF RejectBatch, Forgets
<1>13. ASSUME NEW u \in Streams, FinishUpload(u) PROVE IInv'
  <2>1. ASSUME NEW v \in Streams PROVE ClientForgets(v) /\ ServerForgets(v)
    BY <1>1, <1>2, <1>13
       DEF FinishUpload, CloseClientHalf, ClientForgets, ServerForgets, IdleClient, TypeOK
  <2> QED
    BY <1>3, <1>13, <2>1 DEF FinishUpload, Forgets
<1>14. ASSUME NEW u \in Streams, BreakLink(u) PROVE IInv'
  <2>1. ASSUME NEW v \in Streams PROVE ClientForgets(v) /\ ServerForgets(v)
    BY <1>1, <1>2, <1>14, AbortReaderForgets DEF BreakLink, ClientForgets, TypeOK
  <2> QED
    BY <1>3, <1>14, <2>1 DEF BreakLink, Forgets
<1>15. ASSUME NEW u \in Streams, AckTransactionFails(u) PROVE IInv'
  <2>1. ASSUME NEW v \in Streams PROVE ClientForgets(v) /\ ServerForgets(v)
    BY <1>1, <1>2, <1>15, AbortReaderForgets
       DEF AckTransactionFails, CloseClientHalf, ClientForgets, IdleClient, TypeOK
  <2> QED
    BY <1>3, <1>15, <2>1 DEF AckTransactionFails, Forgets
<1>16. CASE ClientCrash
  <2>1. ASSUME NEW v \in Streams PROVE ClientForgets(v) /\ ServerForgets(v)
    BY <1>16, AbortReaderForgets DEF ClientCrash, ClientForgets, IdleClient
  <2> QED
    BY <1>3, <1>16, <2>1 DEF ClientCrash, Forgets
<1>17. CASE ServerCrash
  <2>1. ASSUME NEW v \in Streams PROVE ClientForgets(v) /\ ServerForgets(v)
    BY <1>2, <1>17, AbortReaderForgets DEF ServerCrash, ClientForgets
  <2> QED
    BY <1>3, <1>17, <2>1 DEF ServerCrash, Forgets
<1>18. ASSUME NEW m \in Measurements, DeleteMeasurement(m) PROVE IInv'
  BY <1>1, <1>18, DeleteMeasurementIInv
<1>19. CASE UNCHANGED vars
  BY <1>2, <1>3, <1>19 DEF vars, Forgets, ServerForgets, ClientForgets
<1> QED
  BY <1>4, <1>5, <1>6, <1>7, <1>8, <1>9, <1>10, <1>11, <1>12, <1>13, <1>14, <1>15,
     <1>16, <1>17, <1>18, <1>19, <1>20 DEF Next

LEMMA InductiveInvariant == Spec => []IInv
<1>1. Init => IInv
  BY InitIInv
<1>2. IInv /\ [Next]_vars => IInv'
  BY StepIInv
<1> QED
  BY <1>1, <1>2, PTL DEF Spec

-----------------------------------------------------------------------------
(* The safety properties.                                                   *)

\* What the client takes for uploaded is in the server's database, or was
\* deleted there by the user: no crash, broken stream or concurrent upload
\* makes the client forget a sample that the server has not stored.
THEOREM UploadedIsAlwaysKept == Spec => []UploadedIsKept
<1>1. IInv => UploadedIsKept
  BY DEF IInv
<1> QED
  BY <1>1, InductiveInvariant, PTL

\* Every row of the server belongs to the measurement its sample was taken
\* in, under the id that this measurement has now.
THEOREM RowsAlwaysOfTheirMeasurement == Spec => []RowsOfTheirMeasurement
<1>1. IInv => RowsOfTheirMeasurement
  BY DEF IInv, RowsFounded
<1> QED
  BY <1>1, InductiveInvariant, PTL

\* A sample sent any number of times, on any number of streams, has one row.
THEOREM AlwaysOneRowPerSample == Spec => []OneRowPerSample
<1>1. IInv => OneRowPerSample
  <2> SUFFICES ASSUME IInv, NEW r1 \in rows, NEW r2 \in rows, r1[1] = r2[1]
               PROVE  r1 = r2
    BY DEF OneRowPerSample
  <2>1. r1 \in Samples \X Nat /\ r2 \in Samples \X Nat
    BY DEF IInv, TypeOK
  <2>2. r1[2] = r2[2]
    BY DEF IInv, RowsFounded, RowsOfTheirMeasurement
  <2> QED
    BY <2>1, <2>2
<1> QED
  BY <1>1, InductiveInvariant, PTL

-----------------------------------------------------------------------------
(* The refinement.                                                          *)

LEMMA InitRefines == Init => Transfer!TInit
  BY DEF Init, Transfer!TInit, Held

LEMMA StepRefines ==
  ASSUME IInv, [Next]_vars
  PROVE  [Transfer!TNext]_(Transfer!tvars)
<1> USE DEF cvars, dbvars
<1> DEFINE Stutters == UNCHANGED <<recorded, rows, erased, uploaded>>
<1>1. TypeOK
  BY DEF IInv
<1>2. Stutters => UNCHANGED Transfer!tvars
  BY DEF Transfer!tvars, Held
<1>3. ASSUME NEW s \in Samples, Record(s) PROVE Transfer!TNext
  BY <1>3 DEF Record, Held, Transfer!TNext, Transfer!Produce
<1>4. ASSUME NEW u \in Streams, StoreBatch(u) PROVE Transfer!TNext
  <2>1. BatchOf(u) \subseteq recorded
    BY <1>1 DEF BatchOf, IInv, OnlyRecordedTravel
  <2>2. Held' = Held \cup BatchOf(u) /\ UNCHANGED <<recorded, erased, uploaded>>
    BY <1>4 DEF StoreBatch, Held, BatchOf
  <2>3. Transfer!Deliver(BatchOf(u))
    BY <2>1, <2>2 DEF Transfer!Deliver
  <2>4. BatchOf(u) \in SUBSET Samples
    BY <1>1, <2>1 DEF TypeOK
  <2> QED
    BY <2>3, <2>4 DEF Transfer!TNext
<1>5. ASSUME NEW u \in Streams, FinishUpload(u) PROVE Transfer!TNext
  <2>1. client[u].acked \in SUBSET Samples /\ client[u].acked \subseteq Held \cup erased
    BY <1>1 DEF TypeOK, ClientHalf, IInv, AcksAreOfStored
  <2>2. Transfer!Confirm(client[u].acked)
    BY <1>5, <2>1 DEF FinishUpload, Transfer!Confirm, Held
  <2> QED
    BY <2>1, <2>2 DEF Transfer!TNext
<1>6. ASSUME NEW m \in Measurements, DeleteMeasurement(m) PROVE Transfer!TNext
  <2> DEFINE gone == {r \in rows : r[2] = msmtRow[m]}
             S == {r[1] : r \in gone}
  <2>1. rows' = rows \ gone /\ erased' = erased \cup S /\ UNCHANGED <<recorded, uploaded>>
    BY <1>6 DEF DeleteMeasurement
  <2>2. \A r1, r2 \in rows : r1[1] = r2[1] => r1[2] = r2[2]
    BY DEF IInv, RowsFounded, RowsOfTheirMeasurement
  <2>3. Held' = Held \ S
    BY <2>1, <2>2 DEF Held
  <2>4. S \subseteq Held /\ S \in SUBSET Samples
    BY <1>1 DEF Held, TypeOK
  <2>5. Held' \cup erased' = Held \cup erased
    BY <2>1, <2>3, <2>4
  <2>6. Transfer!Erase(S)
    BY <2>1, <2>3, <2>4, <2>5 DEF Transfer!Erase
  <2> QED
    BY <2>4, <2>6 DEF Transfer!TNext
<1>7. CASE \/ StartMeasurement \/ StopMeasurement \/ PinpointStarts \/ PinpointStops
          \/ ThreadIdles \/ ThreadAwakes \/ \E i \in Intervals : ApplySettings(i)
  BY <1>2, <1>7 DEF StartMeasurement, StopMeasurement, PinpointStarts, PinpointStops,
                    ThreadIdles, ThreadAwakes, ApplySettings
<1>8. ASSUME NEW u \in Streams, \E S : OpenStream(u, S) PROVE Stutters
  BY <1>8 DEF OpenStream
<1>9. ASSUME NEW u \in ThreadStreams, ThreadUploads(u) PROVE Stutters
  BY <1>8, <1>9 DEF ThreadUploads, Streams
<1>10. ASSUME NEW u \in RequestStreams, RequestUploads(u) PROVE Stutters
  BY <1>8, <1>10 DEF RequestUploads, Streams
<1>11. ASSUME NEW u \in Streams, NEW s \in Samples, SendSample(u, s) \/ ReadAck(u, s)
       PROVE  Stutters
  BY <1>11 DEF SendSample, ReadAck
<1>12. ASSUME NEW u \in Streams,
              \/ EndOfStream(u) \/ RejectBatch(u) \/ BreakLink(u)
              \/ WriterFails(u) \/ AckTransactionFails(u)
       PROVE  Stutters
  BY <1>12 DEF EndOfStream, RejectBatch, BreakLink, WriterFails, AckTransactionFails
<1>13. CASE ClientCrash \/ ServerCrash
  BY <1>2, <1>13 DEF ClientCrash, ServerCrash
<1>14. CASE UNCHANGED vars
  BY <1>2, <1>14 DEF vars
<1> QED
  BY <1>2, <1>3, <1>4, <1>5, <1>6, <1>7, <1>9, <1>10, <1>11, <1>12, <1>13, <1>14
     DEF Next

\* The upload is a reliable transfer: samples are recorded, delivered (again
\* and again, maybe), confirmed once delivered, and erased by the user only.
THEOREM UploadImplementsTransfer == Spec => ImplementsTransfer
<1>1. Init => Transfer!TInit
  BY InitRefines
<1>2. IInv /\ [Next]_vars => [Transfer!TNext]_(Transfer!tvars)
  BY StepRefines
<1> QED
  BY <1>1, <1>2, InductiveInvariant, PTL DEF Spec, ImplementsTransfer, Transfer!TSpec

-----------------------------------------------------------------------------
(* What an upload has in hand.                                              *)

\* The samples of an upload: those the writer will still send, those the handler has, and
\* those of the acks.
Carried(u) ==
    (IF client[u].pc = "sending" THEN client[u].toSend ELSE {})
        \cup BatchOf(u) \cup acks[u] \cup client[u].acked

DropsNothing ==
    faults' = faults =>
        \A u \in Streams : Active(u) /\ link'[u] # "down" =>
            Carried(u) \subseteq IF Active(u)' THEN Carried(u)' ELSE uploaded'

\* The two halves of an upload go together as long as its connection lasts.
HalvesFit(u) ==
    /\ server[u].pc = "idle" => server[u] = IdleServer
    /\ Active(u) /\ link[u] = "up" =>
          /\ acks[u] = {} /\ client[u].acked = {}
          /\ server[u].pc = IF client[u].pc = "sending" THEN "reading" ELSE "inserting"
    /\ Active(u) /\ link[u] = "closed" => client[u].pc = "sent" /\ server[u] = IdleServer

StreamsFit == \A u \in Streams : HalvesFit(u)

\* An upload waits for its own writer, its own handler or its own ack thread.
SomethingToDo ==
    \A u \in Streams : Active(u) =>
        \/ client[u].pc = "sending" /\ link[u] = "up" /\ server[u].pc = "reading"
        \/ server[u].pc = "inserting"
        \/ link[u] = "closed" \/ link[u] = "down"

\* A step of one upload.
LEMMA OthersFit ==
  ASSUME StreamsFit, NEW u \in Streams, HalvesFit(u)',
         \A v \in Streams \ {u} : /\ client'[v] = client[v] /\ server'[v] = server[v]
                                  /\ link'[v] = link[v] /\ acks'[v] = acks[v]
  PROVE  StreamsFit'
<1>1. ASSUME NEW v \in Streams \ {u} PROVE HalvesFit(v)'
  BY <1>1 DEF StreamsFit, HalvesFit, Active, IdleServer
<1> QED
  BY <1>1 DEF StreamsFit

\* A broken connection.
LEMMA DownFits ==
  ASSUME StreamsFit, NEW u \in Streams, link'[u] = "down" \/ ~Active(u)',
         server'[u] \in {server[u], IdleServer, AbortReader(u)}
  PROVE  HalvesFit(u)'
BY DEF StreamsFit, HalvesFit, AbortReader, IdleServer

LEMMA FitStep == TypeOK /\ StreamsFit /\ [Next]_vars => StreamsFit'
<1> SUFFICES ASSUME TypeOK, StreamsFit, [Next]_vars PROVE StreamsFit'
  OBVIOUS
<1>1. ASSUME UNCHANGED <<client, server, link, acks>> PROVE StreamsFit'
  BY <1>1 DEF StreamsFit, HalvesFit, Active, IdleServer
<1>2. \A u \in Streams : client[u] \in ClientHalf /\ server[u] \in ServerHalf
  BY DEF TypeOK
<1>3. ASSUME NEW u \in Streams, NEW S, OpenStream(u, S) PROVE StreamsFit'
  <2>1. HalvesFit(u)'
    BY <1>3 DEF OpenStream, HalvesFit, Active, IdleServer, TypeOK
  <2> QED
    BY <1>3, <2>1, OthersFit DEF OpenStream, TypeOK
<1>4. ASSUME NEW u \in Streams, NEW s \in Samples, SendSample(u, s) PROVE StreamsFit'
  <2>1. /\ client'[u].pc = "sending" /\ client'[u].acked = client[u].acked
        /\ server'[u].pc = server[u].pc /\ link[u] = "up" /\ client[u].pc = "sending"
    BY <1>2, <1>4 DEF SendSample, TypeOK, ClientHalf, ServerHalf
  <2>2. HalvesFit(u)'
    BY <1>4, <2>1 DEF SendSample, StreamsFit, HalvesFit, Active
  <2> QED
    BY <1>4, <2>2, OthersFit DEF SendSample, TypeOK
<1>5. ASSUME NEW u \in Streams, EndOfStream(u) \/ WriterFails(u) PROVE StreamsFit'
  <2>1. /\ client'[u].pc = "sent" /\ client'[u].acked = client[u].acked
        /\ server'[u].pc = "inserting" /\ link[u] = "up" /\ client[u].pc = "sending"
        /\ link' = link /\ acks' = acks
    BY <1>2, <1>5 DEF EndOfStream, WriterFails, TypeOK, ClientHalf, ServerHalf
  <2>2. HalvesFit(u)'
    BY <2>1 DEF StreamsFit, HalvesFit, Active
  <2> QED
    BY <1>5, <2>1, <2>2, OthersFit DEF EndOfStream, WriterFails, TypeOK
<1>6. ASSUME NEW u \in Streams, NEW s \in Samples, ReadAck(u, s) PROVE StreamsFit'
  <2>1. /\ client'[u].pc = client[u].pc /\ server' = server /\ link' = link
        /\ link[u] # "up" /\ Active(u)
    BY <1>2, <1>6 DEF ReadAck, TypeOK, ClientHalf, StreamsFit, HalvesFit
  <2>2. HalvesFit(u)'
    BY <2>1 DEF StreamsFit, HalvesFit, Active, IdleServer
  <2> QED
    BY <1>6, <2>2, OthersFit DEF ReadAck, TypeOK
<1>7. ASSUME NEW u \in Streams, StoreBatch(u) PROVE StreamsFit'
  <2>1. server'[u] = IdleServer /\ client' = client /\ server[u].pc = "inserting"
    BY <1>7 DEF StoreBatch, TypeOK
  <2>2. link'[u] = IF link[u] = "up" THEN "closed" ELSE link[u]
    BY <1>7 DEF StoreBatch, TypeOK
  <2>3. HalvesFit(u)'
    BY <1>2, <2>1, <2>2 DEF StreamsFit, HalvesFit, Active, IdleServer, ClientHalf
  <2> QED
    BY <1>7, <2>3, OthersFit DEF StoreBatch, TypeOK
<1>8. ASSUME NEW u \in Streams, RejectBatch(u) PROVE StreamsFit'
  BY <1>8, DownFits, OthersFit DEF RejectBatch, TypeOK
<1>9. ASSUME NEW u \in Streams, FinishUpload(u) \/ AckTransactionFails(u) PROVE StreamsFit'
  <2>1. ~Active(u)' /\ server'[u] \in {server[u], AbortReader(u)}
    BY <1>9 DEF FinishUpload, AckTransactionFails, CloseClientHalf, IdleClient, Active, TypeOK
  <2> QED
    BY <1>9, <2>1, DownFits, OthersFit
       DEF FinishUpload, AckTransactionFails, CloseClientHalf, TypeOK
<1>10. ASSUME NEW u \in Streams, BreakLink(u) PROVE StreamsFit'
  BY <1>10, DownFits, OthersFit DEF BreakLink, TypeOK
<1>11. CASE ClientCrash
  BY <1>11, DownFits DEF ClientCrash, StreamsFit, Active, IdleClient
<1>12. CASE ServerCrash
  BY <1>12, DownFits DEF ServerCrash, StreamsFit, Active
<1>13. ASSUME NEW m, DeleteMeasurement(m) PROVE StreamsFit'
  BY <1>1, <1>13 DEF DeleteMeasurement
<1>14. ASSUME NEW s, \/ Record(s) \/ StartMeasurement \/ StopMeasurement
                     \/ PinpointStarts \/ PinpointStops
                     \/ ThreadIdles \/ ThreadAwakes \/ ApplySettings(s)
       PROVE  StreamsFit'
  BY <1>1, <1>14 DEF Record, StartMeasurement, StopMeasurement, PinpointStarts, PinpointStops,
                     ThreadIdles, ThreadAwakes, ApplySettings
<1>15. CASE UNCHANGED vars
  BY <1>1, <1>15 DEF vars
<1> QED
  BY <1>3, <1>4, <1>5, <1>6, <1>7, <1>8, <1>9, <1>10, <1>11, <1>12, <1>13, <1>14, <1>15
     DEF Next, ThreadUploads, RequestUploads, Streams

LEMMA AlwaysFit == Spec => [](TypeOK /\ StreamsFit)
<1>1. Init => StreamsFit
  BY DEF Init, StreamsFit, HalvesFit, Active, IdleClient
<1> QED
  BY <1>1, InitTypeOK, StepTypeOK, FitStep, PTL DEF Spec

\* A step that leaves an upload as it is.
LEMMA UntouchedDropsNothing ==
  ASSUME NEW u \in Streams, client'[u] = client[u], server'[u] = server[u], acks'[u] = acks[u]
  PROVE  Active(u)' = Active(u) /\ Carried(u)' = Carried(u)
BY DEF Active, Carried, BatchOf

LEMMA StepDropsNothing == TypeOK /\ StreamsFit /\ [Next]_vars => DropsNothing
<1> SUFFICES ASSUME TypeOK, StreamsFit, [Next]_vars, faults' = faults,
                    NEW u \in Streams, Active(u), link'[u] # "down"
             PROVE  Carried(u) \subseteq IF Active(u)' THEN Carried(u)' ELSE uploaded'
  BY DEF DropsNothing
<1> DEFINE Keeps == Carried(u) \subseteq IF Active(u)' THEN Carried(u)' ELSE uploaded'
<1>1. client[u] \in ClientHalf /\ server[u] \in ServerHalf /\ faults \in Nat
  BY DEF TypeOK
<1>2. ASSUME client'[u] = client[u], server'[u] = server[u], acks'[u] = acks[u] PROVE Keeps
  BY <1>2, UntouchedDropsNothing
<1>3. ASSUME NEW v \in Streams, NEW S, OpenStream(v, S) PROVE Keeps
  BY <1>2, <1>3 DEF OpenStream, Free, TypeOK
<1>4. ASSUME NEW v \in Streams, NEW s \in Samples, SendSample(v, s) PROVE Keeps
  <2>1. CASE v = u
    <3>1. /\ client[u].pc = "sending" /\ client'[u].pc = "sending"
          /\ client'[u].toSend = client[u].toSend \ {s} /\ client'[u].acked = client[u].acked
      BY <1>1, <1>4, <2>1 DEF SendSample, TypeOK, ClientHalf
    <3>2. server'[u].batch = server[u].batch \cup {<<s, LookUpId(u, s)>>}
      BY <1>1, <1>4, <2>1 DEF SendSample, TypeOK, ServerHalf
    <3>3. BatchOf(u) \cup {s} \subseteq BatchOf(u)'
      <4>1. <<s, LookUpId(u, s)>> \in server'[u].batch /\ server[u].batch \subseteq server'[u].batch
        BY <3>2
      <4>2. s = <<s, LookUpId(u, s)>>[1]
        OBVIOUS
      <4>3. s \in BatchOf(u)'
        BY <4>1, <4>2 DEF BatchOf
      <4>4. BatchOf(u) \subseteq BatchOf(u)'
        BY <4>1 DEF BatchOf
      <4> QED
        BY <4>3, <4>4
    <3>4. acks' = acks
      BY <1>4 DEF SendSample
    <3> QED
      BY <3>1, <3>3, <3>4 DEF Carried, Active
  <2> QED
    BY <1>2, <1>4, <2>1 DEF SendSample, TypeOK
<1>5. ASSUME NEW v \in Streams, EndOfStream(v) PROVE Keeps
  <2>1. CASE v = u
    <3>1. /\ client[u].toSend = {} /\ client'[u].pc = "sent" /\ client'[u].acked = client[u].acked
      BY <1>1, <1>5, <2>1 DEF EndOfStream, TypeOK, ClientHalf
    <3>2. server'[u].batch = server[u].batch /\ acks' = acks
      BY <1>1, <1>5, <2>1 DEF EndOfStream, TypeOK, ServerHalf
    <3> QED
      BY <3>1, <3>2 DEF Carried, Active, BatchOf
  <2> QED
    BY <1>2, <1>5, <2>1 DEF EndOfStream, TypeOK
<1>6. ASSUME NEW v \in Streams, NEW s \in Samples, ReadAck(v, s) PROVE Keeps
  <2>1. CASE v = u
    <3>1. /\ client'[u].pc = client[u].pc /\ client'[u].toSend = client[u].toSend
          /\ client'[u].acked = client[u].acked \cup {s}
      BY <1>1, <1>6, <2>1 DEF ReadAck, TypeOK, ClientHalf
    <3>2. acks'[u] = acks[u] \ {s} /\ server' = server
      BY <1>6, <2>1 DEF ReadAck, TypeOK
    <3> QED
      BY <3>1, <3>2 DEF Carried, Active, BatchOf
  <2> QED
    BY <1>2, <1>6, <2>1 DEF ReadAck, TypeOK
<1>7. ASSUME NEW v \in Streams, StoreBatch(v) PROVE Keeps
  <2>1. CASE v = u
    <3>1. link[u] = "up" /\ client[u].pc = "sent" /\ acks[u] = {}
      <4>1. link[u] # "down" /\ server[u].pc = "inserting"
        BY <1>7, <2>1 DEF StoreBatch
      <4> QED
        BY <1>1, <4>1 DEF StreamsFit, HalvesFit, Active, IdleServer, TypeOK, ClientHalf
    <3>2. acks'[u] = BatchOf(u) /\ client' = client
      BY <1>7, <2>1, <3>1 DEF StoreBatch, TypeOK
    <3> QED
      BY <3>1, <3>2 DEF Carried, Active
  <2> QED
    BY <1>2, <1>7, <2>1 DEF StoreBatch, TypeOK
<1>8. ASSUME NEW v \in Streams, RejectBatch(v) PROVE Keeps
  BY <1>2, <1>8 DEF RejectBatch, TypeOK
<1>9. ASSUME NEW v \in Streams, FinishUpload(v) PROVE Keeps
  <2>1. CASE v = u
    <3>1. link[u] = "closed" /\ acks[u] = {}
      BY <1>9, <2>1 DEF FinishUpload
    <3>2. client[u].pc = "sent" /\ server[u].batch = {}
      BY <3>1 DEF StreamsFit, HalvesFit, IdleServer
    <3>3. Carried(u) = client[u].acked
      BY <3>1, <3>2 DEF Carried, BatchOf
    <3>4. uploaded' = uploaded \cup client[u].acked /\ ~Active(u)'
      BY <1>9, <2>1 DEF FinishUpload, CloseClientHalf, IdleClient, Active, TypeOK
    <3> QED
      BY <3>3, <3>4
  <2> QED
    BY <1>2, <1>9, <2>1 DEF FinishUpload, CloseClientHalf, TypeOK
<1>10. ASSUME NEW v \in Streams, BreakLink(v) \/ WriterFails(v) \/ AckTransactionFails(v)
       PROVE  FALSE
  BY <1>1, <1>10 DEF BreakLink, WriterFails, AckTransactionFails, Fault
<1>11. ~ClientCrash /\ ~ServerCrash
  BY <1>1 DEF ClientCrash, ServerCrash, Fault
<1>12. ASSUME NEW m, DeleteMeasurement(m) PROVE Keeps
  BY <1>2, <1>12 DEF DeleteMeasurement
<1>13. ASSUME NEW s, \/ Record(s) \/ StartMeasurement \/ StopMeasurement
                     \/ PinpointStarts \/ PinpointStops
                     \/ ThreadIdles \/ ThreadAwakes \/ ApplySettings(s)
       PROVE  Keeps
  BY <1>2, <1>13 DEF Record, StartMeasurement, StopMeasurement, PinpointStarts, PinpointStops,
                     ThreadIdles, ThreadAwakes, ApplySettings
<1>14. ASSUME UNCHANGED vars PROVE Keeps
  BY <1>2, <1>14 DEF vars
<1> HIDE DEF Keeps
<1>15. ASSUME \/ \E v \in ThreadStreams : ThreadUploads(v)
              \/ \E v \in RequestStreams : RequestUploads(v)
       PROVE  Keeps
  BY <1>3, <1>15 DEF ThreadUploads, RequestUploads, Streams
<1>16. Keeps
  BY <1>4, <1>5, <1>6, <1>7, <1>8, <1>9, <1>10, <1>11, <1>12, <1>13, <1>14, <1>15 DEF Next
<1> QED
  BY <1>16 DEF Keeps

\* An upload never loses a sample that it has selected: as long as its connection lasts and
\* nothing fails, each one is with the writer, in the handler's batch or among the acks, and
\* once the call ends without an error all of them are marked as uploaded, whatever other
\* uploads of the same samples, recordings and deletions of stored ones come in between.
THEOREM UploadsDropNothing == Spec => [][DropsNothing]_vars
  BY AlwaysFit, StepDropsNothing, PTL DEF Spec

\* No upload waits for something that does not come (the safety part of UploadsEnd): while it
\* holds measuringMtx its writer has a connection and a handler that reads, or its handler
\* is at the INSERT, or its ack thread has a stream that has ended.
THEOREM UploadsHaveSomethingToDo == Spec => []SomethingToDo
<1>1. TypeOK /\ StreamsFit => SomethingToDo
  BY DEF TypeOK, StreamsFit, HalvesFit, SomethingToDo, ClientHalf, Active
<1> QED
  BY <1>1, AlwaysFit, PTL
=============================================================================
