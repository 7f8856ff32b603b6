-------------------------- MODULE DeviceControlProofs --------------------------
(***************************************************************************)
(* DeviceControl, for any number of calls, threads and registrations: what  *)
(* a START fetches, and what a STOP that is answered has brought about.      *)
(***************************************************************************)
EXTENDS DeviceControl, SequenceTheorems, TLAPS

-----------------------------------------------------------------------------
(* The inductive invariant.                                                 *)

\* A request is in one place at a time.
OncePosted(q, where) ==
    /\ \A i \in 1..Len(q) : job[q[i]] = where
    /\ \A i, j \in 1..Len(q) : q[i] = q[j] => i = j
QueuesFit == OncePosted(queue, "queued") /\ OncePosted(posted, "posted")

\* What is asked of the device, and how far it has got, fits the call.
StageFits(c) ==
    /\ stage[c] \in {"idle", "setting", "set"} => job[c] = "none"
    /\ stage[c] \in {"idle", "listing", "setting", "set"} => asked[c] # "start"
    /\ stage[c] \in {"listing", "setting", "set"} => Kind(c, "start")
    /\ asked[c] \in {"start", "list"} => Kind(c, "start")
    /\ asked[c] = "query" => Kind(c, "query")
    /\ job[c] \in {"fetching", "fetched", "begun"} => asked[c] = "start"
    /\ done[c] # 0 => At(c, "setting") \/ Job(c, "fetching")
    /\ target[c] <= registrations

\* An undisturbed START finds the settings of its call.
OwnSettings(c) ==
    ~disturbed[c] =>
        /\ At(c, "setting") => /\ target[c] = registrations
                               /\ \A f \in Fields : f <= done[c] => settings[f] = c
        /\ At(c, "set") \/ Pending(c) => \A f \in Fields : settings[f] = c
        /\ Job(c, "fetching") => \A f \in Fields : f <= done[c] => used[c][f] = c

CallFits(c) == StageFits(c) /\ OwnSettings(c)

\* One at a time, a call writes or a request reads all three settings.
AmidSetting(c) == At(c, "setting") /\ target[c] = registrations /\ done[c] \in {1, 2}
OneByOne ==
    ~overlapped =>
        /\ \A c, d \in Calls : Amid(c) /\ Amid(d) => c = d
        /\ \A c \in Calls : AmidSetting(c) => \A f \in Fields : f <= done[c] => settings[f] = c
        /\ (\A c \in Calls : ~AmidSetting(c)) => \A f, g \in Fields : settings[f] = settings[g]
        /\ \A c \in Calls : Job(c, "fetching") =>
               \A f \in Fields : f <= done[c] => used[c][f] = settings[f]
        /\ WholeSettings

IInv == TypeOK /\ QueuesFit /\ (\A c \in Calls : CallFits(c)) /\ OneByOne

-----------------------------------------------------------------------------
(* Sequences.                                                               *)

LEMMA Appended ==
    ASSUME NEW S, NEW q \in Seq(S), NEW x \in S
    PROVE  /\ Append(q, x) \in Seq(S) /\ Len(Append(q, x)) = Len(q) + 1
           /\ \A i \in 1..Len(q) : Append(q, x)[i] = q[i]
           /\ Append(q, x)[Len(q) + 1] = x
OBVIOUS

LEMMA WithoutLast ==
    ASSUME NEW S, NEW q \in Seq(S), q # <<>>
    PROVE  /\ Len(q) \in Nat \ {0} /\ q[Len(q)] \in S
           /\ SubSeq(q, 1, Len(q) - 1) \in Seq(S) /\ Len(SubSeq(q, 1, Len(q) - 1)) = Len(q) - 1
           /\ \A i \in 1..Len(q) - 1 : SubSeq(q, 1, Len(q) - 1)[i] = q[i]
<1>1. PICK n \in Nat \ {0} : n = Len(q)
  OBVIOUS
<1>2. \A i \in 1..n : q[i] \in S
  BY <1>1
<1>3. 1 \in Int /\ n - 1 \in Int /\ \A i \in 1..n - 1 : q[i] \in S
  BY <1>2
<1>4. /\ SubSeq(q, 1, n - 1) \in Seq(S)
      /\ Len(SubSeq(q, 1, n - 1)) = IF 1 <= n - 1 THEN (n - 1) - 1 + 1 ELSE 0
      /\ \A i \in 1..(n - 1) - 1 + 1 : SubSeq(q, 1, n - 1)[i] = q[1 + i - 1]
  BY <1>3, SubSeqProperties
<1>5. (n - 1) - 1 + 1 = n - 1 /\ (1 <= n - 1 \/ n - 1 = 0)
  OBVIOUS
<1>6. Len(SubSeq(q, 1, n - 1)) = n - 1
  BY <1>4, <1>5
<1>7. \A i \in 1..n - 1 : 1 + i - 1 = i
  OBVIOUS
<1>8. \A i \in 1..n - 1 : SubSeq(q, 1, n - 1)[i] = q[i]
  BY <1>4, <1>5, <1>7
<1>9. n \in 1..n
  OBVIOUS
<1> QED
  BY <1>1, <1>2, <1>4, <1>6, <1>8, <1>9

LEMMA WithoutFirst ==
    ASSUME NEW S, NEW q \in Seq(S), q # <<>>
    PROVE  /\ Len(q) \in Nat \ {0} /\ Head(q) \in S /\ Head(q) = q[1]
           /\ Tail(q) \in Seq(S) /\ Len(Tail(q)) = Len(q) - 1
           /\ \A i \in 1..Len(q) - 1 : Tail(q)[i] = q[i + 1]
OBVIOUS

\* A request is put on top of the queue.
LEMMA AppendedOnce ==
    ASSUME TypeOK, OncePosted(queue, "queued"), NEW c \in Calls, job[c] # "queued",
           queue' = Append(queue, c), job' = [job EXCEPT ![c] = "queued"]
    PROVE  OncePosted(queue, "queued")'
<1>1. /\ Len(queue') = Len(queue) + 1 /\ Len(queue) \in Nat
      /\ \A i \in 1..Len(queue) : queue'[i] = queue[i] /\ queue[i] \in Calls
      /\ queue'[Len(queue) + 1] = c
  BY Appended DEF TypeOK
<1>2. \A i \in 1..Len(queue) : job[queue[i]] = "queued" /\ queue[i] # c
  BY <1>1 DEF OncePosted
<1>3. job'[c] = "queued" /\ \A d \in Calls : d # c => job'[d] = job[d]
  BY DEF TypeOK
<1>4. \A i \in 1..Len(queue') : i \in 1..Len(queue) \/ i = Len(queue) + 1
  BY <1>1
<1> QED
  BY <1>1, <1>2, <1>3, <1>4 DEF OncePosted

-----------------------------------------------------------------------------
(* The managers.                                                            *)

LEMMA AskSimplyIInv ==
    ASSUME IInv, NEW c \in Calls, At(c, "idle"), AskSimply(c), Begun PROVE IInv'
<1> USE DEF Begun, devvars, AskSimply, Asks
<1>1. job[c] = "none" /\ done[c] = 0 /\ stage[c] = "idle" /\ c \in Calls
  BY DEF IInv, CallFits, StageFits, At, Job
<1>2. /\ stage'[c] = "waiting" /\ \A d \in Calls : d # c => stage'[d] = stage[d]
      /\ asked'[c] = form[c].kind /\ \A d \in Calls : d # c => asked'[d] = asked[d]
      /\ job'[c] = "queued" /\ \A d \in Calls : d # c => job'[d] = job[d]
      /\ form[c].kind \in {"stop", "query"} /\ ~Kind(c, "start")
      /\ disturbed' = disturbed
  BY DEF IInv, TypeOK, At, Kind, Goes, Turns, Kinds
<1>3. TypeOK'
  <2>1. settled' \in [Calls -> SUBSET (Calls \cup {Itself})]
    BY DEF IInv, TypeOK, Settled
  <2>2. /\ stage' \in [Calls -> {"idle", "listing", "setting", "set", "waiting"} \cup Ends]
        /\ asked' \in [Calls -> {"none", "list", "start", "stop", "query"}]
        /\ job' \in [Calls -> {"none", "queued", "posted", "running", "fetching", "fetched", "begun",
                                "halted", "lost"} \cup Answered]
    BY <1>2 DEF IInv, TypeOK, Goes, Turns
  <2>3. queue' \in Seq(Calls)
    BY Appended DEF IInv, TypeOK
  <2> QED
    BY <2>1, <2>2, <2>3 DEF IInv, TypeOK
<1>4. QueuesFit'
  <2>1. OncePosted(queue, "queued")'
    BY <1>1, AppendedOnce DEF IInv, QueuesFit, Turns
  <2>2. OncePosted(posted, "posted")'
    BY <1>1, <1>2 DEF IInv, QueuesFit, OncePosted, TypeOK
  <2> QED
    BY <2>1, <2>2 DEF QueuesFit
<1>5. \A d \in Calls : Amid(d)' <=> Amid(d)
  BY <1>1, <1>2 DEF Amid, At, Job
<1>6. \A d \in Calls : StageFits(d)'
  BY <1>1, <1>2 DEF IInv, CallFits, StageFits, At, Kind, Job, TypeOK
<1>7. \A d \in Calls : OwnSettings(d)'
  BY <1>1, <1>2 DEF IInv, CallFits, StageFits, OwnSettings, At, Kind, Job, Pending, TypeOK,
     Fields
<1>8. OneByOne'
  <2>1. \A d \in Calls : AmidSetting(d)' <=> AmidSetting(d)
    BY <1>1, <1>2 DEF AmidSetting, At
  <2>2. \A d \in Calls : Job(d, "fetching")' <=> Job(d, "fetching")
    BY <1>1, <1>2 DEF Job
  <2>3. \A d \in Calls : Job(d, "fetched")' <=> Job(d, "fetched")
    BY <1>1, <1>2 DEF Job
  <2> QED
    BY <1>5, <2>1, <2>2, <2>3 DEF IInv, OneByOne, WholeSettings
<1> QED
  BY <1>3, <1>4, <1>6, <1>7, <1>8 DEF IInv, CallFits

LEMMA AskForListIInv ==
    ASSUME IInv, NEW c \in Calls, At(c, "idle"), AskForList(c), Begun PROVE IInv'
<1> USE DEF Begun, devvars, AskForList, Asks
<1>1. job[c] = "none" /\ done[c] = 0 /\ stage[c] = "idle" /\ c \in Calls
  BY DEF IInv, CallFits, StageFits, At, Job
<1>2. /\ stage'[c] = "listing" /\ \A d \in Calls : d # c => stage'[d] = stage[d]
      /\ asked'[c] = "list" /\ \A d \in Calls : d # c => asked'[d] = asked[d]
      /\ job'[c] = "queued" /\ \A d \in Calls : d # c => job'[d] = job[d]
      /\ Kind(c, "start")
  BY DEF IInv, TypeOK, At, Kind, Goes, Turns, Kinds
<1>3. TypeOK'
  BY <1>1, Appended DEF IInv, TypeOK, Fields, Setters, Ends, Answered, Goes, Turns, Kind, Kinds
<1>4. QueuesFit'
  <2>1. OncePosted(queue, "queued")'
    BY <1>1, AppendedOnce DEF IInv, QueuesFit, Turns
  <2>2. OncePosted(posted, "posted")'
    BY <1>1, <1>2 DEF IInv, QueuesFit, OncePosted, TypeOK
  <2> QED
    BY <2>1, <2>2 DEF QueuesFit
<1>5. \A d \in Calls : Amid(d)' <=> Amid(d)
  BY <1>1, <1>2 DEF Amid, At, Job
<1>6. \A d \in Calls : StageFits(d)'
  BY <1>1, <1>2 DEF IInv, CallFits, StageFits, At, Kind, Job, TypeOK
<1>7. \A d \in Calls : OwnSettings(d)'
  BY <1>1, <1>2 DEF IInv, CallFits, StageFits, OwnSettings, At, Kind, Job, Pending, TypeOK,
     Fields
<1>8. OneByOne'
  <2>1. \A d \in Calls : AmidSetting(d)' <=> AmidSetting(d)
    BY <1>1, <1>2 DEF AmidSetting, At
  <2>2. \A d \in Calls : Job(d, "fetching")' <=> Job(d, "fetching")
    BY <1>1, <1>2 DEF Job
  <2>3. \A d \in Calls : Job(d, "fetched")' <=> Job(d, "fetched")
    BY <1>1, <1>2 DEF Job
  <2> QED
    BY <1>5, <2>1, <2>2, <2>3 DEF IInv, OneByOne, WholeSettings
<1> QED
  BY <1>3, <1>4, <1>6, <1>7, <1>8 DEF IInv, CallFits

LEMMA SetAtOnceIInv ==
    ASSUME IInv, NEW c \in Calls, At(c, "idle"), Kind(c, "start"), BeginSetting(c),
           UNCHANGED <<asked, queue, job, settled>>, Begun
    PROVE  IInv'
<1> USE DEF Begun, devvars, BeginSetting
<1>1. job[c] = "none" /\ done[c] = 0 /\ stage[c] = "idle" /\ c \in Calls
  BY DEF IInv, CallFits, StageFits, At, Job
<1>2. /\ stage'[c] = "setting" /\ \A d \in Calls : d # c => stage'[d] = stage[d]
      /\ target'[c] = registrations /\ \A d \in Calls : d # c => target'[d] = target[d]
      /\ disturbed'[c] = FALSE /\ \A d \in Calls : d # c => disturbed'[d] = disturbed[d]
      /\ registrations \in Nat
  BY DEF IInv, TypeOK, At, Kind, Goes, Turns, Kinds
<1>3. TypeOK'
  BY <1>1, Appended DEF IInv, TypeOK, Fields, Setters, Ends, Answered, Goes, Turns, Kind, Kinds
<1>4. QueuesFit'
  BY DEF IInv, QueuesFit, OncePosted
<1>5. \A d \in Calls : Amid(d)' <=> Amid(d)
  BY <1>1, <1>2 DEF Amid, At, Job
<1>6. \A d \in Calls : StageFits(d)'
  BY <1>1, <1>2 DEF IInv, CallFits, StageFits, At, Kind, Job, TypeOK
<1>7. \A d \in Calls : OwnSettings(d)'
  BY <1>1, <1>2 DEF IInv, CallFits, StageFits, OwnSettings, At, Kind, Job, Pending, TypeOK,
     Fields
<1>8. OneByOne'
  <2>1. \A d \in Calls : AmidSetting(d)' <=> AmidSetting(d)
    BY <1>1, <1>2 DEF AmidSetting, At
  <2>2. \A d \in Calls : Job(d, "fetching")' <=> Job(d, "fetching")
    BY <1>1, <1>2 DEF Job
  <2>3. \A d \in Calls : Job(d, "fetched")' <=> Job(d, "fetched")
    BY <1>1, <1>2 DEF Job
  <2> QED
    BY <1>5, <2>1, <2>2, <2>3 DEF IInv, OneByOne, WholeSettings
<1> QED
  BY <1>3, <1>4, <1>6, <1>7, <1>8 DEF IInv, CallFits

LEMMA UnreachedIInv ==
    ASSUME IInv, NEW c \in Calls, At(c, "idle"), Unreached(c), Begun PROVE IInv'
<1> USE DEF Begun, devvars, Unreached
<1>1. job[c] = "none" /\ done[c] = 0 /\ stage[c] = "idle" /\ c \in Calls
  BY DEF IInv, CallFits, StageFits, At, Job
<1>2. /\ stage'[c] = "refused" /\ \A d \in Calls : d # c => stage'[d] = stage[d]
  BY DEF IInv, TypeOK, At, Kind, Goes, Turns, Kinds
<1>3. TypeOK'
  BY <1>1, Appended DEF IInv, TypeOK, Fields, Setters, Ends, Answered, Goes, Turns, Kind, Kinds
<1>4. QueuesFit'
  BY DEF IInv, QueuesFit, OncePosted
<1>5. \A d \in Calls : Amid(d)' <=> Amid(d)
  BY <1>1, <1>2 DEF Amid, At, Job
<1>6. \A d \in Calls : StageFits(d)'
  BY <1>1, <1>2 DEF IInv, CallFits, StageFits, At, Kind, Job, TypeOK
<1>7. \A d \in Calls : OwnSettings(d)'
  BY <1>1, <1>2 DEF IInv, CallFits, StageFits, OwnSettings, At, Kind, Job, Pending, TypeOK,
     Fields
<1>8. OneByOne'
  <2>1. \A d \in Calls : AmidSetting(d)' <=> AmidSetting(d)
    BY <1>1, <1>2 DEF AmidSetting, At
  <2>2. \A d \in Calls : Job(d, "fetching")' <=> Job(d, "fetching")
    BY <1>1, <1>2 DEF Job
  <2>3. \A d \in Calls : Job(d, "fetched")' <=> Job(d, "fetched")
    BY <1>1, <1>2 DEF Job
  <2> QED
    BY <1>5, <2>1, <2>2, <2>3 DEF IInv, OneByOne, WholeSettings
<1> QED
  BY <1>3, <1>4, <1>6, <1>7, <1>8 DEF IInv, CallFits

LEMMA BeginWebIInv == ASSUME IInv, NEW c \in Calls, BeginWeb(c) PROVE IInv'
BY AskSimplyIInv, AskForListIInv, UnreachedIInv DEF BeginWeb

LEMMA BeginConsoleIInv == ASSUME IInv, NEW c \in Calls, BeginConsole(c) PROVE IInv'
BY AskSimplyIInv, AskForListIInv DEF BeginConsole

LEMMA BeginServerIInv == ASSUME IInv, NEW c \in Calls, BeginServer(c) PROVE IInv'
BY AskSimplyIInv, AskForListIInv DEF BeginServer

LEMMA BeginLibraryIInv == ASSUME IInv, NEW c \in Calls, BeginLibrary(c) PROVE IInv'
BY AskSimplyIInv, SetAtOnceIInv, UnreachedIInv DEF BeginLibrary

LEMMA HearListWebIInv == ASSUME IInv, NEW c \in Calls, HearListWeb(c) PROVE IInv'
<1> USE DEF HearListWeb, devvars
<1>1. /\ stage[c] = "listing" /\ done[c] = 0 /\ asked[c] # "start"
      /\ job[c] \in {"accomplished", "declined"}
  BY DEF IInv, CallFits, StageFits, At, Job, Answered
<1>2. /\ job'[c] = "none" /\ \A d \in Calls : d # c => job'[d] = job[d]
  BY DEF IInv, TypeOK, Turns
<1>3. /\ stage'[c] \in {"setting", "refused", "threadEnded"}
      /\ \A d \in Calls : d # c => stage'[d] = stage[d]
      /\ stage'[c] = "setting" => target'[c] = registrations /\ ~disturbed'[c] /\ Kind(c, "start")
      /\ target'[c] <= registrations
      /\ \A d \in Calls : d # c => target'[d] = target[d] /\ disturbed'[d] = disturbed[d]
      /\ disturbed'[c] = disturbed[c] \/ stage'[c] = "setting"
  <2>1. Kind(c, "start")
    BY <1>1 DEF IInv, CallFits, StageFits
  <2>2. CASE BeginSetting(c)
    BY <2>1, <2>2 DEF BeginSetting, Goes, IInv, TypeOK
  <2>3. CASE (Goes(c, "refused") \/ Goes(c, "threadEnded")) /\ UNCHANGED <<target, disturbed>>
    BY <2>1, <2>3 DEF Goes, IInv, TypeOK, CallFits, StageFits
  <2> QED
    BY <2>2, <2>3
<1>4. TypeOK'
  <2>1. stage' \in [Calls -> {"idle", "listing", "setting", "set", "waiting"} \cup Ends]
    BY DEF BeginSetting, Goes, IInv, TypeOK, Ends
  <2>2. target' \in [Calls -> Nat] /\ disturbed' \in [Calls -> BOOLEAN]
    BY DEF BeginSetting, IInv, TypeOK
  <2>3. job' \in [Calls -> {"none", "queued", "posted", "running", "fetching", "fetched", "begun",
                           "halted", "lost"} \cup Answered]
    BY DEF IInv, TypeOK, Turns
  <2> QED
    BY <2>1, <2>2, <2>3 DEF IInv, TypeOK
<1>5. QueuesFit'
  <2>1. UNCHANGED <<queue, posted>>
    OBVIOUS
  <2>2. \A d \in Calls : job[d] \in {"queued", "posted"} => job'[d] = job[d]
    BY <1>1, <1>2
  <2>3. OncePosted(queue, "queued")'
    BY <2>1, <2>2 DEF IInv, QueuesFit, OncePosted, TypeOK
  <2>4. OncePosted(posted, "posted")'
    BY <2>1, <2>2 DEF IInv, QueuesFit, OncePosted, TypeOK
  <2> QED
    BY <2>3, <2>4 DEF QueuesFit
<1>6. \A d \in Calls : StageFits(d)'
  BY <1>1, <1>2, <1>3 DEF IInv, CallFits, StageFits, At, Kind, Job
<1>7. \A d \in Calls : OwnSettings(d)'
  <2> SUFFICES ASSUME NEW d \in Calls PROVE OwnSettings(d)'
    OBVIOUS
  <2>1. CASE d = c
    BY <1>1, <1>2, <1>3, <2>1 DEF OwnSettings, At, Job, Pending, Fields
  <2>2. CASE d # c
    BY <1>1, <1>2, <1>3, <2>2 DEF IInv, CallFits, OwnSettings, At, Job, Pending
  <2> QED
    BY <2>1, <2>2
<1>8. OneByOne'
  <2>1. \A d \in Calls : Amid(d)' <=> Amid(d)
    BY <1>1, <1>2, <1>3 DEF Amid, At, Job
  <2>2. \A d \in Calls : AmidSetting(d)' <=> AmidSetting(d)
    BY <1>1, <1>3 DEF AmidSetting, At
  <2>3. \A d \in Calls : Job(d, "fetching")' <=> Job(d, "fetching")
    BY <1>1, <1>2 DEF Job
  <2>4. \A d \in Calls : Job(d, "fetched")' <=> Job(d, "fetched")
    BY <1>1, <1>2 DEF Job
  <2>5. UNCHANGED <<settings, used, done, overlapped>>
    OBVIOUS
  <2> HIDE DEF HearListWeb
  <2> QED
    BY <2>1, <2>2, <2>3, <2>4, <2>5 DEF IInv, OneByOne, WholeSettings
<1> QED
  BY <1>4, <1>5, <1>6, <1>7, <1>8 DEF IInv, CallFits

LEMMA HearListConsoleIInv == ASSUME IInv, NEW c \in Calls, HearListConsole(c) PROVE IInv'
<1> USE DEF HearListConsole, devvars
<1>1. /\ stage[c] = "listing" /\ done[c] = 0 /\ asked[c] # "start"
      /\ job[c] \in {"accomplished", "declined"}
  BY DEF IInv, CallFits, StageFits, At, Job, Answered
<1>2. /\ job'[c] = "none" /\ \A d \in Calls : d # c => job'[d] = job[d]
  BY DEF IInv, TypeOK, Turns
<1>3. /\ stage'[c] \in {"setting", "refused", "threadEnded"}
      /\ \A d \in Calls : d # c => stage'[d] = stage[d]
      /\ stage'[c] = "setting" => target'[c] = registrations /\ ~disturbed'[c] /\ Kind(c, "start")
      /\ target'[c] <= registrations
      /\ \A d \in Calls : d # c => target'[d] = target[d] /\ disturbed'[d] = disturbed[d]
      /\ disturbed'[c] = disturbed[c] \/ stage'[c] = "setting"
  <2>1. Kind(c, "start")
    BY <1>1 DEF IInv, CallFits, StageFits
  <2>2. CASE BeginSetting(c)
    BY <2>1, <2>2 DEF BeginSetting, Goes, IInv, TypeOK
  <2>3. CASE (Goes(c, "refused") \/ Goes(c, "threadEnded")) /\ UNCHANGED <<target, disturbed>>
    BY <2>1, <2>3 DEF Goes, IInv, TypeOK, CallFits, StageFits
  <2> QED
    BY <2>2, <2>3
<1>4. TypeOK'
  <2>1. stage' \in [Calls -> {"idle", "listing", "setting", "set", "waiting"} \cup Ends]
    BY DEF BeginSetting, Goes, IInv, TypeOK, Ends
  <2>2. target' \in [Calls -> Nat] /\ disturbed' \in [Calls -> BOOLEAN]
    BY DEF BeginSetting, IInv, TypeOK
  <2>3. job' \in [Calls -> {"none", "queued", "posted", "running", "fetching", "fetched", "begun",
                           "halted", "lost"} \cup Answered]
    BY DEF IInv, TypeOK, Turns
  <2> QED
    BY <2>1, <2>2, <2>3 DEF IInv, TypeOK
<1>5. QueuesFit'
  <2>1. UNCHANGED <<queue, posted>>
    OBVIOUS
  <2>2. \A d \in Calls : job[d] \in {"queued", "posted"} => job'[d] = job[d]
    BY <1>1, <1>2
  <2>3. OncePosted(queue, "queued")'
    <3>1. \A i \in 1..Len(queue) : queue[i] \in Calls /\ job[queue[i]] = "queued"
      BY DEF IInv, QueuesFit, OncePosted, TypeOK
    <3>2. \A i \in 1..Len(queue) : job'[queue[i]] = "queued"
      BY <2>2, <3>1
    <3>3. \A i, j \in 1..Len(queue) : queue[i] = queue[j] => i = j
      BY DEF IInv, QueuesFit, OncePosted
    <3> QED
      BY <2>1, <3>2, <3>3 DEF OncePosted
  <2>4. OncePosted(posted, "posted")'
    BY <2>1, <2>2 DEF IInv, QueuesFit, OncePosted, TypeOK
  <2> QED
    BY <2>3, <2>4 DEF QueuesFit
<1>6. \A d \in Calls : StageFits(d)'
  BY <1>1, <1>2, <1>3 DEF IInv, CallFits, StageFits, At, Kind, Job
<1>7. \A d \in Calls : OwnSettings(d)'
  <2> SUFFICES ASSUME NEW d \in Calls PROVE OwnSettings(d)'
    OBVIOUS
  <2>1. CASE d = c
    BY <1>1, <1>2, <1>3, <2>1 DEF OwnSettings, At, Job, Pending, Fields
  <2>2. CASE d # c
    BY <1>1, <1>2, <1>3, <2>2 DEF IInv, CallFits, OwnSettings, At, Job, Pending
  <2> QED
    BY <2>1, <2>2
<1>8. OneByOne'
  <2>1. \A d \in Calls : Amid(d)' <=> Amid(d)
    BY <1>1, <1>2, <1>3 DEF Amid, At, Job
  <2>2. \A d \in Calls : AmidSetting(d)' <=> AmidSetting(d)
    BY <1>1, <1>3 DEF AmidSetting, At
  <2>3. \A d \in Calls : Job(d, "fetching")' <=> Job(d, "fetching")
    BY <1>1, <1>2 DEF Job
  <2>4. \A d \in Calls : Job(d, "fetched")' <=> Job(d, "fetched")
    BY <1>1, <1>2 DEF Job
  <2>5. UNCHANGED <<settings, used, done, overlapped>>
    OBVIOUS
  <2> HIDE DEF HearListConsole
  <2> QED
    BY <2>1, <2>2, <2>3, <2>4, <2>5 DEF IInv, OneByOne, WholeSettings
<1> QED
  BY <1>4, <1>5, <1>6, <1>7, <1>8 DEF IInv, CallFits

LEMMA GiveUpListIInv == ASSUME IInv, NEW c \in Calls, GiveUpList(c) PROVE IInv'
<1> USE DEF GiveUpList, devvars, histvars, Goes, Via
<1>1. TypeOK'
  BY DEF IInv, TypeOK, Fields, Setters, Ends, Answered
<1>2. QueuesFit'
  BY <1>1 DEF IInv, TypeOK, QueuesFit, OncePosted, Job, Answered
<1>3. \A d \in Calls : StageFits(d)'
  BY <1>1 DEF IInv, CallFits, StageFits, TypeOK, At, Kind, Job, Ends, Answered, Via, Goes, Turns
<1>4. \A d \in Calls : OwnSettings(d)'
  BY <1>1 DEF IInv, CallFits, StageFits, OwnSettings, TypeOK, At, Kind, Job, Pending, Ends,
     Answered, Fields
<1>5. OneByOne'
  BY <1>1 DEF IInv, CallFits, StageFits, OneByOne, AmidSetting, Amid, WholeSettings, TypeOK, At,
     Kind, Job, Fields, Ends, Answered
<1> QED
  BY <1>1, <1>2, <1>3, <1>4, <1>5 DEF IInv, CallFits

LEMMA SetMsmtSttingsIInv == ASSUME IInv, NEW c \in Calls, SetMsmtSttings(c) PROVE IInv'
<1> USE DEF SetMsmtSttings, devvars
<1>1. /\ stage[c] = "setting" /\ job[c] = "none" /\ asked[c] # "start" /\ Kind(c, "start")
      /\ done[c] \in 0..2
  BY DEF IInv, TypeOK, CallFits, StageFits, At, Job
<1>2. /\ done'[c] = IF done[c] = 2 THEN 0 ELSE done[c] + 1
      /\ \A d \in Calls : d # c => done'[d] = done[d]
  BY <1>1 DEF IInv, TypeOK
<1>3. /\ stage'[c] = IF done[c] = 2 THEN "set" ELSE "setting"
      /\ \A d \in Calls : d # c => stage'[d] = stage[d] /\ target'[d] = target[d]
      /\ done[c] # 2 => target'[c] = target[c]
      /\ target'[c] <= registrations
  BY <1>1 DEF IInv, TypeOK, Goes, CallFits, StageFits
<1>4. /\ target[c] # registrations => settings' = settings
      /\ target[c] = registrations => /\ settings'[done[c] + 1] = c
                                      /\ \A f \in Fields : f # done[c] + 1 => settings'[f] = settings[f]
  BY <1>1 DEF IInv, TypeOK, SetField, Fields
<1>5. /\ disturbed'[c] = disturbed[c]
      /\ \A d \in Calls : d # c => disturbed'[d] = (disturbed[d] \/ Kind(d, "start"))
  BY DEF IInv, TypeOK
<1>6. overlapped' = (overlapped \/ \E d \in Calls \ {c} : Amid(d))
  BY DEF NotAlone
<1>7. TypeOK'
  <2>1. stage' \in [Calls -> {"idle", "listing", "setting", "set", "waiting"} \cup Ends]
    BY DEF Goes, IInv, TypeOK, Ends
  <2>2. target' \in [Calls -> Nat]
    <3>1. target' = target \/ target' = [target EXCEPT ![c] = 0]
      OBVIOUS
    <3>2. target \in [Calls -> Nat]
      BY DEF IInv, TypeOK
    <3> HIDE DEF SetMsmtSttings
    <3> QED
      BY <3>1, <3>2
  <2>3. settings' \in [Fields -> Setters]
    BY <1>1 DEF IInv, TypeOK, SetField, Fields, Setters
  <2>4. done' \in [Calls -> 0..2]
    BY <1>1 DEF IInv, TypeOK
  <2>5. disturbed' \in [Calls -> BOOLEAN] /\ overlapped' \in BOOLEAN
    BY <1>6 DEF IInv, TypeOK
  <2> QED
    BY <2>1, <2>2, <2>3, <2>4, <2>5 DEF IInv, TypeOK
<1>8. QueuesFit'
  BY DEF IInv, QueuesFit, OncePosted
<1>9. \A d \in Calls : StageFits(d)'
  BY <1>1, <1>2, <1>3 DEF IInv, CallFits, StageFits, At, Kind, Job
<1>10. \A d \in Calls : OwnSettings(d)'
  <2> SUFFICES ASSUME NEW d \in Calls PROVE OwnSettings(d)'
    OBVIOUS
  <2>1. CASE d = c /\ done[c] = 2
    BY <1>1, <1>2, <1>3, <1>4, <1>5, <2>1
       DEF IInv, CallFits, OwnSettings, At, Job, Pending, Fields
  <2>2. CASE d = c /\ done[c] # 2
    BY <1>1, <1>2, <1>3, <1>4, <1>5, <2>2
       DEF IInv, CallFits, OwnSettings, At, Job, Pending, Fields
  <2>3. CASE d # c
    \* Another START is disturbed by this step; what is no START has no settings.
    <3>1. Kind(d, "start") => disturbed'[d]
      BY <1>5, <2>3
    <3>2. ~Kind(d, "start") => /\ stage[d] \notin {"setting", "set"} /\ ~Pending(d)
                               /\ job[d] # "fetching"
      BY DEF IInv, CallFits, StageFits, Pending
    <3> QED
      BY <1>3, <2>3, <3>1, <3>2 DEF OwnSettings, At, Job, Pending
  <2> QED
    BY <2>1, <2>2, <2>3
<1>11. OneByOne'
  <2> SUFFICES ASSUME ~overlapped' PROVE OneByOne'
    BY DEF OneByOne
  <2>1. ~overlapped /\ \A d \in Calls : d # c => ~Amid(d)
    BY <1>6
  <2>2. \A d \in Calls : d # c => ~Amid(d)' /\ ~AmidSetting(d)'
    BY <1>2, <1>3, <2>1 DEF Amid, AmidSetting, At, Job
  <2>3. \A d \in Calls : Job(d, "fetching") => d # c /\ done[d] = 0
    BY <1>1, <2>1 DEF Amid, Job, IInv, TypeOK
  <2>4. \A d \in Calls : Job(d, "fetching")' => \A f \in Fields : f <= done'[d] => used'[d][f] = settings'[f]
    BY <1>2, <2>3 DEF Job, Fields
  <2>5. WholeSettings'
    BY <2>1 DEF IInv, OneByOne, WholeSettings, Job
  <2>6. AmidSetting(c)' => \A f \in Fields : f <= done'[c] => settings'[f] = c
    <3> SUFFICES ASSUME AmidSetting(c)' PROVE \A f \in Fields : f <= done'[c] => settings'[f] = c
      OBVIOUS
    <3>1. done[c] \in {0, 1} /\ done'[c] = done[c] + 1 /\ target[c] = registrations
      BY <1>1, <1>2, <1>3 DEF AmidSetting, At
    <3>2. \A f \in Fields : f <= done[c] => settings[f] = c
      BY <1>1, <2>1, <3>1 DEF IInv, OneByOne, AmidSetting, At, Fields
    <3> QED
      BY <1>4, <3>1, <3>2 DEF Fields
  <2>7. (\A d \in Calls : ~AmidSetting(d)') => \A f, g \in Fields : settings'[f] = settings'[g]
    <3> SUFFICES ASSUME ~AmidSetting(c)' PROVE \A f, g \in Fields : settings'[f] = settings'[g]
      OBVIOUS
    <3>1. \A d \in Calls : d # c => ~AmidSetting(d)
      BY <2>1 DEF Amid, AmidSetting
    <3>2. CASE target[c] = registrations
      <4>1. done[c] = 2
        BY <1>1, <1>2, <1>3, <3>2 DEF AmidSetting, At
      <4>2. \A f \in Fields : f <= 2 => settings[f] = c
        BY <1>1, <2>1, <3>2, <4>1 DEF IInv, OneByOne, AmidSetting, At
      <4> QED
        BY <1>4, <3>2, <4>1, <4>2 DEF Fields
    <3>3. CASE target[c] # registrations
      BY <1>4, <2>1, <3>1, <3>3 DEF IInv, OneByOne, AmidSetting
    <3> QED
      BY <3>2, <3>3
  <2>8. \A d, e \in Calls : Amid(d)' /\ Amid(e)' => d = e
    BY <2>2
  <2>9. \A d \in Calls : AmidSetting(d)' => \A f \in Fields : f <= done'[d] => settings'[f] = d
    BY <2>2, <2>6
  <2> QED
    BY <2>4, <2>5, <2>7, <2>8, <2>9 DEF OneByOne
<1> QED
  BY <1>7, <1>8, <1>9, <1>10, <1>11 DEF IInv, CallFits

LEMMA AskToStartIInv == ASSUME IInv, NEW c \in Calls, AskToStart(c) PROVE IInv'
<1> USE DEF AskToStart, devvars, histvars, Asks, Goes, Turns
<1>1. TypeOK'
  <2>1. queue' \in Seq(Calls)
    BY Appended DEF IInv, TypeOK
  <2> QED
    BY <2>1 DEF IInv, TypeOK, Fields, Setters, Ends, Answered
<1>2. QueuesFit'
  <2>1. job[c] # "queued" /\ job[c] # "posted"
    BY DEF IInv, CallFits, StageFits, At, Job
  <2>2. OncePosted(queue, "queued")'
    BY <2>1, AppendedOnce DEF IInv, QueuesFit
  <2>3. OncePosted(posted, "posted")'
    BY <2>1 DEF IInv, QueuesFit, OncePosted, TypeOK
  <2> QED
    BY <2>2, <2>3 DEF QueuesFit
<1>3. \A d \in Calls : StageFits(d)'
  BY <1>1 DEF IInv, CallFits, StageFits, TypeOK, At, Kind, Job, Ends, Answered, Via, Goes, Turns
<1>4. \A d \in Calls : OwnSettings(d)'
  BY <1>1 DEF IInv, CallFits, StageFits, OwnSettings, TypeOK, At, Kind, Job, Pending, Ends,
     Answered, Fields
<1>5. OneByOne'
  BY <1>1 DEF IInv, CallFits, StageFits, OneByOne, AmidSetting, Amid, WholeSettings, TypeOK, At,
     Kind, Job, Fields, Ends, Answered
<1> QED
  BY <1>1, <1>2, <1>3, <1>4, <1>5 DEF IInv, CallFits

LEMMA HearIInv == ASSUME IInv, NEW c \in Calls, Hear(c) PROVE IInv'
<1> USE DEF Hear, devvars, histvars, Goes
<1>1. TypeOK'
  BY DEF IInv, TypeOK, Fields, Setters, Ends, Answered
<1>2. QueuesFit'
  BY <1>1 DEF IInv, TypeOK, QueuesFit, OncePosted, Job, Answered
<1>3. \A d \in Calls : StageFits(d)'
  BY <1>1 DEF IInv, CallFits, StageFits, TypeOK, At, Kind, Job, Ends, Answered, Via, Goes, Turns
<1>4. \A d \in Calls : OwnSettings(d)'
  BY <1>1 DEF IInv, CallFits, StageFits, OwnSettings, TypeOK, At, Kind, Job, Pending, Ends,
     Answered, Fields
<1>5. OneByOne'
  BY <1>1 DEF IInv, CallFits, StageFits, OneByOne, AmidSetting, Amid, WholeSettings, TypeOK, At,
     Kind, Job, Fields, Ends, Answered
<1> QED
  BY <1>1, <1>2, <1>3, <1>4, <1>5 DEF IInv, CallFits

LEMMA GiveUpIInv == ASSUME IInv, NEW c \in Calls, GiveUp(c) PROVE IInv'
<1> USE DEF GiveUp, devvars, histvars, Goes
<1>1. TypeOK'
  BY DEF IInv, TypeOK, Fields, Setters, Ends, Answered
<1>2. QueuesFit'
  BY <1>1 DEF IInv, TypeOK, QueuesFit, OncePosted, Job, Answered
<1>3. \A d \in Calls : StageFits(d)'
  BY <1>1 DEF IInv, CallFits, StageFits, TypeOK, At, Kind, Job, Ends, Answered, Via, Goes, Turns
<1>4. \A d \in Calls : OwnSettings(d)'
  BY <1>1 DEF IInv, CallFits, StageFits, OwnSettings, TypeOK, At, Kind, Job, Pending, Ends,
     Answered, Fields
<1>5. OneByOne'
  BY <1>1 DEF IInv, CallFits, StageFits, OneByOne, AmidSetting, Amid, WholeSettings, TypeOK, At,
     Kind, Job, Fields, Ends, Answered
<1> QED
  BY <1>1, <1>2, <1>3, <1>4, <1>5 DEF IInv, CallFits

LEMMA DisconnectIInv == ASSUME IInv, Disconnect PROVE IInv'
<1> USE DEF Disconnect, devvars, histvars
<1>1. TypeOK'
  BY DEF IInv, TypeOK, Fields, Setters, Ends, Answered
<1>2. QueuesFit'
  BY <1>1 DEF IInv, TypeOK, QueuesFit, OncePosted, Job, Answered
<1>3. \A d \in Calls : StageFits(d)'
  BY <1>1 DEF IInv, CallFits, StageFits, TypeOK, At, Kind, Job, Ends, Answered, Via, Goes, Turns
<1>4. \A d \in Calls : OwnSettings(d)'
  BY <1>1 DEF IInv, CallFits, StageFits, OwnSettings, TypeOK, At, Kind, Job, Pending, Ends,
     Answered, Fields
<1>5. OneByOne'
  BY <1>1 DEF IInv, CallFits, StageFits, OneByOne, AmidSetting, Amid, WholeSettings, TypeOK, At,
     Kind, Job, Fields, Ends, Answered
<1> QED
  BY <1>1, <1>2, <1>3, <1>4, <1>5 DEF IInv, CallFits

LEMMA RegisterIInv == ASSUME IInv, Register PROVE IInv'
<1> USE DEF Register, Registers, devvars, histvars, Defaults, InPool
<1>1. TypeOK'
  <2>1. job' \in [Calls -> {"none", "queued", "posted", "running", "fetching", "fetched", "begun",
                           "halted", "lost"} \cup Answered]
    BY DEF IInv, TypeOK
  <2>2. settings' \in [Fields -> Setters] /\ queue' \in Seq(Calls) /\ registrations' \in Nat
    BY DEF IInv, TypeOK, Setters
  <2>3. disturbed' \in [Calls -> BOOLEAN]
    BY DEF IInv, TypeOK
  <2> QED
    BY <2>1, <2>2, <2>3 DEF IInv, TypeOK
<1>2. QueuesFit'
  BY <1>1 DEF IInv, TypeOK, QueuesFit, OncePosted, Job, Answered
<1>3. \A d \in Calls : StageFits(d)'
  BY <1>1 DEF IInv, CallFits, StageFits, TypeOK, At, Kind, Job, Ends, Answered, Via, Goes, Turns
<1>4. \A d \in Calls : OwnSettings(d)'
  BY <1>1 DEF IInv, CallFits, StageFits, OwnSettings, TypeOK, At, Kind, Job, Pending, Ends,
     Answered, Fields
<1>5. OneByOne'
  BY <1>1 DEF IInv, CallFits, StageFits, OneByOne, AmidSetting, Amid, WholeSettings, TypeOK, At,
     Kind, Job, Fields, Ends, Answered
<1> QED
  BY <1>1, <1>2, <1>3, <1>4, <1>5 DEF IInv, CallFits

\* What moves the request of a call on, from the queue to the pool and from there to a
\* thread, changes nothing that the settings or a STOP depend on.
LEMMA MovesOn ==
    ASSUME IInv, TypeOK', QueuesFit', NEW c \in Calls, NEW j \in {"posted", "running"},
           job[c] \in {"queued", "posted"}, job' = [job EXCEPT ![c] = j],
           UNCHANGED <<stage, form, asked, registrations, connected, settings, target, used, done,
                       boot, startedBy, histvars>>
    PROVE  IInv'
<1> USE DEF histvars
<1>1. job'[c] = j /\ \A d \in Calls : d # c => job'[d] = job[d]
  BY DEF IInv, TypeOK
<1>2. \A d \in Calls : Pending(d)' <=> Pending(d)
  BY <1>1 DEF Pending
<1>3. \A d \in Calls : \A k \in {"fetching", "fetched", "halted", "accomplished"} :
        job'[d] = k <=> job[d] = k
  BY <1>1
<1>4. \A d \in Calls : StageFits(d)'
  BY <1>1 DEF IInv, CallFits, StageFits, At, Kind, Job
<1>5. \A d \in Calls : OwnSettings(d)'
  BY <1>2, <1>3 DEF IInv, CallFits, OwnSettings, At, Job
<1>6. OneByOne'
  BY <1>3 DEF IInv, OneByOne, AmidSetting, Amid, WholeSettings, At, Job
<1> QED
  BY <1>4, <1>5, <1>6 DEF IInv, CallFits

LEMMA DeliverIInv == ASSUME IInv, Deliver PROVE IInv'
<1>1. PICK c \in Calls : c = queue[Len(queue)]
  BY WithoutLast DEF IInv, TypeOK, Deliver
<1>2. /\ Len(queue) \in Nat \ {0} /\ queue' \in Seq(Calls) /\ Len(queue') = Len(queue) - 1
      /\ \A i \in 1..Len(queue) - 1 : queue'[i] = queue[i] /\ queue[i] \in Calls
  BY WithoutLast DEF IInv, TypeOK, Deliver
<1>3. /\ posted' \in Seq(Calls) /\ Len(posted') = Len(posted) + 1 /\ Len(posted) \in Nat
      /\ \A i \in 1..Len(posted) : posted'[i] = posted[i] /\ posted[i] \in Calls
      /\ posted'[Len(posted) + 1] = c
  BY <1>1, Appended DEF IInv, TypeOK, Deliver, Top
<1>4. job' = [job EXCEPT ![c] = "posted"]
  BY <1>1 DEF Deliver, Top, Turns
<1>5. job'[c] = "posted" /\ \A d \in Calls : d # c => job'[d] = job[d]
  BY <1>4 DEF IInv, TypeOK
<1>6. job[c] = "queued" /\ \A i \in 1..Len(queue) - 1 : queue[i] # c /\ job[queue[i]] = "queued"
  BY <1>1, <1>2 DEF IInv, QueuesFit, OncePosted
<1>7. TypeOK'
  BY <1>2, <1>3, <1>4 DEF IInv, TypeOK, Deliver, histvars
<1>8. OncePosted(queue, "queued")'
  <2>1. \A i \in 1..Len(queue') : i \in 1..Len(queue) /\ i \in 1..Len(queue) - 1
    BY <1>2
  <2>2. \A i \in 1..Len(queue') : job'[queue'[i]] = "queued"
    BY <1>2, <1>5, <1>6, <2>1
  <2>3. \A i, j \in 1..Len(queue) : queue[i] = queue[j] => i = j
    BY DEF IInv, QueuesFit, OncePosted
  <2>4. \A i, j \in 1..Len(queue') : queue'[i] = queue'[j] => i = j
    BY <1>2, <2>1, <2>3
  <2> QED
    BY <2>2, <2>4 DEF OncePosted
<1>9. OncePosted(posted, "posted")'
  <2>1. \A i \in 1..Len(posted) : job[posted[i]] = "posted" /\ posted[i] # c
    BY <1>6 DEF IInv, QueuesFit, OncePosted
  <2>2. \A i \in 1..Len(posted') : i \in 1..Len(posted) \/ i = Len(posted) + 1
    BY <1>3
  <2> QED
    BY <1>3, <1>5, <2>1, <2>2 DEF IInv, QueuesFit, OncePosted
<1> QED
  BY <1>4, <1>6, <1>7, <1>8, <1>9, MovesOn DEF QueuesFit, Deliver

LEMMA TakeIInv == ASSUME IInv, Take PROVE IInv'
<1>1. PICK c \in Calls : c = Head(posted)
  BY WithoutFirst DEF IInv, TypeOK, Take
<1>2. /\ Len(posted) \in Nat \ {0} /\ posted' \in Seq(Calls) /\ Len(posted') = Len(posted) - 1
      /\ c = posted[1] /\ \A i \in 1..Len(posted) : posted[i] \in Calls
      /\ \A i \in 1..Len(posted) - 1 : posted'[i] = posted[i + 1]
  BY <1>1, WithoutFirst DEF IInv, TypeOK, Take
<1>3. job' = [job EXCEPT ![c] = "running"]
  BY <1>1 DEF Take, Turns
<1>4. job'[c] = "running" /\ \A d \in Calls : d # c => job'[d] = job[d]
  BY <1>3 DEF IInv, TypeOK
<1>5. job[c] = "posted" /\ \A i \in 1..Len(posted) : i # 1 => posted[i] # c /\ job[posted[i]] = "posted"
  BY <1>2 DEF IInv, QueuesFit, OncePosted
<1>6. TypeOK'
  BY <1>2, <1>3 DEF IInv, TypeOK, Take, histvars
<1>7. OncePosted(posted, "posted")'
  <2>1. \A i \in 1..Len(posted') : i \in 1..Len(posted) - 1 /\ i + 1 \in 1..Len(posted) /\ i + 1 # 1
    BY <1>2
  <2>2. \A i \in 1..Len(posted') : job'[posted'[i]] = "posted"
    BY <1>2, <1>4, <1>5, <2>1
  <2>3. ASSUME NEW i \in 1..Len(posted'), NEW k \in 1..Len(posted'), posted'[i] = posted'[k]
        PROVE  i = k
    <3>1. posted[i + 1] = posted[k + 1]
      BY <1>2, <2>1, <2>3
    <3>2. i + 1 = k + 1
      BY <2>1, <3>1 DEF IInv, QueuesFit, OncePosted
    <3> QED
      BY <1>2, <3>2
  <2> QED
    BY <2>2, <2>3 DEF OncePosted
<1>8. OncePosted(queue, "queued")'
  <2>1. queue' = queue
    BY DEF Take
  <2>2. \A i \in 1..Len(queue) : job[queue[i]] = "queued" /\ queue[i] \in Calls /\ queue[i] # c
    BY <1>5 DEF IInv, QueuesFit, OncePosted, TypeOK
  <2> QED
    BY <1>4, <2>1, <2>2 DEF IInv, QueuesFit, OncePosted
<1> QED
  BY <1>3, <1>5, <1>6, <1>7, <1>8, MovesOn DEF QueuesFit, Take

-----------------------------------------------------------------------------
(* The device.                                                              *)

LEMMA HandleQueryIInv == ASSUME IInv, NEW c \in Calls, HandleQuery(c) PROVE IInv'
<1> USE DEF HandleQuery, devvars, histvars, Responds, Handled, Turns
<1>1. TypeOK'
  BY DEF IInv, TypeOK, Fields, Setters, Ends, Answered
<1>2. QueuesFit'
  BY <1>1 DEF IInv, TypeOK, QueuesFit, OncePosted, Job, Answered
<1>3. \A d \in Calls : StageFits(d)'
  BY <1>1 DEF IInv, CallFits, StageFits, TypeOK, At, Kind, Job, Ends, Answered, Via, Goes, Turns
<1>4. \A d \in Calls : OwnSettings(d)'
  BY <1>1 DEF IInv, CallFits, StageFits, OwnSettings, TypeOK, At, Kind, Job, Pending, Ends,
     Answered, Fields
<1>5. OneByOne'
  BY <1>1 DEF IInv, CallFits, StageFits, OneByOne, AmidSetting, Amid, WholeSettings, TypeOK, At,
     Kind, Job, Fields, Ends, Answered
<1> QED
  BY <1>1, <1>2, <1>3, <1>4, <1>5 DEF IInv, CallFits

LEMMA HandleStopIInv == ASSUME IInv, NEW c \in Calls, HandleStop(c) PROVE IInv'
<1> USE DEF HandleStop, devvars, histvars, Turns
<1>1. TypeOK'
  BY DEF IInv, TypeOK, Fields, Setters, Ends, Answered
<1>2. QueuesFit'
  BY <1>1 DEF IInv, TypeOK, QueuesFit, OncePosted, Job, Answered
<1>3. \A d \in Calls : StageFits(d)'
  BY <1>1 DEF IInv, CallFits, StageFits, TypeOK, At, Kind, Job, Ends, Answered, Via, Goes, Turns
<1>4. \A d \in Calls : OwnSettings(d)'
  BY <1>1 DEF IInv, CallFits, StageFits, OwnSettings, TypeOK, At, Kind, Job, Pending, Ends,
     Answered, Fields
<1>5. OneByOne'
  BY <1>1 DEF IInv, CallFits, StageFits, OneByOne, AmidSetting, Amid, WholeSettings, TypeOK, At,
     Kind, Job, Fields, Ends, Answered
<1> QED
  BY <1>1, <1>2, <1>3, <1>4, <1>5 DEF IInv, CallFits

LEMMA HandleStartIInv == ASSUME IInv, NEW c \in Calls, HandleStart(c) PROVE IInv'
<1> USE DEF HandleStart, devvars, histvars, Responds, Handled, Turns
<1>1. TypeOK'
  BY ZenonT(40) DEF IInv, TypeOK, Fields, Setters, Ends, Answered
<1>2. QueuesFit'
  BY <1>1 DEF IInv, TypeOK, QueuesFit, OncePosted, Job, Answered
<1>3. \A d \in Calls : StageFits(d)'
  BY <1>1 DEF IInv, CallFits, StageFits, TypeOK, At, Kind, Job, Ends, Answered, Via, Goes, Turns
<1>4. \A d \in Calls : OwnSettings(d)'
  BY <1>1 DEF IInv, CallFits, StageFits, OwnSettings, TypeOK, At, Kind, Job, Pending, Ends,
     Answered, Fields
<1>5. OneByOne'
  BY <1>1 DEF IInv, CallFits, StageFits, OneByOne, AmidSetting, Amid, WholeSettings, TypeOK, At,
     Kind, Job, Fields, Ends, Answered
<1> QED
  BY <1>1, <1>2, <1>3, <1>4, <1>5 DEF IInv, CallFits

LEMMA FetchFieldIInv == ASSUME IInv, NEW c \in Calls, FetchField(c) PROVE IInv'
<1> USE DEF FetchField
<1>1. /\ job[c] = "fetching" /\ asked[c] = "start" /\ Kind(c, "start") /\ done[c] \in 0..2
      /\ stage[c] \notin {"idle", "listing", "setting", "set"} /\ Pending(c)
  BY DEF IInv, TypeOK, CallFits, StageFits, At, Job, Pending
<1>2. /\ done'[c] = IF done[c] = 2 THEN 0 ELSE done[c] + 1
      /\ \A d \in Calls : d # c => done'[d] = done[d]
  BY <1>1 DEF IInv, TypeOK
<1>3. /\ job'[c] = IF done[c] = 2 THEN "fetched" ELSE "fetching"
      /\ \A d \in Calls : d # c => job'[d] = job[d]
  BY <1>1 DEF IInv, TypeOK, Turns
<1>4. used' = [used EXCEPT ![c] = [used[c] EXCEPT ![done[c] + 1] = settings[done[c] + 1]]]
  OBVIOUS
<1>5. used[c] \in [Fields -> Setters] /\ done[c] + 1 \in Fields /\ settings[done[c] + 1] \in Setters
  BY <1>1 DEF IInv, TypeOK, Fields
<1>6. used' \in [Calls -> [Fields -> Setters]]
  <2>1. [used[c] EXCEPT ![done[c] + 1] = settings[done[c] + 1]] \in [Fields -> Setters]
    BY <1>5
  <2> QED
    BY <1>4, <2>1 DEF IInv, TypeOK
<1>7. /\ used'[c][done[c] + 1] = settings[done[c] + 1]
      /\ \A f \in Fields : f # done[c] + 1 => used'[c][f] = used[c][f]
      /\ \A d \in Calls : d # c => used'[d] = used[d]
  <2>1. used'[c] = [used[c] EXCEPT ![done[c] + 1] = settings[done[c] + 1]]
    BY <1>4 DEF IInv, TypeOK
  <2> QED
    BY <1>4, <1>5, <2>1 DEF IInv, TypeOK
<1>8. overlapped' = (overlapped \/ \E d \in Calls \ {c} : Amid(d))
  BY DEF NotAlone
<1>9. TypeOK'
  <2>1. done' \in [Calls -> 0..2]
    BY <1>1 DEF IInv, TypeOK
  <2>2. job' \in [Calls -> {"none", "queued", "posted", "running", "fetching", "fetched", "begun",
                           "halted", "lost"} \cup Answered]
    BY DEF IInv, TypeOK, Turns
  <2> QED
    BY <1>6, <1>8, <2>1, <2>2 DEF IInv, TypeOK
<1>10. QueuesFit'
  <2>1. UNCHANGED <<queue, posted>>
    OBVIOUS
  <2>2. \A d \in Calls : job[d] \in {"queued", "posted"} => job'[d] = job[d]
    BY <1>1, <1>3
  <2> QED
    BY <2>1, <2>2 DEF IInv, QueuesFit, OncePosted, TypeOK
<1>11. \A d \in Calls : StageFits(d)'
  BY <1>1, <1>2, <1>3 DEF IInv, CallFits, StageFits, At, Kind, Job
<1>12. \A d \in Calls : OwnSettings(d)'
  <2> SUFFICES ASSUME NEW d \in Calls PROVE OwnSettings(d)'
    OBVIOUS
  <2>1. CASE d = c
    <3>1. ~disturbed[c] => /\ \A f \in Fields : settings[f] = c
                           /\ \A f \in Fields : f <= done[c] => used[c][f] = c
      BY <1>1 DEF IInv, CallFits, OwnSettings, Job
    <3>2. ~disturbed[c] => \A f \in Fields : f <= done[c] + 1 => used'[c][f] = c
      BY <1>1, <1>5, <1>7, <3>1 DEF Fields
    <3> QED
      BY <1>1, <1>2, <1>3, <2>1, <3>1, <3>2 DEF OwnSettings, At, Job
  <2>2. CASE d # c
    BY <1>2, <1>3, <1>7, <2>2 DEF IInv, CallFits, OwnSettings, At, Job, Pending
  <2> QED
    BY <2>1, <2>2
<1>13. OneByOne'
  <2> SUFFICES ASSUME ~overlapped' PROVE OneByOne'
    BY DEF OneByOne
  <2>1. ~overlapped /\ \A d \in Calls : d # c => ~Amid(d)
    BY <1>8
  <2>2. \A d \in Calls : d # c => ~Amid(d)'
    BY <1>2, <1>3, <2>1 DEF Amid, At, Job
  \* Nobody is amid setting: the settings are whole.
  <2>3. \A d \in Calls : ~AmidSetting(d) /\ ~AmidSetting(d)'
    BY <1>1, <2>1, <2>2 DEF Amid, AmidSetting, At
  <2>4. \A f, g \in Fields : settings[f] = settings[g]
    BY <2>1, <2>3 DEF IInv, OneByOne
  <2>5. \A f \in Fields : f <= done[c] => used[c][f] = settings[f]
    BY <1>1, <2>1 DEF IInv, OneByOne, Job
  <2>6. \A f \in Fields : f <= done[c] + 1 => used'[c][f] = settings[f]
    BY <1>1, <1>5, <1>7, <2>5 DEF Fields
  <2>7. \A d \in Calls : Job(d, "fetching")' =>
          \A f \in Fields : f <= done'[d] => used'[d][f] = settings'[f]
    BY <1>1, <1>2, <1>3, <1>7, <2>1, <2>6 DEF IInv, OneByOne, Job
  <2>8. done[c] = 2 => \A f, g \in Fields : used'[c][f] = used'[c][g]
    BY <2>4, <2>6 DEF Fields
  <2>9. WholeSettings'
    BY <1>1, <1>3, <1>7, <2>1, <2>8 DEF IInv, OneByOne, WholeSettings, Job
  <2>10. \A f, g \in Fields : settings'[f] = settings'[g]
    BY <2>4
  <2> QED
    BY <2>2, <2>3, <2>7, <2>9, <2>10 DEF OneByOne
<1> QED
  BY <1>9, <1>10, <1>11, <1>12, <1>13 DEF IInv, CallFits

LEMMA FailToStartIInv == ASSUME IInv, NEW c \in Calls, FailToStart(c) PROVE IInv'
<1> USE DEF FailToStart, devvars, histvars, Responds, Turns, Defaults
<1>1. TypeOK'
  BY DEF IInv, TypeOK, Fields, Setters, Ends, Answered
<1>2. QueuesFit'
  BY <1>1 DEF IInv, TypeOK, QueuesFit, OncePosted, Job, Answered
<1>3. \A d \in Calls : StageFits(d)'
  BY <1>1 DEF IInv, CallFits, StageFits, TypeOK, At, Kind, Job, Ends, Answered, Via, Goes, Turns
<1>4. \A d \in Calls : OwnSettings(d)'
  BY <1>1 DEF IInv, CallFits, StageFits, OwnSettings, TypeOK, At, Kind, Job, Pending, Ends,
     Answered, Fields
<1>5. OneByOne'
  BY <1>1 DEF IInv, CallFits, StageFits, OneByOne, AmidSetting, Amid, WholeSettings, TypeOK, At,
     Kind, Job, Fields, Ends, Answered
<1> QED
  BY <1>1, <1>2, <1>3, <1>4, <1>5 DEF IInv, CallFits

LEMMA StartMeasuringIInv == ASSUME IInv, NEW c \in Calls, StartMeasuring(c) PROVE IInv'
<1> USE DEF StartMeasuring, devvars, histvars, Turns, Defaults
<1>1. TypeOK'
  BY DEF IInv, TypeOK, Fields, Setters, Ends, Answered
<1>2. QueuesFit'
  BY <1>1 DEF IInv, TypeOK, QueuesFit, OncePosted, Job, Answered
<1>3. \A d \in Calls : StageFits(d)'
  BY <1>1 DEF IInv, CallFits, StageFits, TypeOK, At, Kind, Job, Ends, Answered, Via, Goes, Turns
<1>4. \A d \in Calls : OwnSettings(d)'
  BY <1>1 DEF IInv, CallFits, StageFits, OwnSettings, TypeOK, At, Kind, Job, Pending, Ends,
     Answered, Fields
<1>5. OneByOne'
  BY <1>1 DEF IInv, CallFits, StageFits, OneByOne, AmidSetting, Amid, WholeSettings, TypeOK, At,
     Kind, Job, Fields, Ends, Answered
<1> QED
  BY <1>1, <1>2, <1>3, <1>4, <1>5 DEF IInv, CallFits

LEMMA ConcludeIInv == ASSUME IInv, NEW c \in Calls, Conclude(c) PROVE IInv'
<1> USE DEF Conclude, devvars, histvars, Responds, Handled, Turns
<1>1. TypeOK'
  BY DEF IInv, TypeOK, Fields, Setters, Ends, Answered
<1>2. QueuesFit'
  BY <1>1 DEF IInv, TypeOK, QueuesFit, OncePosted, Job, Answered
<1>3. \A d \in Calls : StageFits(d)'
  BY <1>1 DEF IInv, CallFits, StageFits, TypeOK, At, Kind, Job, Ends, Answered, Via, Goes, Turns
<1>4. \A d \in Calls : OwnSettings(d)'
  BY <1>1 DEF IInv, CallFits, StageFits, OwnSettings, TypeOK, At, Kind, Job, Pending, Ends,
     Answered, Fields
<1>5. OneByOne'
  BY <1>1 DEF IInv, CallFits, StageFits, OneByOne, AmidSetting, Amid, WholeSettings, TypeOK, At,
     Kind, Job, Fields, Ends, Answered
<1> QED
  BY <1>1, <1>2, <1>3, <1>4, <1>5 DEF IInv, CallFits

LEMMA StartItselfIInv == ASSUME IInv, StartItself PROVE IInv'
<1> USE DEF StartItself, histvars
<1>1. TypeOK'
  BY DEF IInv, TypeOK
<1>2. QueuesFit'
  BY DEF IInv, QueuesFit, OncePosted
<1>3. \A d \in Calls : StageFits(d)' /\ OwnSettings(d)'
  BY DEF IInv, CallFits, StageFits, OwnSettings, Pending, At, Kind, Job
<1>4. OneByOne'
  BY DEF IInv, OneByOne, AmidSetting, Amid, WholeSettings, At, Job
<1> QED
  BY <1>1, <1>2, <1>3, <1>4 DEF IInv, CallFits

LEMMA RestartIInv == ASSUME IInv, Restart PROVE IInv'
<1>1. \A d \in Calls : /\ job'[d] = IF d \in InPool THEN "lost" ELSE job[d]
                       /\ done'[d] = IF job[d] = "fetching" THEN 0 ELSE done[d]
  BY DEF Restart, Job
<1>2. UNCHANGED <<stage, form, asked, registrations, settings, target, queue, disturbed, overlapped>>
  BY DEF Restart
<1>3. \A d \in Calls : job'[d] \notin {"posted", "running", "fetching", "fetched", "begun", "halted"}
  BY <1>1 DEF InPool
<1>4. TypeOK'
  <2>1. job' \in [Calls -> {"none", "queued", "posted", "running", "fetching", "fetched", "begun",
                           "halted", "lost"} \cup Answered]
    <3>1. \A d \in Calls : job[d] \in {"none", "queued", "posted", "running", "fetching", "fetched",
                                       "begun", "halted", "lost"} \cup Answered
      BY DEF IInv, TypeOK
    <3>2. job' = [d \in Calls |-> IF d \in InPool THEN "lost" ELSE job[d]]
      BY DEF Restart
    <3> QED
      BY <3>1, <3>2
  <2>2. posted' \in Seq(Calls) /\ connected' \in BOOLEAN
    <3>1. posted' = <<>> /\ connected' = FALSE
      BY DEF Restart
    <3>2. <<>> \in Seq(Calls)
      OBVIOUS
    <3> QED
      BY <3>1, <3>2
  <2>3. used' \in [Calls -> [Fields -> Setters]] /\ done' \in [Calls -> 0..2]
    BY DEF Restart, IInv, TypeOK, Defaults, Setters
  <2>4. boot' \in {"first", "again", "over"} /\ startedBy' \in Calls \cup {Itself, None}
        /\ settled' \in [Calls -> SUBSET (Calls \cup {Itself})]
    BY DEF Restart, IInv, TypeOK
  <2> QED
    BY <1>2, <2>1, <2>2, <2>3, <2>4 DEF IInv, TypeOK
<1>5. QueuesFit'
  <2>1. \A i \in 1..Len(queue) : queue[i] \in Calls /\ job[queue[i]] = "queued"
    BY DEF IInv, QueuesFit, OncePosted, TypeOK
  <2>2. \A i \in 1..Len(queue) : job'[queue[i]] = "queued"
    BY <1>1, <2>1 DEF InPool
  <2>3. OncePosted(queue, "queued")'
    BY <1>2, <2>2 DEF IInv, QueuesFit, OncePosted
  <2>4. OncePosted(posted, "posted")'
    BY DEF Restart, OncePosted
  <2> QED
    BY <2>3, <2>4 DEF QueuesFit
<1>6. \A d \in Calls : StageFits(d)'
  BY <1>1, <1>2, <1>3 DEF IInv, CallFits, StageFits, InPool, At, Kind, Job
<1>7. \A d \in Calls : OwnSettings(d)'
  <2>1. \A d \in Calls : Pending(d)' => Pending(d)
    BY <1>1, <1>2, <1>3 DEF Pending
  <2>2. \A d \in Calls : At(d, "setting") => done'[d] = done[d]
    BY <1>1 DEF IInv, CallFits, StageFits, At
  <2> QED
    BY <1>2, <1>3, <2>1, <2>2 DEF IInv, CallFits, OwnSettings, At, Job
<1>8. OneByOne'
  <2>1. \A d \in Calls : AmidSetting(d)' <=> AmidSetting(d)
    BY <1>1, <1>2 DEF IInv, CallFits, StageFits, AmidSetting, At
  <2>2. \A d \in Calls : Amid(d)' => Amid(d)
    BY <1>1, <1>2, <1>3 DEF Amid, At, Job
  <2>3. \A d \in Calls : AmidSetting(d) => done'[d] = done[d]
    BY <1>1 DEF IInv, CallFits, StageFits, AmidSetting, At
  <2>4. \A d \in Calls : ~Job(d, "fetching")' /\ ~Job(d, "fetched")'
    BY <1>3 DEF Job
  <2> QED
    BY <1>2, <2>1, <2>2, <2>3, <2>4 DEF IInv, OneByOne, WholeSettings
<1> QED
  BY <1>4, <1>5, <1>6, <1>7, <1>8 DEF IInv, CallFits

-----------------------------------------------------------------------------
(* The theorems.                                                            *)

LEMMA InitIInv == ASSUME Init PROVE IInv
<1> USE DEF Init
<1>1. form \in [Calls -> [via : Vias, kind : Kinds, offered : BOOLEAN]]
  BY DEF Forms
<1>2. settings \in [Fields -> Setters] /\ used \in [Calls -> [Fields -> Setters]]
  BY DEF Defaults, Setters
<1>3. queue \in Seq(Calls) /\ posted \in Seq(Calls)
  OBVIOUS
<1>4. job \in [Calls -> {"none", "queued", "posted", "running", "fetching", "fetched", "begun", "halted",
                      "lost"} \cup Answered]
  OBVIOUS
<1>5. TypeOK
  <2>1. /\ stage \in [Calls -> {"idle", "listing", "setting", "set", "waiting"} \cup Ends]
        /\ asked \in [Calls -> {"none", "list", "start", "stop", "query"}]
        /\ target \in [Calls -> Nat] /\ done \in [Calls -> 0..2] /\ disturbed \in [Calls -> BOOLEAN]
    OBVIOUS
  <2>2. registrations \in Nat /\ connected \in BOOLEAN /\ overlapped \in BOOLEAN
    OBVIOUS
  <2>3. /\ boot \in {"first", "again", "over"} /\ startedBy \in Calls \cup {Itself, None}
        /\ settled \in [Calls -> SUBSET (Calls \cup {Itself})]
    OBVIOUS
  <2> HIDE DEF Init
  <2> QED
    BY <1>1, <1>2, <1>3, <1>4, <2>1, <2>2, <2>3 DEF TypeOK
<1>6. QueuesFit
  BY DEF QueuesFit, OncePosted
<1>7. \A c \in Calls : CallFits(c)
  BY DEF CallFits, StageFits, OwnSettings, At, Job, Kind, Pending
<1>8. OneByOne
  BY DEF OneByOne, Amid, AmidSetting, At, Job, WholeSettings, Defaults
<1> QED
  BY <1>5, <1>6, <1>7, <1>8 DEF IInv

LEMMA NextIInv == ASSUME IInv, [Next]_vars PROVE IInv'
<1>1. ASSUME NEW c \in Calls, Begin(c) PROVE IInv'
  BY <1>1, BeginWebIInv, BeginConsoleIInv, BeginServerIInv, BeginLibraryIInv DEF Begin
<1>2. ASSUME NEW c \in Calls, Proceed(c) PROVE IInv'
  BY <1>2, HearListWebIInv, HearListConsoleIInv, GiveUpListIInv, SetMsmtSttingsIInv,
     AskToStartIInv, HearIInv, GiveUpIInv DEF Proceed
<1>3. ASSUME NEW c \in Calls, Handle(c) PROVE IInv'
  BY <1>3, HandleQueryIInv, HandleStopIInv, HandleStartIInv, FetchFieldIInv, FailToStartIInv,
     StartMeasuringIInv, ConcludeIInv DEF Handle
<1>4. CASE UNCHANGED vars
  BY <1>4 DEF vars, IInv, TypeOK, QueuesFit, OncePosted, CallFits, StageFits, OwnSettings,
              OneByOne, AmidSetting, Amid, WholeSettings, Pending, At, Kind, Job
<1> QED
  BY <1>1, <1>2, <1>3, <1>4, DisconnectIInv, RegisterIInv, DeliverIInv, TakeIInv,
     StartItselfIInv, RestartIInv DEF Next

LEMMA Invariance == Spec => []IInv
<1>1. Init => IInv
  BY InitIInv
<1>2. IInv /\ [Next]_vars => IInv'
  BY NextIInv
<1> QED
  BY <1>1, <1>2, PTL DEF Spec

\* Every variable keeps its type: a call is in one of its stages, its request in one
\* place, and who set a field is a call or the registration.
THEOREM TypeCorrect == Spec => []TypeOK
<1>1. IInv => TypeOK
  BY DEF IInv
<1> QED
  BY <1>1, Invariance, PTL

\* The settings a START has fetched are those of one call, or of a registration, unless
\* two accessed them at a time (setMsmtSttings and getMsmtSettings of server.py).
THEOREM SettingsAreWhole == Spec => []WholeSettings
<1>1. IInv => WholeSettings
  BY DEF IInv, OneByOne, WholeSettings, NotAlone
<1> QED
  BY <1>1, Invariance, PTL

\* Only FetchField ends the fetching of a START.
LEMMA StepFetchesOwn == ASSUME IInv, [Next]_vars PROVE FetchesOwn
<1> SUFFICES ASSUME NEW c \in Calls, Job(c, "fetching"), job'[c] = "fetched", ~disturbed[c]
             PROVE  \A f \in Fields : used'[c][f] = c
  BY DEF FetchesOwn
<1>1. job[c] = "fetching" /\ done[c] \in 0..2
  BY DEF Job, IInv, TypeOK
<1>2. job \in [Calls -> {"none", "queued", "posted", "running", "fetching", "fetched", "begun", "halted",
                         "lost"} \cup Answered]
  BY DEF IInv, TypeOK
<1>3. ASSUME NEW d \in Calls, Begin(d) PROVE FALSE
  BY <1>1, <1>2, <1>3 DEF Begin, BeginWeb, BeginConsole, BeginServer, BeginLibrary, AskSimply,
     AskForList,
                    BeginSetting, Unreached, Asks, Turns
<1>4. ASSUME NEW d \in Calls, Proceed(d) PROVE FALSE
  BY <1>1, <1>2, <1>4 DEF Proceed, HearListWeb, HearListConsole, GiveUpList, SetMsmtSttings,
     AskToStart, Hear,
                    GiveUp, Asks, Turns
<1>5. ASSUME NEW d \in Calls, Handle(d), ~FetchField(d) PROVE FALSE
  BY <1>1, <1>2, <1>5 DEF Handle, HandleQuery, HandleStop, HandleStart, FailToStart,
     StartMeasuring, Conclude,
                    Responds, Turns, Job, Answered
<1>6. ~Disconnect /\ ~Register /\ ~Deliver /\ ~Take /\ ~UNCHANGED vars
  BY <1>1, <1>2 DEF Disconnect, Register, Registers, Deliver, Take, Turns, vars, Answered
<1>12. ~StartItself /\ ~Restart
  BY <1>1, <1>2 DEF StartItself, Restart, InPool
<1>7. PICK d \in Calls : FetchField(d)
  BY <1>3, <1>4, <1>5, <1>6, <1>12 DEF Next
<1>8. d = c /\ done[c] = 2
  BY <1>1, <1>2, <1>7 DEF FetchField, Turns
<1>9. \A f \in Fields : settings[f] = c /\ (f <= 2 => used[c][f] = c)
  BY <1>1, <1>8 DEF IInv, CallFits, StageFits, OwnSettings, Pending, Job
<1>10. used'[c] = [used[c] EXCEPT ![3] = settings[3]]
  BY <1>7, <1>8 DEF FetchField, IInv, TypeOK
<1>11. used[c] \in [Fields -> Setters]
  BY DEF IInv, TypeOK
<1> QED
  BY <1>9, <1>10, <1>11 DEF Fields

\* A START that nobody came in between fetches what its own call has set, all of it
\* (startMeasurement of app.py and cli.py, getMsmtSettings of server.py).
THEOREM OwnSettingsFetched == Spec => StartsUseOwnSettings
<1>1. IInv /\ [Next]_vars => [FetchesOwn]_vars
  BY StepFetchesOwn
<1> QED
  BY <1>1, Invariance, PTL DEF Spec, StartsUseOwnSettings

-----------------------------------------------------------------------------
(* What a STOP leaves.                                                      *)

Stopped(c) == Kind(c, "stop") /\ (At(c, "ok") \/ job[c] \in {"halted", "accomplished"})

\* What was settled when the STOP was asked for stays settled, and the device does not
\* measure on account of it.
StopFits(c) ==
    /\ \A d \in settled[c] \ {Itself} : asked[d] = "start" /\ ~Pending(d)
    /\ Itself \in settled[c] => boot = "over"
    /\ Stopped(c) => startedBy \notin settled[c]
StopsFit == \A c \in Calls : StopFits(c)

\* No step brings a START back.
NoneReturns == \A d \in Calls : asked[d] = "start" /\ ~Pending(d) =>
                                   asked'[d] = "start" /\ ~Pending(d)'

LEMMA StopKept ==
    ASSUME TypeOK, NEW c \in Calls, StopFits(c), NoneReturns, settled'[c] \subseteq settled[c],
           Itself \in settled'[c] /\ boot = "over" => boot' = "over",
           startedBy' = startedBy \/ startedBy' \notin settled'[c],
           Stopped(c)' => Stopped(c) \/ startedBy' \notin settled'[c]
    PROVE  StopFits(c)'
<1>1. \A d \in settled'[c] \ {Itself} : asked'[d] = "start" /\ ~Pending(d)'
  BY DEF StopFits, NoneReturns, TypeOK
<1> QED
  BY <1>1 DEF StopFits

\* A step that starts no measurement and asks for no STOP.
LEMMA StopsKept ==
    ASSUME TypeOK, StopsFit, NoneReturns, UNCHANGED settled, UNCHANGED boot, UNCHANGED form,
           startedBy' = startedBy \/ startedBy' = None,
           \A c \in Calls : Stopped(c)' => Stopped(c) \/ startedBy' = None
    PROVE  StopsFit'
<1>1. \A c \in Calls : None \notin settled[c]
  BY ItselfAssumption DEF TypeOK
<1> QED
  BY <1>1, StopKept DEF StopsFit

LEMMA AskSimplyStops ==
    ASSUME IInv, StopsFit, NEW c \in Calls, At(c, "idle"), AskSimply(c), Begun
    PROVE  StopsFit'
<1>1. /\ stage[c] = "idle" /\ job[c] = "none" /\ asked[c] # "start" /\ TypeOK
  BY DEF IInv, CallFits, StageFits, At, Job
<1>2. /\ stage'[c] = "waiting" /\ \A d \in Calls : d # c => stage'[d] = stage[d]
      /\ asked'[c] # "start" /\ \A d \in Calls : d # c => asked'[d] = asked[d]
      /\ job'[c] = "queued" /\ \A d \in Calls : d # c => job'[d] = job[d]
      /\ form' = form /\ boot' = boot /\ startedBy' = startedBy
  BY <1>1 DEF TypeOK, AskSimply, Asks, Goes, Turns, Kind, Kinds, Begun, devvars
<1>3. NoneReturns
  BY <1>1, <1>2 DEF NoneReturns, Pending
<1>4. \A d \in Calls : Stopped(d)' => Stopped(d)
  BY <1>1, <1>2 DEF Stopped, Kind, At
<1>5. \A d \in Calls : d # c => StopFits(d)'
  <2> SUFFICES ASSUME NEW d \in Calls, d # c PROVE StopFits(d)'
    OBVIOUS
  <2>1. settled'[d] = settled[d]
    BY <1>1 DEF AskSimply, TypeOK
  <2> QED
    BY <1>1, <1>2, <1>3, <1>4, <2>1, StopKept DEF StopsFit
<1>6. StopFits(c)'
  <2>1. CASE settled' = settled
    BY <1>1, <1>2, <1>3, <1>4, <2>1, StopKept DEF StopsFit
  <2>2. CASE settled' = [settled EXCEPT ![c] = Settled]
    <3>1. settled'[c] = Settled /\ ~Stopped(c)'
      BY <1>1, <1>2, <2>2 DEF TypeOK, Stopped, At
    <3>2. \A d \in Settled \ {Itself} : asked'[d] = "start" /\ ~Pending(d)'
      BY <1>3 DEF Settled, NoneReturns
    <3>3. Itself \in Settled => boot' = "over"
      BY <1>2, ItselfAssumption DEF Settled
    <3> QED
      BY <3>1, <3>2, <3>3 DEF StopFits
  <2> QED
    BY <2>1, <2>2 DEF AskSimply
<1> QED
  BY <1>5, <1>6 DEF StopsFit

LEMMA BeginStops ==
    ASSUME IInv, StopsFit, NEW c \in Calls, Begin(c)
    PROVE  StopsFit'
<1>1. /\ stage[c] = "idle" /\ job[c] = "none" /\ asked[c] # "start" /\ TypeOK
  BY DEF IInv, CallFits, StageFits, At, Job, Begin, BeginWeb, BeginConsole, BeginServer, BeginLibrary
<1>2. CASE AskSimply(c)
  BY <1>2, AskSimplyStops DEF Begin, BeginWeb, BeginConsole, BeginServer, BeginLibrary
<1>3. CASE ~AskSimply(c)
  <2>1. AskForList(c) \/ Unreached(c) \/ (BeginSetting(c) /\ UNCHANGED <<asked, queue, job, settled>>)
    BY <1>3 DEF Begin, BeginWeb, BeginConsole, BeginServer, BeginLibrary
  <2>2. Begun
    BY DEF Begin, BeginWeb, BeginConsole, BeginServer, BeginLibrary
  <2>3. /\ stage'[c] # "ok" /\ \A d \in Calls : d # c => stage'[d] = stage[d]
        /\ asked'[c] # "start" /\ \A d \in Calls : d # c => asked'[d] = asked[d]
        /\ job'[c] \in {"none", "queued"} /\ \A d \in Calls : d # c => job'[d] = job[d]
        /\ settled' = settled
    BY <1>1, <2>1 DEF TypeOK, AskForList, Unreached, BeginSetting, Asks, Goes, Turns
  <2>4. form' = form /\ boot' = boot /\ startedBy' = startedBy
    BY <2>2 DEF Begun, devvars
  <2>5. NoneReturns
    BY <1>1, <2>3 DEF NoneReturns, Pending
  <2>6. \A d \in Calls : Stopped(d)' => Stopped(d)
    BY <2>3, <2>4 DEF Stopped, Kind, At
  <2> QED
    BY <1>1, <2>3, <2>4, <2>5, <2>6, StopsKept
<1> QED
  BY <1>2, <1>3

LEMMA ProceedStops ==
    ASSUME IInv, StopsFit, NEW c \in Calls, Proceed(c)
    PROVE  StopsFit'
<1>1. TypeOK /\ StageFits(c)
  BY DEF IInv, CallFits
<1>2. UNCHANGED <<form, boot, startedBy, settled>>
  BY DEF Proceed, HearListWeb, HearListConsole, GiveUpList, SetMsmtSttings, AskToStart, Hear, GiveUp,
         devvars, histvars
<1>3. CASE HearListWeb(c) \/ HearListConsole(c)
  <2>1. /\ stage'[c] # "ok" /\ \A d \in Calls : d # c => stage'[d] = stage[d]
        /\ asked' = asked /\ job'[c] = "none" /\ \A d \in Calls : d # c => job'[d] = job[d]
    BY <1>1, <1>3 DEF HearListWeb, HearListConsole, BeginSetting, Goes, Turns, TypeOK
  <2>2. NoneReturns
    BY <2>1 DEF NoneReturns, Pending
  <2>3. \A d \in Calls : Stopped(d)' => Stopped(d)
    BY <1>2, <2>1 DEF Stopped, Kind, At
  <2> QED
    BY <1>1, <1>2, <2>2, <2>3, StopsKept
<1>4. CASE GiveUpList(c) \/ GiveUp(c) \/ SetMsmtSttings(c)
  <2>1. /\ \A d \in Calls : stage'[d] = stage[d] \/ stage'[d] # "ok"
        /\ asked' = asked /\ job' = job
    BY <1>1, <1>4 DEF GiveUpList, GiveUp, SetMsmtSttings, Goes, TypeOK, devvars
  <2>2. NoneReturns
    BY <2>1 DEF NoneReturns, Pending
  <2>3. \A d \in Calls : Stopped(d)' => Stopped(d)
    BY <1>2, <2>1 DEF Stopped, Kind, At
  <2> QED
    BY <1>1, <1>2, <2>2, <2>3, StopsKept
<1>5. CASE Hear(c)
  <2>1. /\ \A d \in Calls : stage'[d] = stage[d] \/ stage'[d] # "ok" \/ job[d] = "accomplished"
        /\ asked' = asked /\ job' = job
    BY <1>1, <1>5 DEF Hear, Goes, Job, TypeOK
  <2>2. NoneReturns
    BY <2>1 DEF NoneReturns, Pending
  <2>3. \A d \in Calls : Stopped(d)' => Stopped(d)
    BY <1>2, <2>1 DEF Stopped, Kind, At
  <2> QED
    BY <1>1, <1>2, <2>2, <2>3, StopsKept
<1>6. CASE AskToStart(c)
  <2>1. asked[c] # "start" /\ stage'[c] = "waiting" /\ job'[c] = "queued"
    BY <1>1, <1>6 DEF AskToStart, StageFits, Goes, Asks, Turns, At, TypeOK
  <2>2. \A d \in Calls : d # c => asked'[d] = asked[d] /\ job'[d] = job[d] /\ stage'[d] = stage[d]
    BY <1>1, <1>6 DEF AskToStart, Goes, Asks, Turns, TypeOK
  <2>3. NoneReturns
    BY <2>1, <2>2 DEF NoneReturns, Pending
  <2>4. \A d \in Calls : Stopped(d)' => Stopped(d)
    BY <1>2, <2>1, <2>2 DEF Stopped, Kind, At
  <2> QED
    BY <1>1, <1>2, <2>3, <2>4, StopsKept
<1> QED
  BY <1>3, <1>4, <1>5, <1>6 DEF Proceed

LEMMA HandleStops ==
    ASSUME IInv, StopsFit, NEW c \in Calls, Handle(c)
    PROVE  StopsFit'
<1>1. TypeOK /\ StageFits(c)
  BY DEF IInv, CallFits
<1>2. UNCHANGED <<form, stage, asked, boot, settled>>
  BY DEF Handle, HandleQuery, HandleStop, HandleStart, FetchField, FailToStart, StartMeasuring,
         Conclude, Handled, histvars
<1>3. \A d \in Calls : d # c => job'[d] = job[d]
  BY <1>1 DEF Handle, HandleQuery, HandleStop, HandleStart, FetchField, FailToStart, StartMeasuring,
              Conclude, Responds, Turns, TypeOK
<1>4. job'[c] \in {"fetching", "fetched"} => Pending(c)
  BY <1>1 DEF Handle, HandleQuery, HandleStop, HandleStart, FetchField, FailToStart, StartMeasuring,
              Conclude, Responds, Turns, Answered, Pending, Job, TypeOK, StageFits
<1>5. job'[c] \notin {"queued", "posted", "running"}
  BY <1>1 DEF Handle, HandleQuery, HandleStop, HandleStart, FetchField, FailToStart, StartMeasuring,
              Conclude, Responds, Turns, Answered, Job, TypeOK
<1>6. NoneReturns
  BY <1>2, <1>3, <1>4, <1>5 DEF NoneReturns, Pending
<1>7. CASE HandleStop(c)
  BY <1>1, <1>2, <1>6, <1>7, StopsKept DEF HandleStop
<1>8. CASE Conclude(c)
  <2>1. job[c] = "begun" => Kind(c, "start")
    BY <1>1 DEF StageFits
  <2>2. startedBy' = startedBy /\ job[c] \in {"begun", "halted"}
    BY <1>8 DEF Conclude, Handled
  <2>3. \A d \in Calls : Stopped(d)' => Stopped(d)
    BY <1>2, <1>3, <2>1, <2>2 DEF Stopped, Kind, At
  <2> QED
    BY <1>1, <1>2, <1>6, <2>2, <2>3, StopsKept
<1>9. CASE HandleQuery(c)
  <2>1. ~Kind(c, "stop")
    BY <1>1, <1>9 DEF HandleQuery, StageFits, Kind
  <2>2. \A d \in Calls : Stopped(d)' => Stopped(d)
    BY <1>2, <1>3, <2>1 DEF Stopped, Kind, At
  <2> QED
    BY <1>1, <1>2, <1>6, <1>9, <2>2, StopsKept DEF HandleQuery, Handled
<1>10. CASE HandleStart(c) \/ FetchField(c) \/ FailToStart(c)
  <2>1. ~Kind(c, "stop") /\ startedBy' = startedBy
    BY <1>1, <1>10 DEF HandleStart, FetchField, FailToStart, StageFits, Kind, Job, Handled
  <2>2. \A d \in Calls : Stopped(d)' => Stopped(d)
    BY <1>2, <1>3, <2>1 DEF Stopped, Kind, At
  <2> QED
    BY <1>1, <1>2, <1>6, <2>1, <2>2, StopsKept
<1>11. CASE StartMeasuring(c)
  <2>1. ~Kind(c, "stop") /\ startedBy' = c /\ Pending(c)
    BY <1>1, <1>11 DEF StartMeasuring, StageFits, Kind, Job, Pending
  <2>2. \A d \in Calls : Stopped(d)' => Stopped(d)
    BY <1>2, <1>3, <2>1 DEF Stopped, Kind, At
  \* What is still to take effect is not settled.
  <2>3. \A d \in Calls : c \notin settled[d]
    BY <2>1, ItselfAssumption DEF StopsFit, StopFits
  <2>4. \A d \in Calls : StopFits(d)'
    BY <1>1, <1>2, <1>6, <2>1, <2>2, <2>3, StopKept DEF StopsFit
  <2> QED
    BY <2>4 DEF StopsFit
<1> QED
  BY <1>7, <1>8, <1>9, <1>10, <1>11 DEF Handle

\* The device and its connection.
LEMMA DeviceStops ==
    ASSUME IInv, StopsFit, Disconnect \/ Register \/ Deliver \/ Take \/ StartItself \/ Restart
    PROVE  StopsFit'
<1>1. TypeOK
  BY DEF IInv
<1>2. asked' = asked /\ form' = form /\ stage' = stage
  BY DEF Disconnect, Register, Registers, Deliver, Take, StartItself, Restart
<1>3. ASSUME \A d \in Calls : \/ job'[d] = job[d] \/ job'[d] = "lost"
                              \/ job[d] \in {"queued", "posted"} /\ job'[d] \in {"posted", "running"}
      PROVE  NoneReturns /\ \A d \in Calls : Stopped(d)' => Stopped(d)
  BY <1>2, <1>3 DEF NoneReturns, Pending, Stopped, Kind, At
<1>4. CASE Disconnect \/ Register
  <2>1. UNCHANGED <<settled, boot, startedBy>>
    BY <1>4 DEF Disconnect, Register, Registers, devvars, histvars
  <2>2. \A d \in Calls : job'[d] = job[d] \/ job'[d] = "lost"
    BY <1>4 DEF Disconnect, Register, Registers
  <2> QED
    BY <1>1, <1>2, <1>3, <2>1, <2>2, StopsKept
<1>5. CASE Deliver
  <2>1. PICK c \in Calls : c = queue[Len(queue)]
    BY <1>1, <1>5, WithoutLast DEF TypeOK, Deliver
  <2>2. job[c] = "queued" /\ job' = [job EXCEPT ![c] = "posted"]
    BY <1>1, <1>5, <2>1, WithoutLast DEF TypeOK, Deliver, Top, Turns, IInv, QueuesFit, OncePosted
  <2> QED
    BY <1>1, <1>2, <1>3, <1>5, <2>2, StopsKept DEF Deliver, histvars, TypeOK
<1>6. CASE Take
  <2>1. PICK c \in Calls : c = Head(posted)
    BY <1>1, <1>6, WithoutFirst DEF TypeOK, Take
  <2>2. job[c] = "posted" /\ job' = [job EXCEPT ![c] = "running"]
    BY <1>1, <1>6, <2>1, WithoutFirst DEF TypeOK, Take, Turns, IInv, QueuesFit, OncePosted
  <2> QED
    BY <1>1, <1>2, <1>3, <1>6, <2>2, StopsKept DEF Take, histvars, TypeOK
<1>7. CASE StartItself
  <2>1. UNCHANGED <<job, settled>> /\ boot # "over" /\ (startedBy' = startedBy \/ startedBy' = Itself)
    BY <1>7 DEF StartItself, histvars
  <2>2. \A d \in Calls : Itself \notin settled[d]
    BY <2>1 DEF StopsFit, StopFits
  <2>3. NoneReturns /\ \A d \in Calls : Stopped(d)' => Stopped(d)
    BY <1>3, <2>1
  <2>4. \A d \in Calls : StopFits(d)'
    BY <1>1, <2>1, <2>2, <2>3, StopKept DEF StopsFit
  <2> QED
    BY <2>4 DEF StopsFit
<1>8. CASE Restart
  <2>1. startedBy' = None /\ \A d \in Calls : settled'[d] = settled[d] \ {Itself}
    BY <1>8 DEF Restart
  <2>2. \A d \in Calls : job'[d] = job[d] \/ job'[d] = "lost"
    BY <1>8 DEF Restart
  <2>3. \A d \in Calls : None \notin settled'[d]
    BY <1>1, <2>1, ItselfAssumption DEF TypeOK
  <2>4. \A d \in Calls : StopFits(d)'
    BY <1>1, <1>3, <2>1, <2>2, <2>3, StopKept DEF StopsFit
  <2> QED
    BY <2>4 DEF StopsFit
<1> QED
  BY <1>4, <1>5, <1>6, <1>7, <1>8

LEMMA StopsStep == IInv /\ StopsFit /\ [Next]_vars => StopsFit'
<1> SUFFICES ASSUME IInv, StopsFit, [Next]_vars PROVE StopsFit'
  OBVIOUS
<1>1. CASE UNCHANGED vars
  BY <1>1 DEF vars, StopsFit, StopFits, Stopped, Pending, Kind, At
<1> QED
  BY <1>1, BeginStops, ProceedStops, HandleStops, DeviceStops DEF Next

\* When a STOP has been heard to be accomplished (stopMeasurement of client.cc), a START that
\* had been answered when it was asked for, or had been lost with its registration, is not what
\* the device measures for, however late its request or its response comes: only STARTs that
\* were still under way, and a new start of the device's own, can undo a STOP.
THEOREM StopsHold == Spec => []StopsOutlastStarts
<1>1. Init => StopsFit
  BY DEF Init, StopsFit, StopFits, Stopped, At
<1>2. StopsFit => StopsOutlastStarts
  BY DEF StopsFit, StopFits, Stopped, StopsOutlastStarts
<1> QED
  BY <1>1, <1>2, StopsStep, Invariance, PTL DEF Spec
================================================================================
