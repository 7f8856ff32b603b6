---------------------------- MODULE PlotterProofs ----------------------------
(***************************************************************************)
(* Plotter, for any measurements, times, bins, inputs and changes of the   *)
(* database: graphs are those of what is chosen, and the summed trace is   *)
(* the sum of the parts though each query sees another state of the        *)
(* database.                                                               *)
(***************************************************************************)
EXTENDS Plotter, FiniteSetTheorems, WellFoundedInduction, TLAPS

-----------------------------------------------------------------------------
(* A set of times has a smallest and a largest one: the sets of times below *)
(* (or above) each of them are ordered by inclusion, which is well-founded  *)
(* on the subsets of a finite set.                                          *)

LEMMA InclusionWellFounded ==
  ASSUME NEW n \in Nat
  PROVE  IsWellFoundedOn(StrictSubsetOrdering(0..n), SUBSET (0..n))
<1>1. IsFiniteSet(0..n)
  BY FS_Interval
<1>2. FiniteSubsetsOf(0..n) = SUBSET (0..n)
  BY <1>1, FS_FiniteSubsetsOfFinite
<1>3. IsWellFoundedOn(StrictSubsetOrdering(0..n), FiniteSubsetsOf(0..n))
  BY FS_StrictSubsetOrderingWellFounded
<1> QED
  BY <1>2, <1>3

LEMMA SmallestOfTimes ==
  ASSUME NEW n \in Nat, NEW S \in SUBSET (0..n), S # {}
  PROVE  Smallest(S) \in S /\ \A y \in S : Smallest(S) <= y
<1> DEFINE R == StrictSubsetOrdering(0..n)
           Below(x) == {y \in 0..n : y < x}
           B == {Below(x) : x \in S}
<1>1. IsWellFoundedOn(R, SUBSET (0..n))
  BY InclusionWellFounded
<1>2. B \subseteq SUBSET (0..n) /\ B # {}
  OBVIOUS
<1> HIDE DEF R
<1>3. \E D \in B : \A E \in B : <<E, D>> \notin R
  <2> HIDE DEF B
  <2> QED
    BY <1>1, <1>2, WFMin
<1>4. PICK x \in S : \A E \in B : <<E, Below(x)>> \notin R
  BY <1>3
<1>5. ASSUME NEW y \in S, y < x PROVE FALSE
  <2>1. <<Below(y), Below(x)>> \notin R
    BY <1>4
  <2>2. y \in Below(x) /\ y \notin Below(y) /\ Below(y) \subseteq Below(x)
    BY <1>5
  <2>3. Below(x) \subseteq 0..n
    OBVIOUS
  <2> QED
    BY <2>1, <2>2, <2>3 DEF R, StrictSubsetOrdering
<1>6. \E z \in S : \A y \in S : z <= y
  BY <1>4, <1>5
<1> QED
  BY <1>6 DEF Smallest

LEMMA LargestOfTimes ==
  ASSUME NEW n \in Nat, NEW S \in SUBSET (0..n), S # {}
  PROVE  Largest(S) \in S /\ \A y \in S : Largest(S) >= y
<1> DEFINE R == StrictSubsetOrdering(0..n)
           Above(x) == {y \in 0..n : y > x}
           A == {Above(x) : x \in S}
<1>1. IsWellFoundedOn(R, SUBSET (0..n))
  BY InclusionWellFounded
<1>2. A \subseteq SUBSET (0..n) /\ A # {}
  OBVIOUS
<1> HIDE DEF R
<1>3. \E D \in A : \A E \in A : <<E, D>> \notin R
  <2> HIDE DEF A
  <2> QED
    BY <1>1, <1>2, WFMin
<1>4. PICK x \in S : \A E \in A : <<E, Above(x)>> \notin R
  BY <1>3
<1>5. ASSUME NEW y \in S, y > x PROVE FALSE
  <2>1. <<Above(y), Above(x)>> \notin R
    BY <1>4
  <2>2. y \in Above(x) /\ y \notin Above(y) /\ Above(y) \subseteq Above(x)
    BY <1>5
  <2>3. Above(x) \subseteq 0..n
    OBVIOUS
  <2> QED
    BY <2>1, <2>2, <2>3 DEF R, StrictSubsetOrdering
<1>6. \E z \in S : \A y \in S : z >= y
  BY <1>4, <1>5
<1> QED
  BY <1>6 DEF Largest

-----------------------------------------------------------------------------
(* Types.                                                                   *)

LEMMA TimesOfType ==
  ASSUME TypeOK, NEW m
  PROVE  TimesOf(m) \subseteq Times
BY DEF TypeOK, TimesOf, Rows

\* The times that the page suggests are times, or none.
LEMMA CommonTimesType ==
  ASSUME TypeOK, NEW S
  PROVE  CommonTimes(S)[1] \in Times \cup {None} /\ CommonTimes(S)[2] \in Times \cup {None}
<1> DEFINE some == {m \in S : TimesOf(m) # {}}
           Firsts == {Smallest(TimesOf(m)) : m \in some}
           Lasts == {Largest(TimesOf(m)) : m \in some}
<1>1. CASE some = {}
  BY <1>1 DEF CommonTimes
<1>2. CASE some # {}
  <2>1. ASSUME NEW m \in some
        PROVE  Smallest(TimesOf(m)) \in Times /\ Largest(TimesOf(m)) \in Times
    <3>1. TimesOf(m) \in SUBSET (0..MaxTime) /\ TimesOf(m) # {}
      BY TimesOfType DEF Times
    <3> QED
      BY <3>1, SmallestOfTimes, LargestOfTimes, NumbersAssumption DEF Times
  <2>2. Firsts \in SUBSET (0..MaxTime) /\ Firsts # {}
    BY <1>2, <2>1 DEF Times
  <2>3. Lasts \in SUBSET (0..MaxTime) /\ Lasts # {}
    BY <1>2, <2>1 DEF Times
  <2>4. Largest(Firsts) \in Times
    <3> HIDE DEF Firsts
    <3> QED
      BY <2>2, LargestOfTimes, NumbersAssumption DEF Times
  <2>5. Smallest(Lasts) \in Times
    <3> HIDE DEF Lasts
    <3> QED
      BY <2>3, SmallestOfTimes, NumbersAssumption DEF Times
  <2>6. CommonTimes(S) = <<Largest(Firsts), Smallest(Lasts)>>
    BY <1>2 DEF CommonTimes
  <2> HIDE DEF Firsts, Lasts
  <2> QED
    BY <2>4, <2>5, <2>6
<1> QED
  BY <1>1, <1>2

LEMMA NowType ==
  ASSUME TypeOK
  PROVE  Now \in Times
<1> DEFINE S == {s[2] : s \in samples}
<1>1. S \in SUBSET (0..MaxTime)
  BY DEF TypeOK, Rows, Times
<1>2. CASE samples = {}
  BY <1>2, NumbersAssumption DEF Now, Times
<1>3. CASE samples # {}
  <2>1. S # {}
    BY <1>3
  <2>2. Now = Largest(S)
    BY <1>3 DEF Now
  <2> HIDE DEF S
  <2> QED
    BY <1>1, <2>1, <2>2, LargestOfTimes, NumbersAssumption DEF Times
<1> QED
  BY <1>2, <1>3

\* What the callbacks leave of the reading that is under way.
ReadType ==
    /\ pending \subseteq Callbacks
    /\ read \in [Queries -> {None} \cup SUBSET Rows]
    /\ news \subseteq Rows
    /\ "plot" \notin pending => read = Nothing /\ news = {}

LEMMA ChangedType ==
  ASSUME ReadType, NEW props, NEW done, Changed(props, done)
  PROVE  ReadType'
<1>1. Nothing \in [Queries -> {None} \cup SUBSET Rows]
  BY DEF Nothing
<1> DEFINE requested == {c \in Callbacks \ done : TriggeredBy[c] \cap props # {}}
<1>2. pending' = (pending \ done) \cup requested
  BY DEF Changed
<1>3. IF "plot" \in done \cup requested
      THEN read' = Nothing /\ news' = {}
      ELSE UNCHANGED <<read, news>>
  BY DEF Changed
<1>4. requested \subseteq Callbacks
  OBVIOUS
<1> HIDE DEF requested
<1>5. CASE "plot" \in done \cup requested
  <2>1. read' = Nothing /\ news' = {}
    BY <1>3, <1>5
  <2> QED
    BY <1>1, <1>2, <1>4, <2>1 DEF ReadType, Nothing
<1>6. CASE "plot" \notin done \cup requested
  <2>1. read' = read /\ news' = news
    BY <1>3, <1>6
  <2>2. "plot" \in pending' <=> "plot" \in pending
    BY <1>2, <1>6
  <2> QED
    BY <1>2, <1>4, <2>1, <2>2 DEF ReadType, Nothing
<1> QED
  BY <1>5, <1>6

DbType ==
    /\ samples \subseteq Rows /\ existing \subseteq Msmts /\ runs \subseteq RunIds
    /\ \A s \in samples : s[1] \in existing
    /\ \A m \in existing : RunOf[m] \in runs
    /\ changes \in 0..MaxChanges
PageType ==
    /\ run \in RunIds \cup {None}
    /\ msmts \in {None} \cup SUBSET Msmts
    /\ start \in Times \cup {None} /\ end \in Times \cup {None}
    /\ bin \in BinWidths \cup {None}
    /\ clicks \in 0..1 /\ disabled \in BOOLEAN
    /\ inputs \in 0..MaxInputs
ShownType == shown = None \/ shown \in Graphs

LEMMA TypeParts == TypeOK <=> DbType /\ PageType /\ ShownType /\ ReadType
BY DEF TypeOK, DbType, PageType, ShownType, ReadType

LEMMA TypePartsNext == (TypeOK <=> DbType /\ PageType /\ ShownType /\ ReadType)'
BY DEF TypeOK, DbType, PageType, ShownType, ReadType

LEMMA InitType == Init => TypeOK
<1> SUFFICES ASSUME Init PROVE TypeOK
  OBVIOUS
<1>1. DbType
  <2>1. PICK from \in [Msmts -> Times] : samples = {<<m, from[m]>> : m \in Msmts}
    BY DEF Init
  <2> QED
    BY <2>1, NumbersAssumption, RunOfAssumption DEF Init, DbType, Rows
<1>2. PageType /\ ShownType
  BY NumbersAssumption DEF Init, PageType, ShownType
<1>3. ReadType
  BY DEF Init, ReadType, Nothing
<1> QED
  BY <1>1, <1>2, <1>3, TypeParts

LEMMA InputType ==
  ASSUME TypeOK, Input
  PROVE  DbType' /\ ShownType' /\ inputs' \in 0..MaxInputs
<1>1. DbType'
  BY TypeParts DEF Input, dbvars, DbType
<1>2. ShownType'
  BY TypeParts DEF Input, ShownType
<1>3. inputs' \in 0..MaxInputs
  BY NumbersAssumption DEF TypeOK, Input
<1> QED
  BY <1>1, <1>2, <1>3

LEMMA UserType ==
  ASSUME TypeOK,
         \/ \E r \in RunIds \cup {None} : ChooseRun(r)
         \/ \E S \in SUBSET Msmts : ChooseMsmts(S)
         \/ \E t \in Times : ChooseStart(t) \/ ChooseEnd(t)
         \/ \E w \in BinWidths \cup {None} : ChooseBin(w)
         \/ Click
  PROVE  TypeOK'
<1>1. Input
  BY DEF ChooseRun, ChooseMsmts, ChooseStart, ChooseEnd, ChooseBin, Click
<1>2. disabled' = disabled
  BY <1>1 DEF Input
<1>3. PageType'
  BY <1>1, <1>2, InputType, TypeParts
     DEF PageType, ChooseRun, ChooseMsmts, ChooseStart, ChooseEnd, ChooseBin, Click
<1>4. ReadType'
  <2>1. \E props : Changed(props, {})
    BY DEF ChooseRun, ChooseMsmts, ChooseStart, ChooseEnd, ChooseBin, Click
  <2> QED
    BY <2>1, ChangedType, TypeParts
<1> QED
  BY <1>1, <1>3, <1>4, InputType, TypePartsNext

LEMMA DatabaseType ==
  ASSUME TypeOK, NEW m \in Msmts,
         (\E t \in Times : Upload(m, t)) \/ DeleteMeasurement(m)
  PROVE  TypeOK'
<1>1. changes' \in 0..MaxChanges
  BY NumbersAssumption DEF TypeOK, Upload, DeleteMeasurement, Change
<1>2. PageType' /\ ShownType'
  BY TypeParts DEF Upload, DeleteMeasurement, page, PageType, ShownType
<1>3. DbType'
  BY <1>1, TypeParts DEF Upload, DeleteMeasurement, DbType, Rows
<1>4. ReadType'
  <2>1. pending' = pending /\ read' = read
    BY DEF Upload, DeleteMeasurement
  <2>2. news' \subseteq Rows /\ ("plot" \notin pending => news' = news)
    BY TypeParts DEF Upload, DeleteMeasurement, ReadType, DbType, Rows
  <2> QED
    BY <2>1, <2>2, TypeParts DEF ReadType
<1> QED
  BY <1>2, <1>3, <1>4, TypePartsNext

LEMMA DeleteRunType ==
  ASSUME TypeOK, NEW r \in RunIds, DeleteRun(r)
  PROVE  TypeOK'
<1>1. DbType'
  BY TypeParts DEF DeleteRun, DbType
<1>2. PageType' /\ ShownType' /\ ReadType'
  BY TypeParts DEF DeleteRun, page, PageType, ShownType, ReadType
<1> QED
  BY <1>1, <1>2, TypePartsNext

LEMMA SelectionType ==
  ASSUME TypeOK,
         UpdateRunSelection \/ UpdateStartEndSelection \/ RangeFails \/ ShowMsmtButton
  PROVE  TypeOK'
<1>1. DbType' /\ ShownType'
  BY TypeParts
     DEF UpdateRunSelection, UpdateStartEndSelection, RangeFails, ShowMsmtButton, dbvars, page,
         DbType, ShownType
<1>2. CASE UpdateRunSelection
  <2>1. PageType'
    BY <1>2, TypeParts DEF UpdateRunSelection, PageType, DbType
  <2>2. ReadType'
    BY <1>2, ChangedType, TypeParts DEF UpdateRunSelection
  <2> QED
    BY <1>1, <2>1, <2>2, TypePartsNext
<1>3. CASE UpdateStartEndSelection
  <2>1. start' \in Times \cup {None} /\ end' \in Times \cup {None}
    <3>1. CASE run # None
      <4>1. start' = 0 /\ end' = IF run \in OpenRuns THEN Now ELSE MaxTime
        BY <1>3, <3>1 DEF UpdateStartEndSelection
      <4> QED
        BY <4>1, NowType, NumbersAssumption DEF Times
    <3>2. CASE run = None
      <4>1. PICK S : start' = CommonTimes(S)[1] /\ end' = CommonTimes(S)[2]
        BY <1>3, <3>2 DEF UpdateStartEndSelection
      <4> QED
        BY <4>1, CommonTimesType
    <3> QED
      BY <3>1, <3>2
  <2>2. PageType'
    BY <1>3, <2>1, TypeParts DEF UpdateStartEndSelection, PageType
  <2>3. ReadType'
    BY <1>3, ChangedType, TypeParts DEF UpdateStartEndSelection
  <2> QED
    BY <1>1, <2>2, <2>3, TypePartsNext
<1>4. CASE ShowMsmtButton
  <2>1. PageType'
    BY <1>4, TypeParts DEF ShowMsmtButton, PageType
  <2>2. ReadType'
    BY <1>4, TypeParts DEF ShowMsmtButton, ReadType
  <2> QED
    BY <1>1, <2>1, <2>2, TypePartsNext
<1>5. CASE RangeFails
  <2>1. PageType'
    BY <1>5, TypeParts DEF RangeFails, page, PageType
  <2>2. ReadType'
    BY <1>5, ChangedType, TypeParts DEF RangeFails
  <2> QED
    BY <1>1, <2>1, <2>2, TypePartsNext
<1> QED
  BY <1>2, <1>3, <1>4, <1>5

LEMMA BetweenType ==
  ASSUME TypeOK, NEW S
  PROVE  Between(S) \subseteq Rows
BY DEF TypeOK, Between

\* A query of showMsmtPlot.
Query ==
    \/ ReadSum
    \/ \E m \in Msmts : ReadPart(m)
    \/ ReadHours
    \/ ReadDays

LEMMA QueryReads ==
  ASSUME Query
  PROVE  /\ Building
         /\ \E q \in Queries, S \in {Chosen} \cup {{m} : m \in Msmts} :
               /\ Reads(q, Between(S))
               /\ q \in {"sum", "hour", "day"} => S = Chosen
               /\ q \in Msmts => S = {q}
<1>1. CASE ReadSum \/ ReadHours \/ ReadDays
  BY <1>1, MsmtsAssumption DEF ReadSum, ReadHours, ReadDays, Queries
<1>2. CASE \E m \in Msmts : ReadPart(m)
  <2>1. PICK m \in Msmts : ReadPart(m)
    BY <1>2
  <2>2. Building /\ Reads(m, Between({m})) /\ m \in Queries
    BY <2>1 DEF ReadPart, PartOf, Queries
  <2> QED
    BY <2>2, MsmtsAssumption
<1> QED
  BY <1>1, <1>2 DEF Query

LEMMA QueryType ==
  ASSUME TypeOK, Query
  PROVE  TypeOK'
<1>1. PICK q \in Queries : \E S : Reads(q, Between(S))
  BY QueryReads
<1>2. PICK S : Reads(q, Between(S))
  BY <1>1
<1>3. DbType' /\ PageType' /\ ShownType'
  BY <1>2, TypeParts DEF Reads, dbvars, page, DbType, PageType, ShownType
<1>4. pending' = pending /\ news' = news /\ read' = [read EXCEPT ![q] = Between(S)]
  BY <1>2 DEF Reads
<1>5. "plot" \in pending
  BY QueryReads DEF Building, Ready
<1>6. ReadType'
  BY <1>4, <1>5, BetweenType, TypeParts DEF ReadType
<1> QED
  BY <1>3, <1>6, TypePartsNext

\* What ShowMsmtPlot shows.
Shown == [choice |-> Choice, rows |-> [q \in Queries |-> IF q \in AllRead THEN read[q] ELSE {}],
          news |-> news]

LEMMA ShownIsGraphs ==
  ASSUME TypeOK, Complete, bin # None
  PROVE  Shown \in Graphs
<1>1. Choice \in Choices
  BY DEF TypeOK, Choice, Choices
<1>2. [q \in Queries |-> IF q \in AllRead THEN read[q] ELSE {}] \in [Queries -> SUBSET Rows]
  <2>1. ASSUME NEW q \in Queries, q \in AllRead
        PROVE  read[q] \in SUBSET Rows
    BY <2>1 DEF TypeOK, Complete
  <2> QED
    BY <2>1
<1>3. news \in SUBSET Rows
  BY DEF TypeOK
<1> QED
  BY <1>1, <1>2, <1>3 DEF Shown, Graphs

LEMMA PlotType ==
  ASSUME TypeOK, ClearPlot \/ NoData \/ PlotFails \/ ShowMsmtPlot
  PROVE  TypeOK'
<1>1. DbType'
  BY TypeParts DEF ClearPlot, NoData, PlotFails, ShowMsmtPlot, dbvars, DbType
<1>2. PageType'
  BY TypeParts DEF ClearPlot, NoData, PlotFails, ShowMsmtPlot, page, PageType
<1>3. ReadType'
  BY ChangedType, TypeParts DEF ClearPlot, NoData, PlotFails, ShowMsmtPlot
<1>4. ShownType'
  <2>1. CASE ClearPlot \/ NoData \/ PlotFails
    BY <2>1, TypeParts DEF ClearPlot, NoData, PlotFails, page, ShownType
  <2>2. CASE ShowMsmtPlot
    BY <2>2, ShownIsGraphs DEF ShowMsmtPlot, Shown, ShownType
  <2> QED
    BY <2>1, <2>2
<1> QED
  BY <1>1, <1>2, <1>3, <1>4, TypePartsNext

LEMMA UnchangedType ==
  ASSUME TypeOK, UNCHANGED vars
  PROVE  TypeOK'
<1>1. DbType' /\ PageType'
  BY TypeParts DEF vars, DbType, PageType
<1>2. ShownType' /\ ReadType'
  BY TypeParts DEF vars, ShownType, ReadType
<1> QED
  BY <1>1, <1>2, TypePartsNext

LEMMA StepType == TypeOK /\ [Next]_vars => TypeOK'
<1> SUFFICES ASSUME TypeOK, [Next]_vars PROVE TypeOK'
  OBVIOUS
<1>1. CASE Next
  BY <1>1, UserType, DatabaseType, DeleteRunType, SelectionType, QueryType, PlotType
     DEF Next, Callback, Query
<1> QED
  BY <1>1, UnchangedType

\* The page has a run, measurements, times and graphs of the types they are read with: what
\* a callback suggests (updateRunSelection, updateStartEndSelection) and what
\* showMsmtPlot draws are measurements, times and rows.
THEOREM TypeCorrect == Spec => []TypeOK
<1> QED
  BY InitType, StepType, PTL DEF Spec

-----------------------------------------------------------------------------
(* ShownIsChosen.  What holds at each step is more: from the moment that an *)
(* input of the graphs changes, showMsmtPlot is pending, and it is what     *)
(* makes the graphs.                                                        *)

ShownFits == shown # None /\ "plot" \notin pending /\ clicks = 0 => shown.choice = Choice

PlotInputs == {"start", "end", "msmts", "bin", "clicks"}

LEMMA PlotRequested ==
  ASSUME NEW props, NEW done, Changed(props, done), "plot" \notin done, props \cap PlotInputs # {}
  PROVE  "plot" \in pending' /\ read' = Nothing /\ news' = {}
<1> DEFINE requested == {c \in Callbacks \ done : TriggeredBy[c] \cap props # {}}
<1>1. "plot" \in requested
  BY DEF PlotInputs, Callbacks, TriggeredBy, InputsOf
<1> QED
  BY <1>1 DEF Changed

LEMMA ShownFitsStep == TypeOK /\ ShownFits /\ [Next]_vars => ShownFits'
<1> SUFFICES ASSUME TypeOK, ShownFits, [Next]_vars PROVE ShownFits'
  OBVIOUS
<1>1. ASSUME NEW props, NEW done, Changed(props, done), "plot" \notin done,
             props \cap PlotInputs # {}
      PROVE  ShownFits'
  BY <1>1, PlotRequested DEF ShownFits
<1>2. ASSUME UNCHANGED <<shown, clicks, msmts, start, end, bin>>, "plot" \in pending => "plot" \in pending'
      PROVE  ShownFits'
  BY <1>2 DEF ShownFits, Choice
<1>3. ASSUME NEW r, ChooseRun(r) PROVE ShownFits'
  <2>1. "plot" \in pending => "plot" \in pending'
    BY <1>3 DEF ChooseRun, Changed
  <2> QED
    BY <1>2, <1>3, <2>1 DEF ChooseRun, Input
<1>4. ASSUME NEW x, ChooseMsmts(x) \/ ChooseStart(x) \/ ChooseEnd(x) \/ ChooseBin(x) \/ Click PROVE ShownFits'
  BY <1>1, <1>4 DEF ChooseMsmts, ChooseStart, ChooseEnd, ChooseBin, Click, PlotInputs
<1>5. ASSUME NEW m, NEW t, Upload(m, t) \/ DeleteMeasurement(m) PROVE ShownFits'
  BY <1>2, <1>5 DEF Upload, DeleteMeasurement, page
<1>6. CASE UpdateRunSelection \/ UpdateStartEndSelection
  BY <1>1, <1>6 DEF UpdateRunSelection, UpdateStartEndSelection, PlotInputs
<1>7. CASE ShowMsmtButton \/ RangeFails \/ \E r \in RunIds : DeleteRun(r)
  <2>1. "plot" \in pending => "plot" \in pending'
    BY <1>7 DEF ShowMsmtButton, RangeFails, DeleteRun, Changed
  <2> QED
    BY <1>2, <1>7, <2>1 DEF ShowMsmtButton, RangeFails, DeleteRun, page
<1>8. CASE Query
  BY <1>2, <1>8, QueryReads DEF Reads, page
<1>9. CASE ClearPlot \/ NoData
  BY <1>9 DEF ClearPlot, NoData, ShownFits
<1>10. CASE PlotFails
  BY <1>10 DEF PlotFails, Complete, Building, page, ShownFits, TypeOK
<1>11. CASE ShowMsmtPlot
  <2>1. shown'.choice = Choice
    BY <1>11 DEF ShowMsmtPlot
  <2> QED
    BY <1>11, <2>1 DEF ShowMsmtPlot, ShownFits, Choice
<1>12. CASE UNCHANGED vars
  BY <1>2, <1>12 DEF vars
<1> QED
  BY <1>3, <1>4, <1>5, <1>6, <1>7, <1>8, <1>9, <1>10, <1>11, <1>12 DEF Next, Callback, Query

\* Graphs on the page are of what is chosen on it, as soon as no callback is pending and the
\* last one has not failed: showMsmtPlot never answers for an earlier choice after a later
\* one, however the user's inputs, the suggestions of the other callbacks and the queries
\* interleave.
THEOREM GraphsOfTheChoice == Spec => []ShownIsChosen
<1>1. Init => ShownFits
  BY DEF Init, ShownFits
<1>2. ShownFits => ShownIsChosen
  BY DEF ShownFits, ShownIsChosen
<1> QED
  BY <1>1, <1>2, ShownFitsStep, TypeCorrect, PTL DEF Spec

-----------------------------------------------------------------------------
(* SumOfParts.  Each query sees another state of the database, but apart    *)
(* from news all of them see the rows that there are now, of the choice     *)
(* that the page has now.                                                   *)

ScopeOf(q) == IF q \in Msmts THEN {q} ELSE Chosen

ReadFits ==
    \A q \in Queries : read[q] # None => read[q] \ news = Between(ScopeOf(q)) \ news

LEMMA NothingFits ==
  ASSUME read' = Nothing
  PROVE  ReadFits'
BY DEF ReadFits, Nothing

LEMMA ReadFitsKept ==
  ASSUME ReadFits, UNCHANGED <<samples, msmts, start, end, read, news>>
  PROVE  ReadFits'
BY DEF ReadFits, Between, ScopeOf, Chosen

\* What comes or goes while showMsmtPlot reads is news.
LEMMA DatabaseReadFits ==
  ASSUME TypeOK, ReadFits, NEW m \in Msmts,
         (\E t \in Times : Upload(m, t)) \/ DeleteMeasurement(m)
  PROVE  ReadFits'
<1>1. UNCHANGED <<msmts, start, end, pending, read>>
  BY DEF Upload, DeleteMeasurement, page
<1>2. CASE "plot" \notin pending
  BY <1>1, <1>2, NothingFits DEF TypeOK
<1>3. CASE "plot" \in pending
  <2>1. news \subseteq news' /\ samples \ news' = samples' \ news'
    BY <1>3 DEF Upload, DeleteMeasurement
  <2>2. ASSUME NEW q \in Queries, read'[q] # None
        PROVE  read'[q] \ news' = (Between(ScopeOf(q)))' \ news'
    <3>1. (Between(ScopeOf(q)))' \ news' = Between(ScopeOf(q)) \ news'
      BY <1>1, <2>1 DEF Between, ScopeOf, Chosen
    <3>2. read[q] \ news = Between(ScopeOf(q)) \ news
      BY <1>1, <2>2 DEF ReadFits
    <3> QED
      BY <1>1, <2>1, <3>1, <3>2
  <2> QED
    BY <2>2 DEF ReadFits
<1> QED
  BY <1>2, <1>3

LEMMA QueryReadFits ==
  ASSUME TypeOK, ReadFits, Query
  PROVE  ReadFits'
<1>1. PICK q \in Queries : Reads(q, Between(ScopeOf(q)))
  <2>1. Chosen = Chosen /\ (\A p \in Queries : p \notin {"sum", "hour", "day"} => p \in Msmts)
    BY DEF Queries
  <2> QED
    BY <2>1, QueryReads, MsmtsAssumption DEF ScopeOf
<1>2. UNCHANGED <<samples, msmts, start, end, news>> /\ read' = [read EXCEPT ![q] = Between(ScopeOf(q))]
  BY <1>1 DEF Reads, dbvars, page
<1>3. \A p \in Queries : read'[p] = IF p = q THEN Between(ScopeOf(q)) ELSE read[p]
  BY <1>2 DEF TypeOK
<1>4. \A p \in Queries : (Between(ScopeOf(p)))' = Between(ScopeOf(p))
  BY <1>2 DEF Between, ScopeOf, Chosen
<1> QED
  BY <1>1, <1>2, <1>3, <1>4 DEF ReadFits

LEMMA ReadFitsStep == TypeOK /\ TypeOK' /\ ReadFits /\ [Next]_vars => ReadFits'
<1> SUFFICES ASSUME TypeOK, TypeOK', ReadFits, [Next]_vars PROVE ReadFits'
  OBVIOUS
<1>1. ASSUME NEW props, NEW done, Changed(props, done), "plot" \notin done,
             props \cap PlotInputs # {}
      PROVE  ReadFits'
  BY <1>1, PlotRequested, NothingFits
<1>2. ASSUME NEW r, ChooseRun(r) PROVE ReadFits'
  <2>1. "plot" \notin {c \in Callbacks : TriggeredBy[c] \cap {"run"} # {}}
    BY DEF TriggeredBy, InputsOf
  <2>2. UNCHANGED <<read, news>>
    BY <1>2, <2>1 DEF ChooseRun, Changed
  <2> QED
    BY <1>2, <2>2, ReadFitsKept DEF ChooseRun, Input, dbvars
<1>3. ASSUME NEW x, ChooseMsmts(x) \/ ChooseStart(x) \/ ChooseEnd(x) \/ ChooseBin(x) \/ Click PROVE ReadFits'
  BY <1>1, <1>3 DEF ChooseMsmts, ChooseStart, ChooseEnd, ChooseBin, Click, PlotInputs
<1>4. CASE UpdateRunSelection \/ UpdateStartEndSelection
  BY <1>1, <1>4 DEF UpdateRunSelection, UpdateStartEndSelection, PlotInputs
<1>5. CASE ShowMsmtButton \/ RangeFails \/ \E r \in RunIds : DeleteRun(r)
  <2>1. UNCHANGED <<read, news>>
    BY <1>5 DEF ShowMsmtButton, RangeFails, DeleteRun, Changed
  <2> QED
    BY <1>5, <2>1, ReadFitsKept DEF ShowMsmtButton, RangeFails, DeleteRun, dbvars, page
<1>6. CASE ClearPlot \/ NoData \/ PlotFails \/ ShowMsmtPlot
  <2>1. Changed({}, {"plot"})
    BY <1>6 DEF ClearPlot, NoData, PlotFails, ShowMsmtPlot
  <2>2. read' = Nothing
    BY <2>1 DEF Changed
  <2> QED
    BY <2>2, NothingFits
<1>7. CASE UNCHANGED vars
  BY <1>7, ReadFitsKept DEF vars
<1> QED
  BY <1>2, <1>3, <1>4, <1>5, <1>6, <1>7, DatabaseReadFits, QueryReadFits
     DEF Next, Callback, Query

\* In a bin that no news touch, two sets of rows that are the same but for news have the
\* same samples.
LEMMA TraceBin ==
  ASSUME NEW choice, NEW rows, NEW b
  PROVE  /\ b \in DOMAIN Trace(choice, rows) <=>
              \E s \in rows : BinOf(choice.bin, choice.start, s[2]) = b
         /\ b \in DOMAIN Trace(choice, rows) =>
              Trace(choice, rows)[b] = {s \in rows : BinOf(choice.bin, choice.start, s[2]) = b}
BY DEF Trace

SumAgrees(choice, m, all, own, b) ==
    {s \in Rows : b \in DOMAIN Trace(choice, all) /\ s \in Trace(choice, all)[b] /\ s[1] = m}
        = IF b \in DOMAIN Trace(choice, own) THEN Trace(choice, own)[b] ELSE {}
Touched(choice, recent) == {BinOf(choice.bin, choice.start, s[2]) : s \in recent}
SameButFor(m, all, own, recent) == {s \in all \ recent : s[1] = m} = own \ recent

LEMMA UntouchedBins ==
  ASSUME NEW choice, NEW m \in Msmts, NEW recent \in SUBSET Rows,
         NEW all \in SUBSET Rows, NEW own \in SUBSET Rows,
         SameButFor(m, all, own, recent), NEW b, b \notin Touched(choice, recent)
  PROVE  SumAgrees(choice, m, all, own, b)
<1> DEFINE In(s) == BinOf(choice.bin, choice.start, s[2]) = b
<1>1. \A s \in recent : ~In(s)
  BY DEF Touched
<1> HIDE DEF In
<1>2. {s \in Rows : b \in DOMAIN Trace(choice, all) /\ s \in Trace(choice, all)[b] /\ s[1] = m}
      = {s \in all : In(s) /\ s[1] = m}
  BY TraceBin DEF In
<1>3. (IF b \in DOMAIN Trace(choice, own) THEN Trace(choice, own)[b] ELSE {})
      = {s \in own : In(s)}
  BY TraceBin DEF In
<1>4. {s \in all : In(s) /\ s[1] = m} = {s \in own : In(s)}
  BY <1>1 DEF SameButFor
<1> QED
  BY <1>2, <1>3, <1>4 DEF SumAgrees

\* What is read for the sum, narrowed to a measurement, is what is read for that one.
LEMMA RowsAgree ==
  ASSUME TypeOK, ReadFits, Complete, msmts # None
  PROVE  /\ \A m \in msmts :
               {s \in Shown.rows["sum"] \ news : s[1] = m} = Shown.rows[m] \ news
         /\ \A q \in {"hour", "day"} : Shown.rows[q] \ news = Shown.rows["sum"] \ news
<1>1. msmts \in SUBSET Msmts /\ Chosen = msmts
  BY DEF TypeOK, Chosen
<1>2. ASSUME NEW q \in AllRead
      PROVE  Shown.rows[q] \ news = Between(ScopeOf(q)) \ news
  <2>1. q \in Queries /\ read[q] # None
    BY <1>1 DEF AllRead, Queries, Complete
  <2>2. Shown.rows[q] = read[q]
    BY <2>1 DEF Shown
  <2> QED
    BY <2>1, <2>2 DEF ReadFits
<1>3. \A q \in {"sum", "hour", "day"} : q \in AllRead /\ ScopeOf(q) = msmts
  BY <1>1, MsmtsAssumption DEF AllRead, ScopeOf
<1>4. \A m \in msmts : m \in AllRead /\ ScopeOf(m) = {m}
  BY <1>1 DEF AllRead, ScopeOf
<1>5. \A q \in {"sum", "hour", "day"} : Shown.rows[q] \ news = Between(msmts) \ news
  BY <1>2, <1>3
<1>6. \A m \in msmts : Shown.rows[m] \ news = Between({m}) \ news
  BY <1>2, <1>4
<1>7. \A m \in msmts : {s \in Between(msmts) : s[1] = m} = Between({m})
  BY DEF Between
<1> HIDE DEF Shown
<1>8. ASSUME NEW m \in msmts
      PROVE  {s \in Shown.rows["sum"] \ news : s[1] = m} = Shown.rows[m] \ news
  <2>1. Shown.rows["sum"] \ news = Between(msmts) \ news
    BY <1>5
  <2>2. {s \in Between(msmts) \ news : s[1] = m} = {s \in Between(msmts) : s[1] = m} \ news
    OBVIOUS
  <2> QED
    BY <1>6, <1>7, <2>1, <2>2
<1> QED
  BY <1>5, <1>8

LEMMA SumOfShown ==
  ASSUME TypeOK, ReadFits, ShowMsmtPlot
  PROVE  SumOfParts'
<1>1. Complete /\ msmts # None /\ bin # None /\ shown' = Shown
  BY DEF ShowMsmtPlot, Shown
<1>2. Shown \in Graphs /\ Shown.choice.msmts = msmts /\ Shown.news = news /\ msmts \subseteq Msmts
  <2>1. Shown.choice.msmts = msmts /\ Shown.news = news
    BY DEF Shown, Choice
  <2> QED
    BY <1>1, <2>1, ShownIsGraphs DEF TypeOK
<1> DEFINE choice == Shown.choice
           all == Shown.rows["sum"]
<1>3. all \in SUBSET Rows /\ news \in SUBSET Rows /\ \A m \in msmts : Shown.rows[m] \in SUBSET Rows
  BY <1>2 DEF Graphs, Queries, TypeOK
<1>4. ASSUME NEW m \in msmts, NEW b, b \notin Touched(choice, news)
      PROVE  SumAgrees(choice, m, all, Shown.rows[m], b)
  <2>1. SameButFor(m, all, Shown.rows[m], news)
    BY <1>1, RowsAgree DEF SameButFor
  <2>2. m \in Msmts
    BY <1>2
  <2> HIDE DEF all, choice
  <2> QED
    BY <1>3, <1>4, <2>1, <2>2, UntouchedBins
<1>5. \A q \in {"hour", "day"} : Shown.rows[q] \ news = all \ news
  BY <1>1, RowsAgree
<1> HIDE DEF Shown
<1> QED
  BY <1>1, <1>2, <1>4, <1>5 DEF SumOfParts, SumAgrees, Touched

LEMMA SumOfPartsStep == TypeOK /\ ReadFits /\ SumOfParts /\ [Next]_vars => SumOfParts'
<1> SUFFICES ASSUME TypeOK, ReadFits, SumOfParts, [Next]_vars PROVE SumOfParts'
  OBVIOUS
<1>1. CASE shown' = shown
  BY <1>1 DEF SumOfParts
<1>2. CASE shown' = None
  BY <1>2 DEF SumOfParts
<1>3. shown' = shown \/ shown' = None \/ ShowMsmtPlot
  <2>1. ASSUME Query PROVE shown' = shown
    BY <2>1, QueryReads DEF Reads, page
  <2> QED
    BY <2>1 DEF Next, Callback, Query, vars, page, Input, ChooseRun, ChooseMsmts, ChooseStart,
       ChooseEnd, ChooseBin, Click, Upload, DeleteMeasurement, UpdateRunSelection, UpdateStartEndSelection,
       RangeFails, ShowMsmtButton, DeleteRun, ClearPlot, NoData, PlotFails
<1> QED
  BY <1>1, <1>2, <1>3, SumOfShown

\* The summed trace is the sum of the traces of its measurements in every bin that no sample
\* came to or left while they were read, and the graphs per day and per week are made from
\* the same samples: getAggregateOfMmts and the queries beside it, each on a connection of
\* its own, at another state of the database.
THEOREM SumsOfTheirParts == Spec => []SumOfParts
<1>1. Init => ReadFits /\ SumOfParts
  BY DEF Init, ReadFits, Nothing, SumOfParts
<1>2. TypeOK /\ TypeOK' /\ ReadFits /\ SumOfParts /\ [Next]_vars => ReadFits' /\ SumOfParts'
  BY ReadFitsStep, SumOfPartsStep
<1> QED
  BY <1>1, <1>2, TypeCorrect, PTL DEF Spec

-----------------------------------------------------------------------------
(* The safety part of ClicksAnswered.                                       *)

\* A click that showMsmtPlot has yet to answer is answered by it or by a later request of it,
\* unless no measurement or no bin width is chosen, or something came or went while it read.
ClickKept ==
    clicks = 1 /\ "plot" \in pending /\ clicks' # 0 =>
        clicks' = 1 /\ ("plot" \in pending' \/ msmts = None \/ bin = None \/ news # {})

\* Queries that disagree on whether there are any samples have been disturbed.
LEMMA FailureHasCause ==
  ASSUME TypeOK, ReadFits, PlotFails
  PROVE  msmts = None \/ bin = None \/ news # {}
<1> SUFFICES ASSUME msmts # None, bin # None, news = {} PROVE FALSE
  OBVIOUS
<1>1. Complete /\ read["sum"] # {} /\ read["day"] = {}
  BY DEF PlotFails
<1>2. \A q \in {"sum", "day"} : read[q] \ news = Between(Chosen) \ news
  BY <1>1, MsmtsAssumption DEF ReadFits, Complete, AllRead, Queries, ScopeOf
<1>3. read["sum"] \ news = read["day"] \ news
  BY <1>2
<1>4. read["sum"] \in SUBSET Rows
  BY <1>1 DEF TypeOK, Complete, AllRead, Queries
<1> QED
  BY <1>1, <1>3, <1>4

LEMMA StepKeepsClick == TypeOK /\ TypeOK' /\ ReadFits /\ [Next]_vars => ClickKept
<1> SUFFICES ASSUME TypeOK, TypeOK', ReadFits, [Next]_vars,
                    clicks = 1, "plot" \in pending, clicks' # 0
             PROVE  "plot" \in pending' \/ msmts = None \/ bin = None \/ news # {}
  BY DEF ClickKept, TypeOK
<1>1. ASSUME NEW props, NEW done, Changed(props, done), "plot" \notin done
      PROVE  "plot" \in pending'
  BY <1>1 DEF Changed
<1>2. ASSUME NEW x, ChooseRun(x) \/ ChooseMsmts(x) \/ ChooseStart(x) \/ ChooseEnd(x) \/ ChooseBin(x) \/ Click
      PROVE  "plot" \in pending'
  BY <1>1, <1>2 DEF ChooseRun, ChooseMsmts, ChooseStart, ChooseEnd, ChooseBin, Click
<1>3. ASSUME NEW m, NEW t, Upload(m, t) \/ DeleteMeasurement(m) PROVE "plot" \in pending'
  BY <1>3 DEF Upload, DeleteMeasurement
<1>4. CASE \/ UpdateRunSelection \/ UpdateStartEndSelection \/ RangeFails \/ ShowMsmtButton
           \/ \E r \in RunIds : DeleteRun(r)
  BY <1>1, <1>4 DEF UpdateRunSelection, UpdateStartEndSelection, RangeFails, ShowMsmtButton,
     DeleteRun
<1>5. CASE Query
  BY <1>5, QueryReads DEF Reads
<1>6. CASE ClearPlot \/ NoData \/ ShowMsmtPlot
  BY <1>6 DEF ClearPlot, NoData, ShowMsmtPlot
<1>7. CASE PlotFails
  BY <1>7, FailureHasCause
<1>8. CASE UNCHANGED vars
  BY <1>8 DEF vars
<1> QED
  BY <1>2, <1>3, <1>4, <1>5, <1>6, <1>7, <1>8 DEF Next, Callback, Query

\* showMsmtPlot forgets a click only with an answer, or when it fails; and it fails only if no
\* measurement or no bin width is chosen, both of which the page lets the user clear after the
\* click (src/server/plotter/pages/dut.py:229 and 238), or if a sample came or went between
\* its queries, so that the summed trace has samples and the graph per week none.
THEOREM ClicksKept == Spec => [][ClickKept]_vars
<1>1. Init => ReadFits
  BY DEF Init, ReadFits, Nothing
<1>2. TypeOK /\ TypeOK' /\ ReadFits /\ [Next]_vars => ReadFits' /\ ClickKept
  BY ReadFitsStep, StepKeepsClick
<1> QED
  BY <1>1, <1>2, TypeCorrect, PTL DEF Spec
=============================================================================
