---------------------------- MODULE WatcherProofs ----------------------------
(***************************************************************************)
(* The invariants of Watcher and its refinement of HotState, for every     *)
(* value of the constants.                                                 *)
(***************************************************************************)
EXTENDS Watcher, TLAPS

-----------------------------------------------------------------------------
(* The operators the actions are built from.                               *)

\* Recording file-system events keeps the event counters well typed.
LEMMA TouchType ==
  ASSUME fs \in [FsClasses -> Nat], NEW cs
  PROVE  Touch(cs) \in [FsClasses -> Nat]
BY DEF Touch, FsClasses

\* A step of an activity keeps the program counters well typed.
LEMMA GoToType ==
  ASSUME TypeOK, NEW a \in Activities, NEW step \in {"idle"} \cup ReloadSteps \cup UpdateSteps,
         GoTo(a, step)
  PROVE  pc' \in [Activities -> {"idle"} \cup ReloadSteps \cup UpdateSteps]
BY DEF TypeOK, GoTo

\* Resetting timers either keeps the task in its phase or ends it.
LEMMA RearmType ==
  ASSUME TypeOK, NEW ks, NEW st, Rearm(ks, st)
  PROVE  /\ timer' \in [Kinds -> {"armed", "fired"}]
         /\ phase' \in {"starting", "watching", "panicked"}
BY DEF TypeOK, Rearm

\* Reading one file into the draft.
LEMMA ReadDraft ==
  ASSUME draft \in RuntimeState, NEW f \in TomlFiles, NEW c \in Content,
         draft' = [draft EXCEPT !.config[f] = c]
  PROVE  /\ draft' \in RuntimeState
         /\ draft'.config = [draft.config EXCEPT ![f] = c]
         /\ draft'.data = draft.data
BY DEF RuntimeState

\* Opening the data of one kind.
LEMMA WithDataType ==
  ASSUME data \in [DataFiles -> Nat], NEW st \in RuntimeState, NEW k \in Kinds
  PROVE  /\ WithData(st, k) \in RuntimeState
         /\ WithData(st, k).config = st.config
         /\ WithData(st, k).data =
              [d \in DataFiles |-> IF d \in DataOf(k) THEN data[d] ELSE st.data[d]]
BY DEF WithData, RuntimeState

LEMMA EndReloadType ==
  ASSUME TypeOK, NEW st, EndReload(st)
  PROVE  /\ pc' \in [Activities -> {"idle"} \cup ReloadSteps \cup UpdateSteps]
         /\ timer' \in [Kinds -> {"armed", "fired"}]
         /\ phase' \in {"starting", "watching", "panicked"}
BY GoToType, RearmType DEF EndReload, Activities

LEMMA ProceedType ==
  ASSUME TypeOK, NEW step \in ReloadSteps, Proceed(step)
  PROVE  /\ pc' \in [Activities -> {"idle"} \cup ReloadSteps \cup UpdateSteps]
         /\ timer' \in [Kinds -> {"armed", "fired"}]
         /\ phase' \in {"starting", "watching", "panicked"}
         /\ state' = state
BY GoToType DEF Proceed, Activities, TypeOK

LEMMA EndUpdateType ==
  ASSUME TypeOK, NEW k \in Kinds, NEW st, EndUpdate(k, st)
  PROVE  /\ pc' \in [Activities -> {"idle"} \cup ReloadSteps \cup UpdateSteps]
         /\ timer' \in [Kinds -> {"armed", "fired"}]
         /\ phase' \in {"starting", "watching", "panicked"}
         /\ current' \in [Kinds -> RuntimeState \cup {NoState}]
BY GoToType, RearmType DEF EndUpdate, Activities, TypeOK

-----------------------------------------------------------------------------
(* Type correctness.                                                       *)

LEMMA InitType == Init => TypeOK
BY BodiesAssumption, DataAssumption
DEF Init, TypeOK, RuntimeState, Content, ReloadSteps, UpdateSteps, Activities, Kinds,
    TomlFiles, FsClasses

LEMMA EnvironmentType ==
  ASSUME TypeOK, Environment
  PROVE  TypeOK'
<1>1. ASSUME NEW f \in TomlFiles, NEW b \in Bodies, Edit(f, b)
      PROVE  TypeOK'
  <2>1. fs' \in [FsClasses -> Nat]
    BY <1>1, TouchType DEF Edit, TypeOK
  <2>2. disk' \in [TomlFiles -> Content]
    BY <1>1 DEF Edit, TypeOK, Content
  <2> QED
    BY <1>1, <2>1, <2>2 DEF Edit, TypeOK, store, task
<1>2. ASSUME NEW d \in DataFiles, Release(d) \/ Damage(d) \/ Repair(d)
      PROVE  TypeOK'
  BY <1>2 DEF Release, Damage, Repair, TypeOK, files, task
<1>3. ASSUME NEW k \in Kinds, TimerFires(k)
      PROVE  TypeOK'
  BY <1>3 DEF TimerFires, TypeOK, files, store
<1> QED
  BY <1>1, <1>2, <1>3 DEF Environment

LEMMA QueueType ==
  ASSUME TypeOK,
         \/ StartWatching \/ NotifyError \/ RecvError
         \/ \E class \in FsClasses : Notify(class)
  PROVE  TypeOK'
BY DEF StartWatching, NotifyError, RecvError, Notify, TypeOK, files, store, task

LEMMA ReloadType ==
  ASSUME TypeOK, Reload
  PROVE  TypeOK'
<1>1. CASE RecvConfigChanged
  <2>1. pc' \in [Activities -> {"idle"} \cup ReloadSteps \cup UpdateSteps]
    BY <1>1, GoToType DEF RecvConfigChanged, Activities, ReloadSteps
  <2> QED
    BY <1>1, <2>1 DEF RecvConfigChanged, TypeOK, store
<1>2. CASE DrainEvents
  <2>1. pc' \in [Activities -> {"idle"} \cup ReloadSteps \cup UpdateSteps]
    BY <1>2, GoToType DEF DrainEvents, Activities, ReloadSteps
  <2> QED
    BY <1>2, <2>1 DEF DrainEvents, TypeOK, store
<1>3. ASSUME NEW f \in TomlFiles, ReadToml(f)
      PROVE  TypeOK'
  <2>1. draft' \in RuntimeState
    BY <1>3, ReadDraft DEF ReadToml, TypeOK
  <2>2. fs' \in [FsClasses -> Nat] /\ faults' \in Nat /\ outcome' \in {"published", "failed"}
    BY <1>3, TouchType DEF ReadToml, FailReload, Proceed, TypeOK
  <2>3. AfterToml[f] \in ReloadSteps
    BY DEF AfterToml, ReloadSteps, TomlFiles
  <2>4. /\ pc' \in [Activities -> {"idle"} \cup ReloadSteps \cup UpdateSteps]
        /\ timer' \in [Kinds -> {"armed", "fired"}]
        /\ phase' \in {"starting", "watching", "panicked"}
        /\ state' = state
    BY <1>3, <2>3, EndReloadType, ProceedType DEF ReadToml, FailReload
  <2> QED
    BY <1>3, <2>1, <2>2, <2>4 DEF ReadToml, TypeOK
<1>4. CASE EnsureLanguage
  <2>1. fs' \in [FsClasses -> Nat] /\ faults' \in Nat /\ outcome' \in {"published", "failed"}
    BY <1>4, TouchType DEF EnsureLanguage, FailReload, Proceed, TypeOK
  <2>2. disk' \in [TomlFiles -> Content]
    BY <1>4, BodiesAssumption DEF EnsureLanguage, WriteLanguage, TypeOK, Content, TomlFiles
  <2>3. /\ pc' \in [Activities -> {"idle"} \cup ReloadSteps \cup UpdateSteps]
        /\ timer' \in [Kinds -> {"armed", "fired"}]
        /\ phase' \in {"starting", "watching", "panicked"}
        /\ state' = state
    BY <1>4, EndReloadType, ProceedType DEF EnsureLanguage, FailReload, ReloadSteps
  <2> QED
    BY <1>4, <2>1, <2>2, <2>3 DEF EnsureLanguage, TypeOK
<1>5. ASSUME NEW k \in Kinds, NEW got \in SUBSET DataFiles, LoadData(k, got)
      PROVE  TypeOK'
  <2>1. fs' \in [FsClasses -> Nat]
    BY <1>5, TouchType DEF LoadData, TypeOK
  <2>2. data' \in [DataFiles -> Nat]
    BY <1>5 DEF LoadData, TypeOK
  <2>3. /\ draft' \in RuntimeState
        /\ faults' \in Nat
    BY <1>5, <2>2 DEF LoadData, TypeOK, RuntimeState
  <2>5. outcome' \in {"published", "failed"}
    BY <1>5 DEF LoadData, FailReload, Proceed, TypeOK
  <2>4. /\ pc' \in [Activities -> {"idle"} \cup ReloadSteps \cup UpdateSteps]
        /\ timer' \in [Kinds -> {"armed", "fired"}]
        /\ phase' \in {"starting", "watching", "panicked"}
        /\ state' = state
    <3>1. (IF k = "ip2region" THEN "security" ELSE "apply") \in ReloadSteps
      BY DEF ReloadSteps
    <3> QED
      BY <1>5, <3>1, EndReloadType, ProceedType DEF LoadData, FailReload
  <2> QED
    BY <1>5, <2>1, <2>2, <2>3, <2>4, <2>5 DEF LoadData, TypeOK
<1>6. CASE ApplyLog
  <2>1. fs' \in [FsClasses -> Nat] /\ faults' \in Nat /\ outcome' \in {"published", "failed"}
    BY <1>6, TouchType DEF ApplyLog, FailReload, Proceed, TypeOK
  <2>2. /\ pc' \in [Activities -> {"idle"} \cup ReloadSteps \cup UpdateSteps]
        /\ timer' \in [Kinds -> {"armed", "fired"}]
        /\ phase' \in {"starting", "watching", "panicked"}
        /\ state' = state
    BY <1>6, EndReloadType, ProceedType DEF ApplyLog, FailReload, ReloadSteps
  <2> QED
    BY <1>6, <2>1, <2>2 DEF ApplyLog, TypeOK
<1>7. CASE PublishReload
  <2>1. fs' \in [FsClasses -> Nat]
    BY <1>7, TouchType DEF PublishReload, TypeOK
  <2> QED
    BY <1>7, <2>1, EndReloadType DEF PublishReload, TypeOK, store
<1> QED
  BY <1>1, <1>2, <1>3, <1>4, <1>5, <1>6, <1>7 DEF Reload

LEMMA UpdateType ==
  ASSUME TypeOK, NEW k \in Kinds, Update(k),
         pc[k] # "idle" => current[k] = state
  PROVE  TypeOK'
<1>1. CASE SkipUpdate(k)
  BY <1>1, EndUpdateType DEF SkipUpdate, TypeOK, files, store
<1>2. CASE StartUpdate(k) 
  <2>1. pc' \in [Activities -> {"idle"} \cup ReloadSteps \cup UpdateSteps]
    BY <1>2, GoToType DEF StartUpdate, Activities, UpdateSteps
  <2> QED
    BY <1>2, <2>1 DEF StartUpdate, TypeOK, files, store
<1>3. ASSUME NEW got \in SUBSET (Maintained \cap DataOf(k)), Download(k, got)
      PROVE  TypeOK'
  <2>1. fs' \in [FsClasses -> Nat]
    BY <1>3, TouchType DEF Download, TypeOK
  <2>2. /\ data' \in [DataFiles -> Nat]
        /\ corrupt' \in SUBSET DataFiles
    BY <1>3 DEF Download, TypeOK
  <2>3. /\ pc' \in [Activities -> {"idle"} \cup ReloadSteps \cup UpdateSteps]
        /\ timer' \in [Kinds -> {"armed", "fired"}]
        /\ phase' \in {"starting", "watching", "panicked"}
        /\ current' \in [Kinds -> RuntimeState \cup {NoState}]
    <3>1. CASE Changed(got) = {}
      BY <1>3, <3>1, EndUpdateType DEF Download
    <3>2. CASE Changed(got) # {}
      BY <1>3, <3>2, GoToType DEF Download, TypeOK, Activities, UpdateSteps
    <3> QED
      BY <3>1, <3>2
  <2> QED
    BY <1>3, <2>1, <2>2, <2>3 DEF Download, TypeOK
<1>4. CASE PublishUpdate(k)
  <2>1. fs' \in [FsClasses -> Nat]
    BY <1>4, TouchType DEF PublishUpdate, TypeOK
  <2>2. state' \in RuntimeState
    BY <1>4, WithDataType DEF PublishUpdate, TypeOK
  <2> QED
    BY <1>4, <2>1, <2>2, EndUpdateType DEF PublishUpdate, TypeOK, store
<1>5. CASE OpenFails(k)
  <2>1. fs' \in [FsClasses -> Nat]
    BY <1>5, TouchType DEF OpenFails, TypeOK
  <2> QED
    BY <1>5, <2>1, EndUpdateType DEF OpenFails, TypeOK
<1> QED
  BY <1>1, <1>2, <1>3, <1>4, <1>5 DEF Update

-----------------------------------------------------------------------------
(* One activity at a time.                                                 *)

\* An activity that runs, or that starts when none runs, keeps the others idle.
LEMMA MoveOne ==
  ASSUME TypeOK, OneActivity, NEW a \in Activities, NEW step, GoTo(a, step),
         pc[a] # "idle" \/ \A b \in Activities : pc[b] = "idle",
         step = "idle" \/ (a = "reload" /\ step \in ReloadSteps)
                       \/ (a \in Kinds /\ step \in UpdateSteps)
  PROVE  OneActivity'
BY DEF GoTo, OneActivity, TypeOK, Activities, Kinds

LEMMA OneActivityStep ==
  ASSUME TypeOK, OneActivity, [Next]_vars
  PROVE  OneActivity'
<1> USE DEF Activities
<1>1. CASE UNCHANGED pc
  BY <1>1 DEF OneActivity
<1>2. CASE RecvConfigChanged
  BY <1>2, MoveOne DEF RecvConfigChanged, SelectReady, ReloadSteps
<1>3. CASE DrainEvents
  BY <1>3, MoveOne DEF DrainEvents, ReloadSteps
<1>4. ASSUME NEW f \in TomlFiles, ReadToml(f)
      PROVE  OneActivity'
  <2>1. f # "idle" /\ AfterToml[f] \in ReloadSteps
    BY DEF AfterToml, ReloadSteps, TomlFiles
  <2> QED
    BY <1>4, <2>1, MoveOne DEF ReadToml, FailReload, EndReload, Proceed
<1>5. ASSUME NEW k \in Kinds, NEW got \in SUBSET DataFiles, LoadData(k, got)
      PROVE  OneActivity'
  <2>1. k # "idle" /\ (IF k = "ip2region" THEN "security" ELSE "apply") \in ReloadSteps
    BY DEF ReloadSteps, Kinds
  <2> QED
    BY <1>5, <2>1, MoveOne DEF LoadData, FailReload, EndReload, Proceed
<1>6. CASE ApplyLog
  BY <1>6, MoveOne DEF ApplyLog, FailReload, EndReload, Proceed, ReloadSteps
<1>7. CASE PublishReload
  BY <1>7, MoveOne DEF PublishReload, EndReload
<1>8. ASSUME NEW k \in Kinds, Update(k)
      PROVE  OneActivity'
  <2>1. CASE SkipUpdate(k)
    BY <2>1, MoveOne DEF SkipUpdate, SelectReady, EndUpdate
  <2>2. CASE StartUpdate(k)
    BY <2>2, MoveOne DEF StartUpdate, SelectReady, UpdateSteps
  <2>3. ASSUME NEW got \in SUBSET (Maintained \cap DataOf(k)), Download(k, got)
        PROVE  OneActivity'
    <3>1. GoTo(k, "idle") \/ GoTo(k, "open")
      BY <2>3 DEF Download, EndUpdate
    <3> QED
      BY <2>3, <3>1, MoveOne DEF Download, UpdateSteps
  <2>4. CASE PublishUpdate(k) \/ OpenFails(k)
    BY <2>4, MoveOne DEF PublishUpdate, OpenFails, EndUpdate
  <2> QED
    BY <1>8, <2>1, <2>2, <2>3, <2>4 DEF Update
<1>9. CASE Environment \/ StartWatching \/ NotifyError \/ RecvError
  BY <1>1, <1>9 DEF Environment, Edit, Release, Damage, Repair, TimerFires, StartWatching, NotifyError,
    RecvError, task
<1>10. CASE \E class \in FsClasses : Notify(class)
  BY <1>1, <1>10 DEF Notify, task
<1>11. CASE UNCHANGED vars
  BY <1>1, <1>11 DEF vars, task
<1>12. CASE EnsureLanguage
  <2>1. GoTo("reload", "lang") \/ GoTo("reload", "idle")
    BY <1>12 DEF EnsureLanguage, FailReload, EndReload, Proceed
  <2> QED
    BY <1>12, <2>1, MoveOne DEF EnsureLanguage, ReloadSteps
<1> QED
  BY <1>2, <1>3, <1>4, <1>5, <1>6, <1>7, <1>8, <1>9, <1>10, <1>11, <1>12 DEF Next, Reload

-----------------------------------------------------------------------------
(* What the steps leave alone.  The other invariants follow from these.    *)

\* Only a reload or an update publishes, and only they move data and drafts.
LEMMA QuietSteps ==
  ASSUME \/ Environment \/ StartWatching \/ NotifyError \/ RecvError
         \/ \E class \in FsClasses : Notify(class)
         \/ UNCHANGED vars
  PROVE  UNCHANGED <<pc, state, draft, current, data, outcome, logfile>>
<1>1. CASE Environment
  BY <1>1 DEF Environment, Edit, Release, Damage, Repair, TimerFires, store, task
<1>2. CASE StartWatching \/ NotifyError \/ RecvError
  BY <1>2 DEF StartWatching, NotifyError, RecvError, store, task
<1>3. CASE \E class \in FsClasses : Notify(class)
  BY <1>3 DEF Notify, store, task
<1>4. CASE UNCHANGED vars
  BY <1>4 DEF vars, store, task
<1> QED
  BY <1>1, <1>2, <1>3, <1>4

\* A reload that goes on, and one that ends.
LEMMA ReloadMoves ==
  ASSUME TypeOK
  PROVE  /\ \A step : Proceed(step) => /\ pc' = [pc EXCEPT !["reload"] = step]
                                       /\ pc'["reload"] = step
                                       /\ state' = state
                                       /\ outcome' = outcome
         /\ \A st : EndReload(st) => /\ pc' = [pc EXCEPT !["reload"] = "idle"]
                                     /\ pc'["reload"] = "idle"
         /\ \A k \in Kinds : pc[k] = pc'[k] \/ ~(EndReload(state) \/ \E step : Proceed(step))
BY DEF Proceed, EndReload, GoTo, TypeOK, Activities, Kinds

\* The steps of an update move that update only.
LEMMA UpdateMoves ==
  ASSUME TypeOK, NEW k \in Kinds, Update(k)
  PROVE  /\ pc'["reload"] = pc["reload"]
         /\ UNCHANGED <<disk, events, draft, outcome, logfile>>
<1>1. /\ \E step : GoTo(k, step)
      /\ UNCHANGED <<disk, events, draft, outcome, logfile>>
  <2>1. CASE SkipUpdate(k) \/ StartUpdate(k)
    BY <2>1 DEF SkipUpdate, StartUpdate, EndUpdate, files
  <2>2. ASSUME NEW got \in SUBSET (Maintained \cap DataOf(k)), Download(k, got)
        PROVE  (\E step : GoTo(k, step)) /\ UNCHANGED <<disk, events, draft, outcome, logfile>>
    BY <2>2 DEF Download, EndUpdate
  <2>3. CASE PublishUpdate(k) \/ OpenFails(k)
    BY <2>3 DEF PublishUpdate, OpenFails, EndUpdate
  <2> QED
    BY <2>1, <2>2, <2>3 DEF Update
<1> QED
  BY <1>1 DEF GoTo, TypeOK, Kinds, Activities

-----------------------------------------------------------------------------
(* Updates work on the published state.                                    *)

\* While a reload runs no update does, so a publication finds none at work.
LEMMA NothingStaleStep ==
  ASSUME TypeOK, OneActivity, NothingStale, [Next]_vars
  PROVE  NothingStale'
<1> USE DEF Activities
<1>1. CASE UNCHANGED <<pc, state, draft, current, data, logfile>>
  BY <1>1 DEF NothingStale
<1>2. CASE Reload
  <2>1. CASE UNCHANGED <<pc, state, current>>
    BY <2>1 DEF NothingStale
  <2>2. CASE RecvConfigChanged
    BY <2>2 DEF RecvConfigChanged, SelectReady, GoTo, NothingStale, TypeOK, Kinds
  <2>3. CASE pc["reload"] # "idle"
    <3>1. \A k \in Kinds : pc[k] = "idle"
      BY <2>3 DEF OneActivity, Kinds
    <3>2. \E step : GoTo("reload", step)
      BY <1>2, <2>3 DEF Reload, RecvConfigChanged, SelectReady, DrainEvents, ReadToml, EnsureLanguage, LoadData,
        ApplyLog, PublishReload, FailReload, EndReload, Proceed, GoTo, task, TypeOK
    <3> QED
      BY <3>1, <3>2 DEF GoTo, NothingStale, TypeOK, Kinds
  <2> QED
    BY <1>2, <2>1, <2>2, <2>3 DEF Reload, DrainEvents, ReadToml, EnsureLanguage, LoadData, ApplyLog,
      PublishReload, TomlFiles, Kinds, task
<1>3. ASSUME NEW k \in Kinds, Update(k)
      PROVE  NothingStale'
  <2>1. CASE SkipUpdate(k)
    BY <2>1 DEF SkipUpdate, SelectReady, EndUpdate, GoTo, NothingStale, TypeOK
  <2>2. CASE StartUpdate(k)
    BY <2>2 DEF StartUpdate, SelectReady, GoTo, NothingStale, TypeOK
  <2>3. ASSUME NEW got \in SUBSET (Maintained \cap DataOf(k)), Download(k, got)
        PROVE  NothingStale'
    <3>1. \/ GoTo(k, "open") /\ current' = current
          \/ GoTo(k, "idle") /\ current' = [current EXCEPT ![k] = NoState]
      BY <2>3 DEF Download, EndUpdate
    <3>2. pc[k] # "idle" /\ state' = state
      BY <2>3 DEF Download
    <3> QED
      BY <3>1, <3>2 DEF GoTo, NothingStale, TypeOK
  <2>4. CASE PublishUpdate(k) \/ OpenFails(k)
    <3>1. \A j \in Kinds : pc'[j] = "idle"
      BY <2>4 DEF PublishUpdate, OpenFails, EndUpdate, GoTo, OneActivity, TypeOK
    <3> QED
      BY <3>1 DEF NothingStale
  <2> QED
    BY <1>3, <2>1, <2>2, <2>3, <2>4 DEF Update
<1> QED
  BY <1>1, <1>2, <1>3, QuietSteps DEF Next

\* An update publishes the data of its kind as it is on disk, or nothing.
LEMMA UpdatePublishes ==
  ASSUME TypeOK, NothingStale, NEW k \in Kinds, Update(k)
  PROVE  \/ state' = state
         \/ /\ pc[k] = "open"
            /\ data' = data
            /\ state'.config = state.config
            /\ state'.data = [d \in DataFiles |-> IF d \in DataOf(k) THEN data[d] ELSE state.data[d]]
<1>1. CASE PublishUpdate(k)
  <2>1. current[k] = state
    BY <1>1 DEF PublishUpdate, NothingStale
  <2> QED
    BY <1>1, <2>1, WithDataType DEF PublishUpdate, TypeOK, store
<1>2. CASE ~PublishUpdate(k)
  BY <1>2 DEF Update, SkipUpdate, StartUpdate, Download, OpenFails
<1> QED
  BY <1>1, <1>2

-----------------------------------------------------------------------------
(* What is published loads.                                                *)

LEMMA LoadsStep ==
  ASSUME TypeOK, OneActivity, NothingStale, PublishedLoads, DraftLoads, [Next]_vars
  PROVE  PublishedLoads' /\ DraftLoads'
<1>1. CASE UNCHANGED <<pc, state, draft>>
  BY <1>1 DEF PublishedLoads, DraftLoads, Loads
<1>2. CASE RecvConfigChanged \/ DrainEvents
  BY <1>2 DEF RecvConfigChanged, DrainEvents, GoTo, PublishedLoads, DraftLoads, Loads, StepsBefore, TypeOK,
    Activities
<1>3. ASSUME NEW f \in TomlFiles, ReadToml(f)
      PROVE  PublishedLoads' /\ DraftLoads'
  <2>2. CASE FailReload
    BY <1>3, <2>2, ReloadMoves DEF ReadToml, FailReload, PublishedLoads, DraftLoads, Loads
  <2>3. CASE ~FailReload
    <3>1. pc["reload"] = f /\ pc'["reload"] = AfterToml[f] /\ state' = state /\ disk[f].body \notin Invalid
      BY <1>3, <2>3, ReloadMoves DEF ReadToml
    <3>3. draft'.config = [draft.config EXCEPT ![f] = disk[f]]
      BY <1>3, <2>3, ReadDraft DEF ReadToml, TypeOK
    <3>2. \A g \in TomlFiles : AfterToml[f] \notin StepsBefore(g) /\ g # f => f \notin {"idle"} \cup StepsBefore(g)
      BY DEF AfterToml, StepsBefore, TomlFiles
    <3> QED
      BY <3>1, <3>2, <3>3 DEF PublishedLoads, DraftLoads, Loads, TypeOK, RuntimeState
  <2> QED
    BY <2>2, <2>3
<1>4. ASSUME NEW k \in Kinds, NEW got \in SUBSET DataFiles, LoadData(k, got)
      PROVE  PublishedLoads' /\ DraftLoads'
  <2>1. draft'.config = draft.config
    BY <1>4 DEF LoadData, TypeOK, RuntimeState
  <2>2. \A f \in TomlFiles : k \notin {"idle"} \cup StepsBefore(f)
    BY DEF Kinds, StepsBefore
  <2> QED
    BY <1>4, <2>1, <2>2, ReloadMoves DEF LoadData, FailReload, PublishedLoads, DraftLoads, Loads
<1>5. CASE ApplyLog
  BY <1>5, ReloadMoves DEF ApplyLog, FailReload, PublishedLoads, DraftLoads, Loads, StepsBefore
<1>6. CASE PublishReload
  BY <1>6, ReloadMoves DEF PublishReload, PublishedLoads, DraftLoads, Loads, StepsBefore
<1>7. ASSUME NEW k \in Kinds, Update(k)
      PROVE  PublishedLoads' /\ DraftLoads'
  <2>1. pc'["reload"] = pc["reload"] /\ draft' = draft
    BY <1>7, UpdateMoves
  <2>2. state'.config = state.config
    BY <1>7, UpdatePublishes
  <2> QED
    BY <2>1, <2>2 DEF PublishedLoads, DraftLoads, Loads
<1>8. CASE EnsureLanguage
  BY <1>8, ReloadMoves DEF EnsureLanguage, FailReload, PublishedLoads, DraftLoads, Loads, StepsBefore
<1> QED
  BY <1>1, <1>2, <1>3, <1>4, <1>5, <1>6, <1>7, <1>8, QuietSteps DEF Next, Reload

-----------------------------------------------------------------------------
(* The log file.                                                           *)

LEMMA LogStep ==
  ASSUME TypeOK, NothingStale, LogApplied, [Next]_vars
  PROVE  LogApplied'
<1> USE DEF ConfigBody
<1>1. CASE UNCHANGED <<pc, state, draft, logfile>>
  BY <1>1 DEF LogApplied
<1>2. CASE RecvConfigChanged \/ DrainEvents
  BY <1>2 DEF RecvConfigChanged, DrainEvents, SelectReady, GoTo, LogApplied, TypeOK, Activities
<1>3. ASSUME NEW f \in TomlFiles, ReadToml(f)
      PROVE  LogApplied'
  <2>1. f # "publish" /\ AfterToml[f] # "publish"
    BY DEF AfterToml, TomlFiles
  <2> QED
    BY <1>3, <2>1, ReloadMoves DEF ReadToml, FailReload, LogApplied
<1>4. ASSUME NEW k \in Kinds, NEW got \in SUBSET DataFiles, LoadData(k, got)
      PROVE  LogApplied'
  BY <1>4, ReloadMoves DEF LoadData, FailReload, LogApplied, Kinds
<1>5. CASE ApplyLog
  BY <1>5, ReloadMoves DEF ApplyLog, FailReload, LogApplied
<1>6. CASE PublishReload
  BY <1>6, ReloadMoves DEF PublishReload, LogApplied
<1>7. ASSUME NEW k \in Kinds, Update(k)
      PROVE  LogApplied'
  BY <1>7, UpdateMoves, UpdatePublishes DEF LogApplied
<1>8. CASE EnsureLanguage
  BY <1>8, ReloadMoves DEF EnsureLanguage, FailReload, LogApplied
<1> QED
  BY <1>1, <1>2, <1>3, <1>4, <1>5, <1>6, <1>7, <1>8, QuietSteps DEF Next, Reload

-----------------------------------------------------------------------------
(* The ages of the contents.                                               *)

LEMMA NewerTransitive ==
  ASSUME NEW a \in Content, NEW b \in Content, NEW c \in Content,
         NewerContent(a, b), NewerContent(b, c)
  PROVE  NewerContent(a, c)
BY DEF NewerContent, Content

\* Files are only ever written anew.
LEMMA DiskGrows ==
  ASSUME TypeOK, [Next]_vars
  PROVE  \A f \in TomlFiles : NewerContent(disk[f], disk'[f])
<1>1. CASE UNCHANGED disk
  BY <1>1 DEF NewerContent, TypeOK, Content
<1>2. ASSUME NEW g \in TomlFiles, NEW b, disk' = [disk EXCEPT ![g] = [gen |-> @.gen + 1, body |-> b]]
      PROVE  \A f \in TomlFiles : NewerContent(disk[f], disk'[f])
  BY <1>2 DEF NewerContent, TypeOK, Content
<1>3. CASE Environment
  BY <1>1, <1>2, <1>3 DEF Environment, Edit, Release, Damage, Repair, TimerFires, files
<1>4. CASE Reload
  BY <1>1, <1>2, <1>4 DEF Reload, RecvConfigChanged, DrainEvents, ReadToml, EnsureLanguage, WriteLanguage,
    LoadData, ApplyLog, PublishReload, TomlFiles
<1>5. CASE \E k \in Kinds : Update(k)
  BY <1>1, <1>5, UpdateMoves
<1>6. CASE \/ StartWatching \/ NotifyError \/ RecvError \/ UNCHANGED vars
           \/ \E class \in FsClasses : Notify(class)
  BY <1>1, <1>6 DEF StartWatching, NotifyError, RecvError, Notify, vars, files
<1> QED
  BY <1>3, <1>4, <1>5, <1>6 DEF Next

LEMMA ConfigAgesStep ==
  ASSUME TypeOK, TypeOK', NothingStale, ConfigAges, [Next]_vars
  PROVE  ConfigAges'
<1> SUFFICES ASSUME NEW g \in TomlFiles
             PROVE  /\ NewerContent(state'.config[g], draft'.config[g])
                    /\ NewerContent(draft'.config[g], disk'[g])
  BY DEF ConfigAges
<1>1. /\ state.config[g] \in Content /\ draft.config[g] \in Content
      /\ disk[g] \in Content /\ disk'[g] \in Content
  BY DEF TypeOK, RuntimeState
<1>2. /\ NewerContent(state.config[g], draft.config[g])
      /\ NewerContent(draft.config[g], disk[g])
      /\ NewerContent(state.config[g], disk[g])
      /\ NewerContent(draft.config[g], disk'[g])
      /\ NewerContent(disk[g], disk[g])
      /\ NewerContent(draft.config[g], draft.config[g])
  BY <1>1, NewerTransitive, DiskGrows DEF ConfigAges, NewerContent, Content
<1>3. CASE state'.config = state.config /\ draft'.config = draft.config
  BY <1>2, <1>3
<1>4. ASSUME NEW f \in TomlFiles, ReadToml(f)
      PROVE  /\ NewerContent(state'.config[g], draft'.config[g])
             /\ NewerContent(draft'.config[g], disk'[g])
  <2>1. /\ \/ draft'.config = [draft.config EXCEPT ![f] = disk[f]]
           \/ draft'.config = draft.config
        /\ draft.config \in [TomlFiles -> Content]
    BY <1>4, ReadDraft DEF ReadToml, TypeOK, RuntimeState
  <2>2. state' = state /\ disk' = disk
    BY <1>4, ReloadMoves DEF ReadToml, FailReload
  <2> QED
    BY <1>2, <2>1, <2>2
<1>5. CASE PublishReload
  BY <1>2, <1>5 DEF PublishReload
<1>6. ASSUME NEW k \in Kinds, NEW got \in SUBSET DataFiles, LoadData(k, got)
      PROVE  state'.config = state.config /\ draft'.config = draft.config
  BY <1>6, ReloadMoves DEF LoadData, FailReload, TypeOK, RuntimeState
<1>7. CASE RecvConfigChanged \/ DrainEvents \/ EnsureLanguage \/ ApplyLog
  BY <1>3, <1>7, ReloadMoves DEF RecvConfigChanged, DrainEvents, EnsureLanguage, ApplyLog, FailReload, task
<1>8. ASSUME NEW k \in Kinds, Update(k)
      PROVE  state'.config = state.config /\ draft'.config = draft.config
  BY <1>8, UpdateMoves, UpdatePublishes
<1> QED
  BY <1>3, <1>4, <1>5, <1>6, <1>7, <1>8, QuietSteps DEF Next, Reload

-----------------------------------------------------------------------------
(* The ages of the data.                                                   *)

\* Data files and releases only become newer.
LEMMA DataGrows ==
  ASSUME TypeOK, DataAges, [Next]_vars
  PROVE  \A d \in DataFiles : data[d] <= data'[d] /\ remote[d] <= remote'[d] /\ data'[d] <= remote'[d]
<1> USE DEF TypeOK, DataAges
<1>1. CASE UNCHANGED <<data, remote>>
  BY <1>1
<1>2. ASSUME NEW e \in DataFiles, Release(e)
      PROVE  \A d \in DataFiles : data[d] <= data'[d] /\ remote[d] <= remote'[d] /\ data'[d] <= remote'[d]
  BY <1>2 DEF Release
<1>3. ASSUME NEW got,
             data' = [d \in DataFiles |-> IF d \in got THEN remote[d] ELSE data[d]], remote' = remote
      PROVE  \A d \in DataFiles : data[d] <= data'[d] /\ remote[d] <= remote'[d] /\ data'[d] <= remote'[d]
  BY <1>3
<1>4. CASE Environment
  BY <1>1, <1>2, <1>4 DEF Environment, Edit, Damage, Repair, TimerFires, store
<1>5. CASE Reload
  BY <1>1, <1>3, <1>5 DEF Reload, RecvConfigChanged, DrainEvents, ReadToml, EnsureLanguage, LoadData,
    ApplyLog, PublishReload, store
<1>6. ASSUME NEW k \in Kinds, Update(k)
      PROVE  \A d \in DataFiles : data[d] <= data'[d] /\ remote[d] <= remote'[d] /\ data'[d] <= remote'[d]
  <2>1. ASSUME NEW got \in SUBSET (Maintained \cap DataOf(k)), Download(k, got)
        PROVE  /\ data' = [d \in DataFiles |-> IF d \in Changed(got) THEN remote[d] ELSE data[d]]
               /\ remote' = remote
    BY <2>1 DEF Download
  <2>2. CASE SkipUpdate(k) \/ StartUpdate(k) \/ PublishUpdate(k) \/ OpenFails(k)
    BY <1>1, <2>2 DEF SkipUpdate, StartUpdate, PublishUpdate, OpenFails, store
  <2> QED
    BY <1>3, <1>6, <2>1, <2>2 DEF Update
<1>7. CASE \/ StartWatching \/ NotifyError \/ RecvError \/ UNCHANGED vars
           \/ \E class \in FsClasses : Notify(class)
  BY <1>1, <1>7 DEF StartWatching, NotifyError, RecvError, Notify, vars, store
<1> QED
  BY <1>4, <1>5, <1>6, <1>7 DEF Next

LEMMA DataAgesStep ==
  ASSUME TypeOK, TypeOK', OneActivity, NothingStale, DataAges, [Next]_vars
  PROVE  DataAges'
<1> SUFFICES ASSUME NEW d \in DataFiles
             PROVE  /\ state'.data[d] <= data'[d]
                    /\ draft'.data[d] <= data'[d]
                    /\ \/ pc'["reload"] \in {"apply", "publish"}
                       \/ pc'["reload"] = "security" /\ KindOf[d] = "ip2region"
                       => state'.data[d] <= draft'.data[d]
  BY DataGrows DEF DataAges
<1>1. /\ data[d] <= data'[d]
      /\ data[d] \in Nat /\ data'[d] \in Nat
      /\ state.data[d] \in Nat /\ draft.data[d] \in Nat
      /\ state'.data[d] \in Nat /\ draft'.data[d] \in Nat
  BY DataGrows DEF TypeOK, RuntimeState
<1>2. /\ state.data[d] <= data[d]
      /\ draft.data[d] <= data[d]
      /\ \/ pc["reload"] \in {"apply", "publish"}
         \/ pc["reload"] = "security" /\ KindOf[d] = "ip2region"
         => state.data[d] <= draft.data[d]
  BY DEF DataAges
<1>3. CASE UNCHANGED <<pc, state, draft>>
  BY <1>1, <1>2, <1>3
<1>4. CASE RecvConfigChanged \/ DrainEvents
  BY <1>1, <1>2, <1>4 DEF RecvConfigChanged, DrainEvents, GoTo, TypeOK, Activities
<1>5. ASSUME NEW f \in TomlFiles, ReadToml(f)
      PROVE  state' = state /\ draft'.data = draft.data /\ pc'["reload"] \notin {"security", "apply", "publish"}
  <2>1. AfterToml[f] \notin {"security", "apply", "publish"}
    BY DEF AfterToml, TomlFiles
  <2> QED
    BY <1>5, <2>1, ReadDraft, ReloadMoves DEF ReadToml, FailReload, TypeOK
<1>6. ASSUME NEW k \in Kinds, NEW got \in SUBSET DataFiles, LoadData(k, got), pc'["reload"] # "idle"
      PROVE  /\ state' = state
             /\ draft'.data[d] = IF KindOf[d] = k THEN data'[d] ELSE draft.data[d]
             /\ k = "ip2region" => pc'["reload"] = "security"
             /\ pc["reload"] = k
  BY <1>6, ReloadMoves DEF LoadData, FailReload, TypeOK, RuntimeState, DataOf, Kinds
<1>7. ASSUME NEW k \in Kinds, NEW got \in SUBSET DataFiles, LoadData(k, got), pc'["reload"] = "idle"
      PROVE  state' = state /\ draft' = draft
  BY <1>7, ReloadMoves DEF LoadData, FailReload, Kinds
<1>8. CASE \E k \in Kinds, got \in SUBSET DataFiles : LoadData(k, got)
  <2>1. KindOf[d] \in {"ip2region", "security"}
    BY DataAssumption DEF Kinds
  <2> QED
    BY <1>1, <1>2, <1>6, <1>7, <1>8, <2>1 DEF Kinds
<1>9. CASE ApplyLog
  BY <1>1, <1>2, <1>9, ReloadMoves DEF ApplyLog, FailReload
<1>10. CASE PublishReload
  BY <1>1, <1>2, <1>10, ReloadMoves DEF PublishReload
<1>11. ASSUME NEW k \in Kinds, Update(k)
       PROVE  /\ state'.data[d] <= data'[d]
              /\ draft' = draft
              /\ pc'["reload"] = pc["reload"]
              /\ state'.data # state.data => pc["reload"] = "idle"
  BY <1>1, <1>2, <1>11, UpdateMoves, UpdatePublishes DEF OneActivity, Activities, Kinds
<1>12. CASE EnsureLanguage
  BY <1>1, <1>2, <1>12, ReloadMoves DEF EnsureLanguage, FailReload
<1> QED
  BY <1>1, <1>2, <1>3, <1>4, <1>5, <1>8, <1>9, <1>10, <1>11, <1>12, QuietSteps DEF Next, Reload

-----------------------------------------------------------------------------
(* No edit is lost.                                                        *)

LEMMA EditsStep ==
  ASSUME TypeOK, TypeOK', OneActivity, NothingStale, EditsAccounted, [Next]_vars
  PROVE  EditsAccounted'
<1> SUFFICES ASSUME ~EditsAtStart, NEW g \in TomlFiles
             PROVE  \/ disk'[g] = draft'.config[g]
                    \/ fs'["toml_write"] > 0
                    \/ events' > 0
                    \/ pc'["reload"] \in StepsBefore(g)
                    \/ pc'["reload"] = "idle" /\ outcome' = "failed"
  BY DEF EditsAccounted
<1> DEFINE Accounted == \/ disk[g] = draft.config[g]
                        \/ fs["toml_write"] > 0
                        \/ events > 0
                        \/ pc["reload"] \in StepsBefore(g)
                        \/ pc["reload"] = "idle" /\ outcome = "failed"
<1>1. Accounted
  BY DEF EditsAccounted
<1>2. /\ events \in Nat /\ \A c \in FsClasses : fs[c] \in Nat
      /\ "toml_write" \in FsClasses
      /\ "idle" \notin StepsBefore(g)
  BY DEF TypeOK, FsClasses, StepsBefore
<1>3. \A cs : /\ Touch(cs)["toml_write"] >= fs["toml_write"]
              /\ "toml_write" \in cs => Touch(cs)["toml_write"] > 0
  BY <1>2 DEF Touch
<1> HIDE DEF Accounted
<1>4. CASE Environment
  <2>1. ASSUME NEW f \in TomlFiles, NEW b \in Bodies, Edit(f, b)
        PROVE  fs'["toml_write"] > 0
    BY <1>3, <2>1 DEF Edit
  <2>2. CASE \/ \E d \in DataFiles : Release(d) \/ Damage(d) \/ Repair(d)
             \/ \E k \in Kinds : TimerFires(k)
    BY <1>1, <2>2 DEF Accounted, Release, Damage, Repair, TimerFires, files, task
  <2> QED
    BY <1>4, <2>1, <2>2 DEF Environment
<1>5. ASSUME NEW class \in FsClasses, Notify(class)
      PROVE  \/ Accounted'
  <2>1. CASE class = "toml_write"
    BY <1>2, <1>5, <2>1 DEF Accounted, Notify, IsConfigEvent
  <2>2. CASE class # "toml_write"
    BY <1>1, <1>2, <1>5, <2>2 DEF Accounted, Notify, IsConfigEvent, task, TypeOK
  <2> QED
    BY <2>1, <2>2
<1>6. CASE RecvConfigChanged \/ DrainEvents
  <2>1. pc'["reload"] \in StepsBefore(g)
    BY <1>6 DEF RecvConfigChanged, DrainEvents, GoTo, StepsBefore, TypeOK, Activities
  <2> QED
    BY <2>1
<1>7. ASSUME NEW f \in TomlFiles, ReadToml(f)
      PROVE  Accounted'
  <2>1. disk' = disk /\ events' = events /\ fs'["toml_write"] >= fs["toml_write"] /\ pc["reload"] = f
    BY <1>3, <1>7 DEF ReadToml
  <2>2. CASE FailReload
    BY <2>2, ReloadMoves DEF Accounted, FailReload
  <2>3. CASE ~FailReload
    <3>1. pc'["reload"] = AfterToml[f]
      BY <1>7, <2>3, ReloadMoves DEF ReadToml
    <3>2. f \in StepsBefore(g) => f = g \/ AfterToml[f] \in StepsBefore(g)
      BY DEF StepsBefore, AfterToml, TomlFiles
    <3>3. f # "idle"
      BY DEF TomlFiles
    <3>4. fs'["toml_write"] \in Nat
      BY <1>2 DEF TypeOK
    <3>5. /\ draft'.config = [draft.config EXCEPT ![f] = disk[f]]
          /\ draft.config \in [TomlFiles -> Content]
      BY <1>7, <2>3, ReadDraft DEF ReadToml, TypeOK, RuntimeState
    <3> QED
      BY <1>1, <1>2, <2>1, <3>1, <3>2, <3>3, <3>4, <3>5 DEF Accounted
  <2> QED
    BY <2>2, <2>3
<1>8. CASE EnsureLanguage
  <2>1. CASE FailReload
    BY <2>1, ReloadMoves DEF Accounted, FailReload
  <2>2. CASE ~FailReload
    <3>1. pc["reload"] = "ensure" /\ pc'["reload"] = "lang" /\ UNCHANGED <<events, draft>>
      BY <1>8, <2>2, ReloadMoves DEF EnsureLanguage
    <3>2. fs'["toml_write"] > 0 \/ UNCHANGED <<disk, fs>>
      BY <1>3, <1>8, <2>2 DEF EnsureLanguage
    <3>3. "ensure" \in StepsBefore(g) => "lang" \in StepsBefore(g)
      BY DEF StepsBefore
    <3> QED
      BY <1>1, <3>1, <3>2, <3>3 DEF Accounted
  <2> QED
    BY <2>1, <2>2
<1>9. ASSUME disk' = disk, events' = events, fs'["toml_write"] >= fs["toml_write"],
             draft'.config = draft.config, pc["reload"] \in {"ip2region", "security", "apply"}
      PROVE  Accounted'
  <2>1. pc["reload"] \notin StepsBefore(g) \cup {"idle"}
    BY <1>9 DEF StepsBefore
  <2>2. fs'["toml_write"] \in Nat
    BY <1>2 DEF TypeOK
  <2> QED
    BY <1>1, <1>2, <1>9, <2>1, <2>2 DEF Accounted
<1>10. ASSUME NEW k \in Kinds, NEW got \in SUBSET DataFiles, LoadData(k, got)
       PROVE  Accounted'
  <2>1. fs'["toml_write"] >= fs["toml_write"]
    BY <1>2, <1>3, <1>10 DEF LoadData
  <2>2. draft'.config = draft.config
    BY <1>10 DEF LoadData, TypeOK, RuntimeState
  <2> QED
    BY <1>9, <1>10, <2>1, <2>2 DEF LoadData, Kinds
<1>11. CASE ApplyLog
  <2>1. fs'["toml_write"] >= fs["toml_write"]
    BY <1>2, <1>3, <1>11 DEF ApplyLog
  <2>2. Accounted'
    BY <1>9, <1>11, <2>1 DEF ApplyLog
  <2> QED
    BY <2>2 DEF Accounted
<1>12. CASE PublishReload
  <2>1. fs'["toml_write"] >= fs["toml_write"] /\ fs'["toml_write"] \in Nat
    BY <1>2, <1>3, <1>12 DEF PublishReload, TypeOK
  <2>2. pc["reload"] \notin StepsBefore(g) \cup {"idle"}
    BY <1>12 DEF PublishReload, StepsBefore
  <2> QED
    BY <1>1, <1>2, <1>12, <2>1, <2>2 DEF Accounted, PublishReload
<1>13. ASSUME NEW k \in Kinds, Update(k)
       PROVE  Accounted'
  <2>1. fs'["toml_write"] >= fs["toml_write"] /\ fs'["toml_write"] \in Nat
    BY <1>2, <1>3, <1>13 DEF Update, SkipUpdate, StartUpdate, Download, PublishUpdate, OpenFails, files, TypeOK
  <2> QED
    BY <1>1, <1>2, <1>13, <2>1, UpdateMoves DEF Accounted
<1>14. CASE StartWatching \/ NotifyError \/ RecvError \/ UNCHANGED vars
  BY <1>1, <1>14 DEF Accounted, StartWatching, NotifyError, RecvError, vars, files, task
<1> QED
  BY <1>4, <1>5, <1>6, <1>7, <1>8, <1>10, <1>11, <1>12, <1>13, <1>14 DEF Accounted, Next, Reload

\* A reload that ends without publishing what it has read has failed.
LEMMA ServedStep ==
  ASSUME TypeOK, OneActivity, NothingStale, ServedUnlessFailed, [Next]_vars
  PROVE  ServedUnlessFailed'
<1>1. CASE UNCHANGED <<pc, state, draft, outcome>>
  BY <1>1 DEF ServedUnlessFailed
<1>2. CASE RecvConfigChanged \/ DrainEvents
  BY <1>2 DEF RecvConfigChanged, DrainEvents, GoTo, ServedUnlessFailed, TypeOK, Activities
<1>3. CASE FailReload
  BY <1>3 DEF FailReload, ServedUnlessFailed
<1>4. ASSUME NEW step \in ReloadSteps, Proceed(step)
      PROVE  ServedUnlessFailed'
  BY <1>4, ReloadMoves DEF ServedUnlessFailed, ReloadSteps
<1>5. ASSUME NEW f \in TomlFiles, ReadToml(f)
      PROVE  ServedUnlessFailed'
  <2>1. AfterToml[f] \in ReloadSteps
    BY DEF AfterToml, ReloadSteps, TomlFiles
  <2> QED
    BY <1>3, <1>4, <1>5, <2>1 DEF ReadToml
<1>6. CASE EnsureLanguage \/ ApplyLog
  BY <1>3, <1>4, <1>6 DEF EnsureLanguage, ApplyLog, ReloadSteps
<1>7. ASSUME NEW k \in Kinds, NEW got \in SUBSET DataFiles, LoadData(k, got)
      PROVE  ServedUnlessFailed'
  BY <1>3, <1>4, <1>7 DEF LoadData, ReloadSteps
<1>8. CASE PublishReload
  BY <1>8 DEF PublishReload, ServedUnlessFailed
<1>9. ASSUME NEW k \in Kinds, Update(k)
      PROVE  ServedUnlessFailed'
  BY <1>9, UpdateMoves, UpdatePublishes DEF ServedUnlessFailed
<1> QED
  BY <1>1, <1>2, <1>5, <1>6, <1>7, <1>8, <1>9, QuietSteps DEF Next, Reload

-----------------------------------------------------------------------------
(* The theorems.                                                           *)

LEMMA InitInv == Init => IInv
<1> SUFFICES ASSUME Init PROVE IInv
  OBVIOUS
<1>1. TypeOK
  BY InitType
<1>2. \A f \in TomlFiles : disk[f].body \notin Invalid
  BY DEF Init
<1>3. \A d \in DataFiles : data[d] \in Nat /\ data[d] <= remote[d]
  BY DEF Init
<1>4. OneActivity /\ PublishedLoads /\ DraftLoads /\ LogApplied /\ NothingStale /\ ConfigAges
  BY <1>1, <1>2 DEF Init, TypeOK, OneActivity, PublishedLoads, DraftLoads, Loads, LogApplied, NothingStale,
    ConfigAges, NewerContent, Activities, Kinds, RuntimeState, Content
<1>5. DataAges /\ EditsAccounted /\ ServedUnlessFailed
  BY <1>1, <1>3 DEF Init, TypeOK, DataAges, EditsAccounted, ServedUnlessFailed, Activities, RuntimeState
<1> QED
  BY <1>1, <1>4, <1>5 DEF IInv

LEMMA TypeStep ==
  ASSUME TypeOK, NothingStale, [Next]_vars
  PROVE  TypeOK'
<1>1. CASE Environment
  BY <1>1, EnvironmentType
<1>2. CASE StartWatching \/ NotifyError \/ RecvError \/ \E class \in FsClasses : Notify(class)
  BY <1>2, QueueType
<1>3. CASE Reload
  BY <1>3, ReloadType
<1>4. ASSUME NEW k \in Kinds, Update(k)
      PROVE  TypeOK'
  BY <1>4, UpdateType DEF NothingStale
<1>5. CASE UNCHANGED vars
  BY <1>5 DEF vars, files, store, task, TypeOK
<1> QED
  BY <1>1, <1>2, <1>3, <1>4, <1>5 DEF Next

LEMMA InvStep == IInv /\ [Next]_vars => IInv'
BY TypeStep, OneActivityStep, NothingStaleStep, LoadsStep, LogStep, ConfigAgesStep, DataAgesStep, EditsStep,
   ServedStep
DEF IInv

\* The inductive invariant holds: one activity at a time, each on the published
\* state, contents and data of increasing age, and no edit unaccounted for.
THEOREM Invariance == Spec => []IInv
BY InitInv, InvStep, PTL DEF Spec

\* The variables stay in their types.
THEOREM TypeCorrect == Spec => []TypeOK
BY Invariance, PTL DEF IInv

\* Whatever is published parsed and validated (reload_config's early returns).
THEOREM OnlyLoadedIsPublished == Spec => []PublishedLoads
BY Invariance, PTL DEF IInv

\* No failing reload leaves the log in the file of a configuration that was not
\* taken over.
THEOREM LogFollows == Spec => []LogFollowsState
<1>1. IInv => LogFollowsState
  BY DEF IInv, LogApplied, LogFollowsState
<1> QED
  BY <1>1, Invariance, PTL

\* With nothing pending and no failure, what is served is what is on disk,
\* provided that no file is edited before the watcher exists.
THEOREM EveryEditIsRead == ~EditsAtStart => (Spec => []NoLostEdit)
<1> SUFFICES ASSUME ~EditsAtStart PROVE Spec => []NoLostEdit
  OBVIOUS
<1>1. IInv => NoLostEdit
  <2> SUFFICES ASSUME IInv, SelectReady("reload"), fs["toml_write"] = 0, events = 0,
                      outcome = "published"
               PROVE  state.config = disk
    BY DEF NoLostEdit
  <2>1. pc["reload"] = "idle"
    BY DEF SelectReady, Activities
  <2>2. /\ \A f \in TomlFiles : disk[f] = draft.config[f]
        /\ draft.config = state.config
    BY <2>1 DEF IInv, EditsAccounted, StepsBefore, ServedUnlessFailed
  <2>3. disk \in [TomlFiles -> Content] /\ draft.config \in [TomlFiles -> Content]
    BY DEF IInv, TypeOK, RuntimeState
  <2> QED
    BY <2>2, <2>3
<1> QED
  BY <1>1, Invariance, PTL

\* Reloads and updates implement HotState: no publication undoes another one.
THEOREM PublicationsOnlyGoForward == Spec => NoLostUpdate
<1>1. Init => Hot!Init
  BY DEF Init, Hot!Init, Hot!Loads
<1>2. IInv /\ IInv' /\ [Next]_vars => [Hot!Next]_state
  <2> SUFFICES ASSUME IInv, IInv', [Next]_vars, state' # state
               PROVE  Hot!Next
    OBVIOUS
  <2>1. CASE PublishReload
    <3>1. state' = draft /\ Hot!Loads(draft.config)
      BY <2>1 DEF PublishReload, IInv, PublishedLoads, Loads, Hot!Loads
    <3>2. Hot!NewerConfig(state.config, draft.config)
      BY DEF IInv, ConfigAges, NewerContent, Hot!NewerConfig
    <3>3. Hot!NewerData(state.data, draft.data)
      BY <2>1 DEF PublishReload, IInv, TypeOK, RuntimeState, DataAges, Hot!NewerData
    <3> QED
      BY <3>1, <3>2, <3>3 DEF Hot!Next, Hot!Reload
  <2>2. ASSUME NEW k \in Kinds, Update(k)
        PROVE  Hot!Refresh(k)
    <3>1. /\ state'.config = state.config
          /\ state'.data = [d \in DataFiles |-> IF d \in DataOf(k) THEN data[d] ELSE state.data[d]]
      BY <2>2, UpdatePublishes DEF IInv
    <3>2. \A d \in DataFiles : state.data[d] <= data[d] /\ state.data[d] \in Nat
      BY DEF IInv, DataAges, TypeOK, RuntimeState
    <3> QED
      BY <3>1, <3>2 DEF Hot!Refresh, Hot!NewerData, DataOf
  <2>3. CASE Reload /\ ~PublishReload
    BY <2>3, ReloadMoves DEF Reload, RecvConfigChanged, DrainEvents, ReadToml, EnsureLanguage, LoadData,
      ApplyLog, FailReload, IInv
  <2> QED
    BY <2>1, <2>2, <2>3, QuietSteps DEF Next, Hot!Next
<1> QED
  BY <1>1, <1>2, Invariance, PTL DEF Spec, NoLostUpdate, Hot!Spec

\* Only an update that the served configuration asks for replaces a data file.
THEOREM FilesAreKept == Spec => KeepsFiles
<1> DEFINE Kept == \A d \in DataFiles :
      data[d] > 0 /\ data'[d] # data[d] => KindOf[d] \in AutoUpdate[ConfigBody(state)]
<1>1. IInv /\ [Next]_vars => [Kept]_vars
  <2> SUFFICES ASSUME IInv, [Next]_vars, NEW d \in DataFiles, data[d] > 0, data'[d] # data[d]
               PROVE  KindOf[d] \in AutoUpdate[ConfigBody(state)]
    OBVIOUS
  <2>1. ASSUME NEW k \in Kinds, NEW got \in SUBSET DataFiles, LoadData(k, got)
        PROVE  FALSE
    BY <2>1 DEF LoadData, Fetched, AbsentData, IInv, TypeOK
  <2>2. CASE Reload
    BY <2>1, <2>2 DEF Reload, RecvConfigChanged, DrainEvents, ReadToml, EnsureLanguage, ApplyLog,
      PublishReload, store
  <2>3. ASSUME NEW k \in Kinds, Update(k)
        PROVE  KindOf[d] \in AutoUpdate[ConfigBody(state)]
    <3>1. \E got \in SUBSET (Maintained \cap DataOf(k)) : Download(k, got)
      BY <2>3 DEF Update, SkipUpdate, StartUpdate, PublishUpdate, OpenFails, store
    <3>2. KindOf[d] = k
      BY <3>1 DEF Download, Changed, DataOf, IInv, TypeOK
    <3>3. pc[k] # "idle"
      BY <3>1 DEF Download
    <3> QED
      BY <3>2, <3>3 DEF IInv, NothingStale
  <2> QED
    BY <2>2, <2>3, QuietSteps DEF Next
<1> QED
  BY <1>1, Invariance, PTL DEF Spec, KeepsFiles
=============================================================================
