------------------------------- MODULE Watcher -------------------------------
(***************************************************************************)
(* The hot-reload task of runtime.rs: file-system events reach a queue,    *)
(* the select! loop of ConfigWatcher::run serves one activity at a time -  *)
(* a debounced configuration reload or the periodic update of one kind of  *)
(* data file - and each activity ends by publishing a new RuntimeState or  *)
(* by keeping the old one.                                                 *)
(*                                                                         *)
(* A TOML file's content is its generation (counting the writes to it) and *)
(* a body; what matters of a body are the constants below.  A data file is *)
(* the number of the upstream release it holds, 0 when there is no file.   *)
(***************************************************************************)
EXTENDS Naturals

CONSTANTS
    Bodies,        \* contents a TOML file can have
    Invalid,       \* bodies that do not parse or validate (a missing file too)
    Missing,       \* the body of a file that does not exist
    Default,       \* the built-in language template
    CutShort,      \* what a write of the template that breaks off may leave
    AutoUpdate,    \* [Bodies -> SUBSET Kinds]: kinds with auto_update on
    AutoDownload,  \* [Bodies -> SUBSET Kinds]: kinds with auto_download on
    Overlong,      \* [Bodies -> SUBSET Kinds]: update_interval_secs beyond Instant's range
    LogPath,       \* [Bodies -> path]: logging.file
    DataFiles,     \* the ip2region databases and the security lists
    KindOf,        \* [DataFiles -> Kinds]
    Order,         \* [DataFiles -> Nat]: position in the code's list of files
    Maintained,    \* files kept up to date automatically (block_* is on)
    StartBodies,   \* [TomlFiles -> SUBSET Bodies]: what main may have loaded
    MaxGen,        \* bound: writes to each TOML file
    MaxRelease,    \* bound: upstream releases of each data file
    MaxFaults,     \* bound: damaged data files, failing reads, opens and writes
    MaxErrors,     \* bound: watcher errors waiting in the queue
    NoState,       \* no RuntimeState is captured
    EditsAtStart   \* may a file be edited before the watcher exists?

TomlFiles == {"config", "vhost", "lang"}
Kinds == {"ip2region", "security"}
Activities == Kinds \cup {"reload"}
FsClasses == {"toml_write", "toml_access", "other_write"}
Content == [gen : Nat, body : Bodies]
RuntimeState == [config : [TomlFiles -> Content], data : [DataFiles -> Nat]]
ReloadSteps == {"debounce", "config", "vhost", "ensure", "lang", "ip2region",
                "security", "apply", "publish"}
UpdateSteps == {"download", "open"}

ASSUME BodiesAssumption ==
    /\ Invalid \subseteq Bodies
    /\ Missing \in Invalid
    /\ Default \in Bodies \ Invalid
    /\ CutShort \subseteq Bodies
    /\ AutoUpdate \in [Bodies -> SUBSET Kinds]
    /\ AutoDownload \in [Bodies -> SUBSET Kinds]
    /\ Overlong \in [Bodies -> SUBSET Kinds]
    /\ DOMAIN LogPath = Bodies

ASSUME DataAssumption ==
    /\ KindOf \in [DataFiles -> Kinds]
    /\ Order \in [DataFiles -> Nat]
    /\ Maintained \subseteq DataFiles

\* main only gets here with files that load.
ASSUME StartAssumption == StartBodies \in [TomlFiles -> SUBSET (Bodies \ Invalid)]

ASSUME BoundsAssumption ==
    /\ MaxGen \in [TomlFiles -> Nat]
    /\ MaxRelease \in Nat
    /\ MaxFaults \in Nat
    /\ MaxErrors \in Nat
    /\ EditsAtStart \in BOOLEAN

VARIABLES
    disk,     \* the TOML files
    fs,       \* file-system events not yet delivered to the callback, per class
    events,   \* ConfigChanged messages in the watcher's channel
    errors,   \* Error messages in the watcher's channel
    data,     \* the data files
    corrupt,  \* data files whose content does not parse
    remote,   \* the releases the download servers hold
    state,    \* the published RuntimeState
    logfile,  \* where the LogController writes
    phase,    \* "starting" | "watching" | "panicked"
    pc,       \* the point each activity of the select! loop has reached
    current,  \* the state a running update of each kind has captured
    draft,    \* the RuntimeState the last reload has read so far
    outcome,  \* history: how the last reload ended, "published" | "failed"
    timer,    \* "armed" | "fired", per kind
    faults    \* faults injected so far

files == <<disk, fs, events, errors>>
store == <<data, corrupt, remote, faults>>
task == <<phase, pc, current, draft, outcome, timer>>
vars == <<files, store, task, state, logfile>>

DataOf(k) == {d \in DataFiles : KindOf[d] = k}
ConfigBody(st) == st.config["config"].body
Loads(config) == \A f \in TomlFiles : config[f].body \notin Invalid

\* The file-system events of the classes in cs have happened.  Writes to TOML
\* files are counted; the others are filtered, so one pending stands for many.
Touch(cs) ==
    [c \in FsClasses |-> IF c \notin cs THEN fs[c]
                         ELSE IF c = "toml_write" THEN fs[c] + 1 ELSE 1]

TypeOK ==
    /\ disk \in [TomlFiles -> Content]
    /\ fs \in [FsClasses -> Nat]
    /\ events \in Nat
    /\ errors \in Nat
    /\ data \in [DataFiles -> Nat]
    /\ corrupt \in SUBSET DataFiles
    /\ remote \in [DataFiles -> Nat]
    /\ faults \in Nat
    /\ state \in RuntimeState
    /\ phase \in {"starting", "watching", "panicked"}
    /\ pc \in [Activities -> {"idle"} \cup ReloadSteps \cup UpdateSteps]
    /\ current \in [Kinds -> RuntimeState \cup {NoState}]
    /\ draft \in RuntimeState
    /\ outcome \in {"published", "failed"}
    /\ timer \in [Kinds -> {"armed", "fired"}]

\* main has loaded the files and publishes the result; the event queue is
\* empty and the timers are armed when the loop starts.
Init ==
    /\ disk \in [TomlFiles -> [gen : {0}, body : Bodies \ Invalid]]
    /\ \A f \in TomlFiles : disk[f].body \in StartBodies[f]
    /\ data \in [DataFiles -> {0, 1}]
    /\ remote = [d \in DataFiles |-> 1]
    /\ corrupt = {}
    /\ fs = [c \in FsClasses |-> 0]
    /\ events = 0
    /\ errors = 0
    /\ faults = 0
    /\ state = [config |-> disk, data |-> data]
    /\ draft = state
    /\ outcome = "published"
    /\ current = [k \in Kinds |-> NoState]
    /\ logfile = LogPath[ConfigBody(state)]
    /\ phase = "starting"
    /\ pc = [a \in Activities |-> "idle"]
    /\ timer = [k \in Kinds |-> "armed"]

-----------------------------------------------------------------------------
(* The environment: editors, the operating system, the download servers.   *)

\* Somebody writes a TOML file.  Before the watcher exists no event results.
Edit(f, b) ==
    /\ disk[f].gen < MaxGen[f]
    /\ EditsAtStart \/ phase # "starting"
    /\ disk' = [disk EXCEPT ![f] = [gen |-> @.gen + 1, body |-> b]]
    /\ fs' = IF phase = "starting" THEN fs ELSE Touch({"toml_write"})
    /\ UNCHANGED <<events, errors, store, task, state, logfile>>

Release(d) ==
    /\ remote[d] < MaxRelease
    /\ remote' = [remote EXCEPT ![d] = @ + 1]
    /\ UNCHANGED <<files, data, corrupt, faults, task, state, logfile>>

\* A data file is damaged, or half saved by an editor.
Damage(d) ==
    /\ faults < MaxFaults
    /\ data[d] > 0
    /\ d \notin corrupt
    /\ corrupt' = corrupt \cup {d}
    /\ faults' = faults + 1
    /\ UNCHANGED <<files, data, remote, task, state, logfile>>

Repair(d) ==
    /\ d \in corrupt
    /\ corrupt' = corrupt \ {d}
    /\ UNCHANGED <<files, data, remote, faults, task, state, logfile>>

TimerFires(k) ==
    /\ timer[k] = "armed"
    /\ phase = "watching"
    /\ k \notin AutoUpdate[ConfigBody(state)] \cap Overlong[ConfigBody(state)]
    /\ timer' = [timer EXCEPT ![k] = "fired"]
    /\ UNCHANGED <<files, store, phase, pc, current, draft, outcome, state, logfile>>

Environment ==
    \/ \E f \in TomlFiles, b \in Bodies : Edit(f, b)
    \/ \E d \in DataFiles : Release(d) \/ Damage(d) \/ Repair(d)
    \/ \E k \in Kinds : TimerFires(k)

-----------------------------------------------------------------------------
(* ConfigWatcher::new and the callback of the notify watcher.              *)

StartWatching ==
    /\ phase = "starting"
    /\ phase' = "watching"
    /\ UNCHANGED <<files, store, pc, current, draft, outcome, timer, state, logfile>>

\* Mutant: reads count as changes.
AccessIsConfigEvent(class) == class \in {"toml_write", "toml_access"}

\* is_config_event: a creation, modification or removal of a TOML file.
IsConfigEvent(class) == class = "toml_write"

\* Mutant: events that arrive during a reload are taken for its own.
NotifyWhileIdle(class) ==
    /\ phase = "watching"
    /\ fs[class] > 0
    /\ fs' = [fs EXCEPT ![class] = @ - 1]
    /\ events' = IF IsConfigEvent(class) /\ pc["reload"] = "idle" THEN events + 1 ELSE events
    /\ UNCHANGED <<disk, errors, store, task, state, logfile>>

Notify(class) ==
    /\ phase = "watching"
    /\ fs[class] > 0
    /\ fs' = [fs EXCEPT ![class] = @ - 1]
    /\ events' = IF IsConfigEvent(class) THEN events + 1 ELSE events
    /\ UNCHANGED <<disk, errors, store, task, state, logfile>>

NotifyError ==
    /\ phase = "watching"
    /\ errors < MaxErrors
    /\ errors' = errors + 1
    /\ UNCHANGED <<disk, fs, events, store, task, state, logfile>>

-----------------------------------------------------------------------------
(* The select! loop of ConfigWatcher::run.                                 *)

\* Mutant: every branch spawns a task of its own instead of being awaited.
OwnTaskReady(a) == phase = "watching" /\ pc[a] = "idle"

\* A branch of the select! can only be taken when the loop is back at it.
SelectReady(a) == phase = "watching" /\ \A b \in Activities : pc[b] = "idle"

\* reset(Instant::now() + delay) of the timers of ks, with the delays of st; an
\* Instant that cannot be represented panics.
Rearm(ks, st) ==
    /\ timer' = [k \in Kinds |-> IF k \in ks THEN "armed" ELSE timer[k]]
    /\ phase' = IF ks \cap AutoUpdate[ConfigBody(st)] \cap Overlong[ConfigBody(st)] = {}
                THEN phase ELSE "panicked"

GoTo(a, step) == pc' = [pc EXCEPT ![a] = step]

\* Mutant: the queue is not looked at.
RecvAlways ==
    /\ SelectReady("reload")
    /\ errors' = errors - 1
    /\ UNCHANGED <<disk, fs, events, store, task, state, logfile>>

RecvError ==
    /\ SelectReady("reload")
    /\ errors > 0
    /\ errors' = errors - 1
    /\ UNCHANGED <<disk, fs, events, store, task, state, logfile>>

RecvConfigChanged ==
    /\ SelectReady("reload")
    /\ events > 0
    /\ events' = events - 1
    /\ GoTo("reload", "debounce")
    /\ UNCHANGED <<disk, fs, errors, store, phase, current, draft, outcome, timer, state, logfile>>

\* The debounce sleep ends; drain_events empties the queue.
DrainEvents ==
    /\ pc["reload"] = "debounce"
    /\ events' = 0
    /\ errors' = 0
    /\ GoTo("reload", "config")
    /\ UNCHANGED <<disk, fs, store, phase, current, draft, outcome, timer, state, logfile>>

-----------------------------------------------------------------------------
(* reload_config.                                                          *)

\* The reload is over; st is what is published then.
EndReload(st) == GoTo("reload", "idle") /\ Rearm(Kinds, st)

\* An early return of reload_config: the failure is logged.
FailReload == EndReload(state) /\ outcome' = "failed" /\ UNCHANGED state

Proceed(step) == GoTo("reload", step) /\ UNCHANGED <<phase, timer, outcome, state>>

AfterToml == [config |-> "vhost", vhost |-> "ensure", lang |-> "ip2region"]

\* Mutant: a language file that does not load is taken over all the same.
ReadTomlLeniently(f) ==
    /\ pc["reload"] = f
    /\ \/ /\ disk[f].body \notin Invalid \/ f = "lang"
          /\ draft' = [draft EXCEPT !.config[f] = disk[f]]
          /\ Proceed(AfterToml[f])
          /\ fs' = Touch({"toml_access"})
          /\ UNCHANGED faults
       \/ /\ \/ disk[f].body \in Invalid /\ UNCHANGED faults
             \/ faults < MaxFaults /\ faults' = faults + 1
          /\ FailReload
          /\ fs' = Touch({"toml_access", "other_write"})
          /\ UNCHANGED draft
    /\ UNCHANGED <<disk, events, errors, data, corrupt, remote, current, logfile>>

\* config.toml, then the vhost file, then the language file: each is read and
\* checked, the first that cannot be read or does not load ends the reload.
ReadToml(f) ==
    /\ pc["reload"] = f
    /\ \/ /\ disk[f].body \notin Invalid
          /\ draft' = [draft EXCEPT !.config[f] = disk[f]]
          /\ Proceed(AfterToml[f])
          /\ fs' = Touch({"toml_access"})
          /\ UNCHANGED faults
       \/ /\ \/ disk[f].body \in Invalid /\ UNCHANGED faults
             \/ faults < MaxFaults /\ faults' = faults + 1
          /\ FailReload
          /\ fs' = Touch({"toml_access", "other_write"})
          /\ UNCHANGED draft
    /\ UNCHANGED <<disk, events, errors, data, corrupt, remote, current, logfile>>

WriteLanguage(b) == disk' = [disk EXCEPT !["lang"] = [gen |-> @.gen + 1, body |-> b]]

\* language::ensure_file: a missing language file is written from the template,
\* which is itself a change of a TOML file.  A directory or file that cannot be
\* created ends the reload, and so does a write that breaks off: the part that
\* was written stays.
EnsureLanguage ==
    /\ pc["reload"] = "ensure"
    /\ \/ /\ disk["lang"].body # Missing
          /\ Proceed("lang")
          /\ UNCHANGED <<disk, fs, faults>>
       \/ /\ disk["lang"].body = Missing
          /\ WriteLanguage(Default)
          /\ Proceed("lang")
          /\ fs' = Touch({"toml_write"})
          /\ UNCHANGED faults
       \/ /\ faults < MaxFaults
          /\ faults' = faults + 1
          /\ FailReload
          /\ \/ UNCHANGED disk /\ fs' = Touch({"other_write"})
             \/ /\ disk["lang"].body = Missing
                /\ \E b \in CutShort : WriteLanguage(b)
                /\ fs' = Touch({"toml_write", "other_write"})
    /\ UNCHANGED <<events, errors, data, corrupt, remote, current, draft, logfile>>

\* Mutant: auto_download fetches files that exist, too.
AllData(k) == DataOf(k) \cap Maintained

AbsentData(k) == {d \in DataOf(k) \cap Maintained : data[d] = 0}

\* What download_missing may have fetched: nothing when it is switched off; the
\* ip2region downloads stop at the first failure, those of the lists go on.
Fetched(k, got) ==
    /\ got \subseteq AbsentData(k)
    /\ got # {} => k \in AutoDownload[ConfigBody(draft)]
    /\ k = "ip2region" =>
         \A d \in got, e \in AbsentData(k) : Order[e] < Order[d] => e \in got

\* download_missing, then Ip2Region::open or Security::open.
LoadData(k, got) ==
    /\ pc["reload"] = k
    /\ Fetched(k, got)
    /\ data' = [d \in DataFiles |-> IF d \in got THEN remote[d] ELSE data[d]]
    /\ \/ /\ DataOf(k) \cap corrupt = {}
          /\ draft' = [draft EXCEPT !.data =
                 [d \in DataFiles |-> IF d \in DataOf(k) THEN data'[d] ELSE @[d]]]
          /\ Proceed(IF k = "ip2region" THEN "security" ELSE "apply")
          /\ fs' = IF got = {} THEN fs ELSE Touch({"other_write"})
          /\ UNCHANGED faults
       \/ /\ \/ DataOf(k) \cap corrupt # {} /\ UNCHANGED faults
             \/ faults < MaxFaults /\ faults' = faults + 1
          /\ FailReload
          /\ fs' = Touch({"other_write"})
          /\ UNCHANGED draft
    /\ UNCHANGED <<disk, events, errors, corrupt, remote, current, logfile>>

\* Mutant: the published logging section is not applied.
ForgetLog ==
    /\ pc["reload"] = "apply"
    /\ Proceed("publish")
    /\ UNCHANGED <<files, store, current, draft, logfile>>

\* LogController::apply opens the new log file before it lets go of the old one.
ApplyLog ==
    /\ pc["reload"] = "apply"
    /\ \/ /\ logfile' = LogPath[ConfigBody(draft)]
          /\ Proceed("publish")
          /\ UNCHANGED <<fs, faults>>
       \/ /\ faults < MaxFaults
          /\ faults' = faults + 1
          /\ FailReload
          /\ fs' = Touch({"other_write"})
          /\ UNCHANGED logfile
    /\ UNCHANGED <<disk, events, errors, data, corrupt, remote, current, draft>>

\* send_replace, and the message saying so.
PublishReload ==
    /\ pc["reload"] = "publish"
    /\ state' = draft
    /\ EndReload(draft)
    /\ outcome' = "published"
    /\ fs' = Touch({"other_write"})
    /\ UNCHANGED <<disk, events, errors, store, current, draft, logfile>>

-----------------------------------------------------------------------------
(* update_ip2region and update_security.                                   *)

EndUpdate(k, st) == GoTo(k, "idle") /\ Rearm({k}, st) /\ current' = [current EXCEPT ![k] = NoState]

\* The timer fires while updates of this kind are off.
SkipUpdate(k) ==
    /\ SelectReady(k)
    /\ timer[k] = "fired"
    /\ k \notin AutoUpdate[ConfigBody(state)]
    /\ EndUpdate(k, state)
    /\ UNCHANGED <<files, store, draft, outcome, state, logfile>>

StartUpdate(k) ==
    /\ SelectReady(k)
    /\ timer[k] = "fired"
    /\ k \in AutoUpdate[ConfigBody(state)]
    /\ current' = [current EXCEPT ![k] = state]
    /\ GoTo(k, "download")
    /\ UNCHANGED <<files, store, phase, draft, outcome, timer, state, logfile>>

\* The fetched files that differ from the ones they would replace.
Changed(got) == {d \in got : remote[d] # data[d] \/ d \in corrupt}

\* update: every maintained file of the kind is fetched or fails (got holds the
\* fetched ones), and replaced when it differs.  The files are independent of
\* each other, so one step stands for all of them.
Download(k, got) ==
    /\ pc[k] = "download"
    /\ data' = [d \in DataFiles |-> IF d \in Changed(got) THEN remote[d] ELSE data[d]]
    /\ corrupt' = corrupt \ Changed(got)
    /\ fs' = Touch({"other_write"})
    /\ IF Changed(got) = {}
       THEN EndUpdate(k, state)
       ELSE GoTo(k, "open") /\ UNCHANGED <<phase, timer, current>>
    /\ UNCHANGED <<disk, events, errors, remote, faults, draft, outcome, state, logfile>>

\* Mutant: the new data is opened, and the captured one handed on.
WithCapturedData(st, k) == st

\* with_ip2region, with_security.
WithData(st, k) ==
    [st EXCEPT !.data = [d \in DataFiles |-> IF d \in DataOf(k) THEN data[d] ELSE @[d]]]

\* All files of the kind are opened again and published with the rest of the
\* captured state.
PublishUpdate(k) ==
    /\ pc[k] = "open"
    /\ DataOf(k) \cap corrupt = {}
    /\ state' = WithData(current[k], k)
    /\ EndUpdate(k, state')
    /\ fs' = Touch({"other_write"})
    /\ UNCHANGED <<disk, events, errors, store, draft, outcome, logfile>>

\* Opening fails: the old state stays, the replaced files stay as well.
OpenFails(k) ==
    /\ pc[k] = "open"
    /\ \/ DataOf(k) \cap corrupt # {} /\ UNCHANGED faults
       \/ faults < MaxFaults /\ faults' = faults + 1
    /\ EndUpdate(k, state)
    /\ fs' = Touch({"other_write"})
    /\ UNCHANGED <<disk, events, errors, data, corrupt, remote, draft, outcome, state, logfile>>

-----------------------------------------------------------------------------
Reload ==
    \/ RecvConfigChanged
    \/ DrainEvents
    \/ \E f \in TomlFiles : ReadToml(f)
    \/ EnsureLanguage
    \/ \E k \in Kinds, got \in SUBSET DataFiles : LoadData(k, got)
    \/ ApplyLog
    \/ PublishReload

Update(k) ==
    \/ SkipUpdate(k)
    \/ StartUpdate(k)
    \/ \E got \in SUBSET (Maintained \cap DataOf(k)) : Download(k, got)
    \/ PublishUpdate(k)
    \/ OpenFails(k)

Next ==
    \/ Environment
    \/ StartWatching
    \/ \E class \in FsClasses : Notify(class)
    \/ NotifyError
    \/ RecvError
    \/ Reload
    \/ \E k \in Kinds : Update(k)

Spec == Init /\ [][Next]_vars

\* The task is scheduled, file-system events are delivered, and a running
\* activity comes to its end: the debounce is a sleep and every download is cut
\* off by its timeout.  select! takes a branch that is ready again and again
\* (it polls them in random order), and a download that is tried again and
\* again succeeds at some time.
Fairness ==
    /\ WF_vars(StartWatching)
    /\ \A class \in FsClasses : WF_vars(Notify(class))
    /\ \A k \in Kinds : WF_vars(TimerFires(k))
    /\ SF_vars(RecvConfigChanged)
    /\ WF_vars(Reload)
    /\ \A k \in Kinds :
        /\ WF_vars(Update(k))
        /\ SF_vars(SkipUpdate(k) \/ StartUpdate(k))
        /\ SF_vars(Download(k, Maintained \cap DataOf(k)))

FairSpec == Spec /\ Fairness

-----------------------------------------------------------------------------
(* Properties.                                                             *)

\* Only a configuration whose every file parsed and validated is published
\* (reload_config's early returns keep the previous state).
PublishedLoads == Loads(state.config)

\* The log goes where the published configuration says, except between apply
\* and send_replace: no failing reload leaves the log switched to the file of a
\* configuration that was not taken over.
LogFollowsState == pc["reload"] # "publish" => logfile = LogPath[ConfigBody(state)]

\* The queue and the events still to come stand for every edit that the last
\* reload has not read: with nothing pending, and the last reload not failed,
\* what is served is what is on disk (drain_events runs before the files are
\* read, never after).
NoLostEdit ==
    /\ SelectReady("reload")
    /\ fs["toml_write"] = 0
    /\ events = 0
    /\ outcome = "published"
    => state.config = disk

\* Publications of reloads and of updates never undo each other.
Hot == INSTANCE HotState WITH state <- state, TomlFiles <- TomlFiles, DataFiles <- DataFiles,
                                Kinds <- Kinds, KindOf <- KindOf, Invalid <- Invalid
NoLostUpdate == Hot!Spec

\* A data file that exists is only replaced by an update that the configuration
\* being served asks for; auto_download, and a configuration that is only being
\* read, leave it alone.
KeepsFiles ==
    [][\A d \in DataFiles :
         data[d] > 0 /\ data'[d] # data[d] => KindOf[d] \in AutoUpdate[ConfigBody(state)]]_vars

\* Once the editors stop, a disk content that loads is the one served, for ever,
\* unless the last reload could not read, write or open one of its files.
Converges == <>[](Loads(disk) => state.config = disk \/ (outcome = "failed" /\ faults > 0))

\* A reload reads TOML files, writes the log, may create the language file and
\* download data next to the configuration: it does not trigger itself for ever.
Quiesces == <>[](pc["reload"] = "idle")

\* With auto_update on, the data served catches up with the upstream releases.
Refreshed == \A d \in Maintained : KindOf[d] \in AutoUpdate[ConfigBody(state)] => state.data[d] = remote[d]
Refreshes == <>[]Refreshed

\* The same where no file was damaged and no open failed: downloads may fail.
CatchesUp == <>[](Refreshed \/ faults > 0)

\* A published configuration leaves the watcher task alive.
Survives == phase # "panicked"
-----------------------------------------------------------------------------
(* The inductive invariant behind these properties.                        *)

\* One activity runs at a time, each through its own steps.
OneActivity ==
    /\ pc["reload"] \in {"idle"} \cup ReloadSteps
    /\ \A k \in Kinds : pc[k] \in {"idle"} \cup UpdateSteps
    /\ \A a, b \in Activities : pc[a] # "idle" /\ pc[b] # "idle" => a = b

\* The steps of a reload at which the file f is still to be read.
StepsBefore(f) ==
    {"debounce", "config"} \cup (IF f = "config" THEN {} ELSE {"vhost"})
                           \cup (IF f = "lang" THEN {"ensure", "lang"} ELSE {})

\* What the reload has read so far would load.
DraftLoads ==
    \A f \in TomlFiles :
        pc["reload"] \notin {"idle"} \cup StepsBefore(f) => draft.config[f].body \notin Invalid

LogApplied ==
    logfile = LogPath[ConfigBody(IF pc["reload"] = "publish" THEN draft ELSE state)]

\* A running update holds the state that is published, which asks for it.
NothingStale ==
    \A k \in Kinds : pc[k] # "idle" => /\ current[k] = state
                                       /\ k \in AutoUpdate[ConfigBody(state)]

NewerContent(old, new) == new.gen >= old.gen /\ (new.gen = old.gen => new = old)

\* Published, read and stored contents of each TOML file are of increasing age.
ConfigAges ==
    \A f \in TomlFiles : /\ NewerContent(state.config[f], draft.config[f])
                         /\ NewerContent(draft.config[f], disk[f])

\* The published data is not newer than the files, and not newer than the data
\* a reload has opened so far.
DataAges ==
    \A d \in DataFiles :
        /\ state.data[d] <= data[d]
        /\ draft.data[d] <= data[d]
        /\ data[d] <= remote[d]
        /\ \/ pc["reload"] \in {"apply", "publish"}
           \/ pc["reload"] = "security" /\ KindOf[d] = "ip2region"
           => state.data[d] <= draft.data[d]

\* A content that was not read is still to be read, or announced, or the reload
\* that should have read it failed before.
EditsAccounted ==
    ~EditsAtStart =>
        \A f \in TomlFiles :
            \/ disk[f] = draft.config[f]
            \/ fs["toml_write"] > 0
            \/ events > 0
            \/ pc["reload"] \in StepsBefore(f)
            \/ pc["reload"] = "idle" /\ outcome = "failed"

\* What the last reload has read is served, unless it ended early.
ServedUnlessFailed == pc["reload"] = "idle" /\ outcome = "published" => draft.config = state.config

IInv ==
    /\ TypeOK
    /\ OneActivity
    /\ PublishedLoads
    /\ DraftLoads
    /\ LogApplied
    /\ NothingStale
    /\ ConfigAges
    /\ DataAges
    /\ EditsAccounted
    /\ ServedUnlessFailed
=============================================================================
