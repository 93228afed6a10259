------------------------------ MODULE Gateway ------------------------------
(***************************************************************************)
(* The program from its start to its end (main.rs): a first run generates  *)
(* the missing files and exits; any other run loads the files, spawns the  *)
(* watcher task, serves (module Server) and takes the watcher down again.  *)
(* It may be killed at every point and started again on the files it left. *)
(*                                                                         *)
(* What the watcher task does with the files while the server runs is the  *)
(* subject of module Watcher; here it publishes, and it may end.           *)
(***************************************************************************)
EXTENDS Server, Sequences

CONSTANTS
    OwnNeeds,     \* the vhost files an operator's config.toml names
    OwnLocale,    \* the language file it selects
    OwnFiles,     \* the files the operator puts in place, or removes
    MaxStarts,    \* bound: starts of the program
    MaxKills,     \* bound: kills, power failures
    MaxMeddling   \* bound: files put in place or removed by the operator

\* The files of a first run, in the order in which they are generated.
Generated == <<"config", "zh-CN", "en-US", "alpha", "beta">>
Files == {Generated[i] : i \in DOMAIN Generated}

\* "part" is a prefix of a template, "own" what the operator put there.
Contents == {"absent", "empty", "part", "whole", "own"}

ASSUME GatewayAssumption ==
    /\ OwnNeeds \subseteq {"alpha", "beta"}
    /\ OwnLocale \in {"zh-CN", "en-US"}
    /\ OwnFiles \subseteq Files
    /\ Configs # {}
    /\ MaxStarts \in Nat
    /\ MaxKills \in Nat
    /\ MaxMeddling \in Nat

VARIABLES
    file,      \* content of each file
    main,      \* the point main has reached, "off" when the program is not running
    item,      \* the position in Generated
    locale,    \* the language file that the loaded configuration selects
    outcome,   \* how the last run ended
    found,     \* history: files of others - there at the start, or touched since
    starts, kills, meddling  \* counters, for the bounds

counters == <<starts, kills, meddling>>
gatewayVars == <<file, main, item, locale, outcome, found, counters>>

GatewayTypeOK ==
    /\ TypeOK
    /\ file \in [Files -> Contents]
    /\ main \in {"off", "create", "write", "load", "log", "language", "fill", "open",
                 "watch", "borrow", "bind", "serve"}
    /\ item \in DOMAIN Generated
    /\ locale \in Files
    /\ outcome \in {"none", "generated", "failed", "ended", "killed"}
    /\ found \subseteq Files
    /\ starts \in Nat /\ kills \in Nat /\ meddling \in Nat

GatewayInit ==
    /\ unseen = FALSE /\ sender = "closed"
    /\ phase = "stopped" /\ pc = "select"
    /\ listener = NoAddress /\ target = NoAddress
    /\ offer = NoConn /\ limit = 0 /\ loaded = 0
    /\ active = 0 /\ conn = [c \in Conns |-> "none"]
    /\ published = CHOOSE config \in Configs : TRUE
    /\ bound = published.bind
    /\ count = 0 /\ faults = 0
    /\ file = [f \in Files |-> "absent"]
    /\ main = "off"
    /\ item = 1
    /\ locale = OwnLocale
    /\ outcome = "none"
    /\ found = {}
    /\ starts = 0 /\ kills = 0 /\ meddling = 0

At(point) == main = point
GoOn(point) == main' = point /\ UNCHANGED <<outcome, found, counters>>
Fault == faults < MaxFaults /\ faults' = faults + 1

\* The process is gone, with its tasks, its sockets and its channel.
Exit(how) ==
    /\ main' = "off"
    /\ outcome' = how
    /\ unseen' = FALSE /\ sender' = "closed"
    /\ phase' = "stopped" /\ pc' = "select"
    /\ listener' = NoAddress /\ target' = NoAddress
    /\ offer' = NoConn /\ limit' = 0 /\ loaded' = 0
    /\ active' = 0 /\ conn' = [c \in Conns |-> "none"]
    /\ item' = 1
    /\ UNCHANGED <<published, count, bound, locale, found, starts, meddling>>

\* What is written goes to the file that was created, wherever its name leads now.
Fill(f, content) == file' = [file EXCEPT ![f] = IF @ = "empty" THEN content ELSE @]

\* The write that is under way, if any, gets done in part or not at all.
CutShort ==
    \E content \in {"empty", "part"} :
        IF At("write") THEN Fill(Generated[item], content)
        ELSE IF At("fill") THEN Fill(locale, content)
        ELSE UNCHANGED file

-----------------------------------------------------------------------------
(* The operator.                                                           *)

Meddle(f, content) ==
    /\ ~At("serve")
    /\ meddling < MaxMeddling
    /\ meddling' = meddling + 1
    /\ file[f] # content
    /\ file' = [file EXCEPT ![f] = content]
    /\ found' = found \cup {f}
    /\ UNCHANGED <<vars, main, item, locale, outcome, starts, kills>>

\* A kill, in the middle of a write as well.  While the server runs, it leaves
\* the files as Shutdown does.
Kill ==
    /\ main \notin {"off", "serve"}
    /\ kills < MaxKills
    /\ kills' = kills + 1
    /\ CutShort
    /\ Exit("killed")
    /\ UNCHANGED faults

-----------------------------------------------------------------------------
(* The first run.                                                          *)

\* main looks for the configuration file.
Begin ==
    /\ At("off")
    /\ outcome # "ended"
    /\ starts < MaxStarts
    /\ starts' = starts + 1
    /\ main' = IF file["config"] = "absent" THEN "create" ELSE "load"
    /\ item' = 1
    /\ outcome' = "none"
    /\ found' = {f \in Files : file[f] # "absent"}
    /\ UNCHANGED <<vars, file, locale, kills, meddling>>

\* Behind the current file comes the next one, or the end of the first run.
Onward ==
    IF item < Len(Generated)
    THEN item' = item + 1 /\ GoOn("create") /\ UNCHANGED <<vars, locale>>
    ELSE Exit("generated") /\ UNCHANGED <<faults, kills>>

\* Mutant: the file is created by truncating whatever is there.
CreateOver ==
    /\ At("create")
    /\ file' = [file EXCEPT ![Generated[item]] = "empty"]
    /\ GoOn("write")
    /\ UNCHANGED <<vars, item, locale>>

\* create_new succeeds only where there is no file.
CreateNew ==
    /\ At("create")
    /\ file[Generated[item]] = "absent"
    /\ file' = [file EXCEPT ![Generated[item]] = "empty"]
    /\ GoOn("write")
    /\ UNCHANGED <<vars, item, locale>>

\* A file that exists by now is left alone; when it is config.toml, this is not
\* a first run any more.
FileExists ==
    /\ At("create")
    /\ file[Generated[item]] # "absent"
    /\ IF Generated[item] = "config"
       THEN GoOn("load") /\ UNCHANGED <<vars, item, locale>>
       ELSE Onward
    /\ UNCHANGED file

\* Mutant: the vhost files are not written.
WriteFirstFiles ==
    /\ At("write")
    /\ IF item < 4 THEN Fill(Generated[item], "whole") ELSE UNCHANGED file
    /\ Onward

WriteAll ==
    /\ At("write")
    /\ Fill(Generated[item], "whole")
    /\ Onward

\* Mutant: the error of a write is ignored.
GenerateOnward ==
    /\ Fault
    /\ main \in {"create", "write"}
    /\ CutShort
    /\ IF item < Len(Generated)
       THEN item' = item + 1 /\ GoOn("create")
            /\ UNCHANGED <<channel, listener, bound, target, limiter, phase, pc, active, conn, locale>>
       ELSE Exit("generated") /\ UNCHANGED kills

\* Creating or writing fails: main returns the error and removes nothing.
GenerateFails ==
    /\ Fault
    /\ main \in {"create", "write"}
    /\ CutShort
    /\ Exit("failed")
    /\ UNCHANGED kills

-----------------------------------------------------------------------------
(* Loading.                                                                *)

\* An empty document lacks [server] or the targets; a prefix may lack nothing.
MayLoad(f) == file[f] \in {"part", "whole", "own"}
MustLoad(f) == file[f] \in {"whole", "own"}

\* The template names both vhosts, a prefix of it may end before the second.
Needed == IF file["config"] = "own" THEN {OwnNeeds}
          ELSE IF file["config"] = "part" THEN {{"alpha"}, {"alpha", "beta"}}
          ELSE {{"alpha", "beta"}}
Locale == IF file["config"] = "own" THEN OwnLocale ELSE "zh-CN"

\* AppConfig::load, with the vhost files: any bind address and limit.
LoadConfig(config) ==
    /\ At("load")
    /\ \E needed \in Needed : \A f \in {"config"} \cup needed : MayLoad(f)
    /\ published' = config
    /\ locale' = Locale
    /\ GoOn("log")
    /\ UNCHANGED <<unseen, sender, count, binding, limiter, phase, pc, active, conn, file, item>>

LoadFails ==
    /\ At("load")
    /\ \E needed \in Needed : \E f \in {"config"} \cup needed : ~MustLoad(f)
    /\ Exit("failed")
    /\ UNCHANGED <<file, kills, faults>>

\* LogController::initialize, RuntimeState::load behind the language file, and
\* ConfigWatcher::new; the channel is there before the watcher.
Step(from, to) ==
    /\ At(from)
    /\ GoOn(to)
    /\ UNCHANGED <<vars, file, item, locale>>

InitializeLog == Step("log", "language")

CreateLanguage ==
    /\ At("language")
    /\ file[locale] = "absent"
    /\ file' = [file EXCEPT ![locale] = "empty"]
    /\ GoOn("fill")
    /\ UNCHANGED <<vars, item, locale>>

LanguageExists == file[locale] # "absent" /\ Step("language", "open")

FillLanguage ==
    /\ At("fill")
    /\ Fill(locale, "whole")
    /\ GoOn("open")
    /\ UNCHANGED <<vars, item, locale>>

\* An empty language file loads: the built-in messages fill it up.
OpenData == file[locale] # "absent" /\ Step("open", "watch")

SpawnWatcher ==
    /\ At("watch")
    /\ sender' = "open"
    /\ GoOn("borrow")
    /\ UNCHANGED <<published, unseen, count, binding, limiter, phase, pc, active, conn>>
    /\ UNCHANGED <<file, item, locale>>

\* Any of these steps fails; a half-written language file may not parse.
StartFails ==
    /\ \/ main \in {"log", "language", "fill", "open", "watch"} /\ Fault /\ CutShort
       \/ At("open") /\ file[locale] \in {"absent", "part"} /\ UNCHANGED <<faults, file>>
    /\ Exit("failed")
    /\ UNCHANGED kills

-----------------------------------------------------------------------------
(* Serving.                                                                *)

\* server::run takes the state published by now.
Borrow ==
    /\ At("borrow")
    /\ target' = published.bind
    /\ GoOn("bind")
    /\ UNCHANGED <<channel, listener, bound, faults, limiter, phase, pc, active, conn>>
    /\ UNCHANGED <<file, item, locale>>

Bind ==
    /\ At("bind")
    /\ listener' = target
    /\ bound' = target
    /\ target' = NoAddress
    /\ phase' = "running"
    /\ main' = "serve"
    /\ found' = {}
    /\ UNCHANGED <<channel, faults, limiter, pc, active, conn>>
    /\ UNCHANGED <<file, item, locale, outcome, counters>>

BindFails ==
    /\ At("bind")
    /\ Fault
    /\ Exit("failed")
    /\ UNCHANGED <<file, kills>>

\* server::run has returned: the watcher task is aborted and awaited, and the
\* runtime drops the tasks of the connections.
Shutdown ==
    /\ At("serve")
    /\ phase = "stopped"
    /\ Exit("ended")
    /\ UNCHANGED <<file, kills, faults>>

ServerStep ==
    /\ \/ \E config \in Configs : Publish(config)
       \/ WatcherEnds
       \/ \E c \in Conns : Connect(c) \/ Accept(c) \/ End(c)
       \/ Load \/ Refuse \/ Admit \/ Retry
       \/ Changed \/ Rebind \/ RebindFails
       \/ Stop \/ ChannelClosed
    /\ UNCHANGED gatewayVars

-----------------------------------------------------------------------------
Main ==
    \/ CreateNew \/ FileExists \/ WriteAll \/ GenerateFails
    \/ \E config \in Configs : LoadConfig(config)
    \/ LoadFails
    \/ InitializeLog \/ CreateLanguage \/ LanguageExists \/ FillLanguage \/ OpenData
    \/ SpawnWatcher \/ StartFails
    \/ Borrow \/ Bind \/ BindFails
    \/ Shutdown

GatewayNext ==
    \/ \E f \in OwnFiles, content \in {"absent", "own"} : Meddle(f, content)
    \/ Kill
    \/ Begin
    \/ Main
    \/ ServerStep

allVars == <<vars, gatewayVars>>

\* Main is scheduled, and so are the tasks of Server; nobody has to start the
\* program.
GatewaySpec ==
    /\ GatewayInit
    /\ [][GatewayNext]_allVars
    /\ WF_allVars(Main)
    /\ WF_allVars((Load \/ Refuse \/ Admit \/ Retry) /\ UNCHANGED gatewayVars)
    /\ SF_allVars(Changed /\ UNCHANGED gatewayVars)
    /\ WF_allVars((Rebind \/ RebindFails) /\ UNCHANGED gatewayVars)
    /\ SF_allVars(ChannelClosed /\ UNCHANGED gatewayVars)
    /\ \A c \in Conns : WF_allVars(End(c) /\ UNCHANGED gatewayVars)

-----------------------------------------------------------------------------
(* Properties.                                                             *)

\* README: the program does not overwrite existing files.  No step of it changes
\* or removes a file that is there - one of the operator's, one that was
\* generated, the remains of an earlier run, or one put in place between the
\* check for config.toml and the writing - but for the file that it has just
\* created itself and is writing.
KeepsExistingFiles ==
    [][meddling' = meddling =>
           \A f \in Files : file[f] # "absent" /\ file'[f] # file[f] =>
               /\ file[f] = "empty"
               /\ \/ main = "write" /\ f = Generated[item]
                  \/ main = "fill" /\ f = locale]_allVars

\* A first run that ends well has left every file whole that was not somebody
\* else's, or the remains of an earlier run.
FirstRunIsWhole == outcome = "generated" => \A f \in Files \ found : file[f] = "whole"

\* Undisturbed, the program starts on the files it has generated: it fails only
\* after a fault, a kill, or with files of the operator's.
FailsForAReason ==
    outcome = "failed" => faults > 0 \/ kills > 0 \/ meddling > 0

\* When the watcher task dies, the server does not go on with a configuration
\* that nobody updates: the program ends.
EndsWithWatcher == (phase = "running" /\ sender = "closed") ~> (main = "off")

-----------------------------------------------------------------------------
(* The inductive invariant behind these properties.                        *)

\* The server runs in main's last step only, with an address to begin with;
\* the end of a run is told between runs.
MainState ==
    /\ main # "serve" => phase = "stopped"
    /\ main = "bind" => target \in Addresses
    /\ main # "off" => outcome = "none"

\* The content a file has when only the first run has touched it.
Made(i) ==
    IF i < item THEN "whole" ELSE IF i = item /\ main = "write" THEN "empty" ELSE "absent"

\* A first run has made the files before its position, and none behind it.
FirstRunMakes ==
    main \in {"create", "write"} =>
        \A i \in DOMAIN Generated : Generated[i] \notin found => file[Generated[i]] = Made(i)

\* As long as nothing has happened to it, the program has all its files or none.
Undisturbed ==
    faults = 0 /\ kills = 0 /\ meddling = 0 =>
        \/ main \in {"create", "write"} /\ found = {}
        \/ main = "off" /\ outcome # "failed" /\ \A f \in Files : file[f] = "absent"
        \/ outcome # "failed" /\ \A f \in Files : file[f] = "whole"

GatewayInv ==
    /\ GatewayTypeOK /\ IInv /\ MainState
    /\ FirstRunMakes /\ FirstRunIsWhole
    /\ Undisturbed
=============================================================================
