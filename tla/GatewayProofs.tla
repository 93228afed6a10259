--------------------------- MODULE GatewayProofs ---------------------------
(***************************************************************************)
(* The invariants of Server, alone and carried over to the whole program,  *)
(* and what a first run makes of the files, for every number of            *)
(* connections, starts, kills, faults and moves of the operator.           *)
(***************************************************************************)
EXTENDS Gateway, FiniteSetTheorems, TLAPS

-----------------------------------------------------------------------------
(* Counting the open connections.                                          *)

LEMMA OpenFinite == IsFiniteSet(Open) /\ Cardinality(Open) \in Nat
BY ServerAssumption, FS_Subset, FS_CardinalityType DEF Open

LEMMA OneMoreOpen ==
  ASSUME NEW c \in Conns, c \notin Open, Open' = Open \cup {c}
  PROVE  Cardinality(Open') = Cardinality(Open) + 1
BY OpenFinite, FS_AddElement

LEMMA OneLessOpen ==
  ASSUME NEW c \in Open, Open' = Open \ {c}
  PROVE  Cardinality(Open') = Cardinality(Open) - 1 /\ Cardinality(Open) > 0
<1>1. Cardinality(Open \ {c}) = Cardinality(Open) - 1
  BY OpenFinite, FS_RemoveElement
<1>2. IsFiniteSet(Open \ {c}) /\ Cardinality(Open \ {c}) \in Nat
  BY OpenFinite, FS_Subset, FS_CardinalityType
<1> QED
  BY <1>1, <1>2, OpenFinite

-----------------------------------------------------------------------------
(* The inductive invariant of the server.                                  *)

LEMMA InitInv == Init => IInv
<1> SUFFICES ASSUME Init PROVE IInv
  OBVIOUS
<1>1. TypeOK /\ LoopState /\ KeepsListening
  BY ServerAssumption DEF Init, TypeOK, LoopState, KeepsListening, Configs
<1>2. Open = {}
  BY DEF Init, Open
<1> QED
  BY <1>1, <1>2, FS_EmptySet DEF IInv, ActiveCounts, Init

LEMMA InvStep == IInv /\ [Next]_vars => IInv'
<1> SUFFICES ASSUME IInv, [Next]_vars PROVE IInv'
  OBVIOUS
<1> USE ServerAssumption
<1>1. TypeOK /\ LoopState /\ active = Cardinality(Open) /\ KeepsListening
  BY DEF IInv, ActiveCounts
<1> SUFFICES TypeOK' /\ LoopState' /\ active' = Cardinality(Open') /\ KeepsListening'
  BY DEF IInv, ActiveCounts
<1>2. ASSUME NEW config \in Configs, Publish(config)
      PROVE  TypeOK' /\ LoopState' /\ active' = Cardinality(Open') /\ KeepsListening'
  BY <1>1, <1>2 DEF Publish, TypeOK, LoopState, Open, KeepsListening, binding, limiter
<1>3. CASE WatcherEnds
  BY <1>1, <1>3 DEF WatcherEnds, TypeOK, LoopState, Open, KeepsListening, binding, limiter
<1>4. ASSUME NEW c \in Conns, Connect(c) \/ Accept(c)
      PROVE  TypeOK' /\ LoopState' /\ active' = Cardinality(Open') /\ KeepsListening'
  <2>1. conn' \in [Conns -> {"none", "queued", "accepted", "open"}] /\ Open' = Open
    BY <1>1, <1>4 DEF Connect, Accept, TypeOK, Open
  <2>2. CASE Connect(c)
    BY <1>1, <2>1, <2>2 DEF Connect, TypeOK, LoopState, KeepsListening, channel, binding, limiter
  <2>3. CASE Accept(c)
    BY <1>1, <2>1, <2>3 DEF Accept, AtSelect, TypeOK, LoopState, KeepsListening, channel, binding, Configs
  <2> QED
    BY <1>4, <2>2, <2>3
<1>5. CASE Load \/ Retry
  BY <1>1, <1>5 DEF Load, Retry, TypeOK, LoopState, Open, KeepsListening, channel, binding
<1>6. CASE Refuse
  <2>1. Open' = Open /\ conn' \in [Conns -> {"none", "queued", "accepted", "open"}]
    BY <1>1, <1>6 DEF Refuse, Settle, TypeOK, LoopState, Open
  <2> QED
    BY <1>1, <1>6, <2>1 DEF Refuse, Settle, TypeOK, LoopState, KeepsListening, channel, binding
<1>7. CASE Admit
  <2>1. offer \in Conns /\ offer \notin Open /\ Open' = Open \cup {offer}
    BY <1>1, <1>7 DEF Admit, Settle, TypeOK, LoopState, Open
  <2>2. active' = Cardinality(Open')
    BY <1>1, <1>7, <2>1, OneMoreOpen DEF Admit
  <2>3. active' \in Nat
    BY <1>1, <1>7 DEF Admit, TypeOK
  <2> QED
    BY <1>1, <1>7, <2>2, <2>3 DEF Admit, Settle, TypeOK, LoopState, KeepsListening, channel, binding
<1>8. ASSUME NEW c \in Conns, End(c)
      PROVE  TypeOK' /\ LoopState' /\ active' = Cardinality(Open') /\ KeepsListening'
  <2>1. c \in Open /\ Open' = Open \ {c}
    BY <1>1, <1>8 DEF End, TypeOK, Open
  <2>2. Cardinality(Open') = Cardinality(Open) - 1 /\ Cardinality(Open) > 0
    BY <2>1, OneLessOpen
  <2>3. active' = active - 1 /\ active \in Nat
    BY <1>1, <1>8 DEF End, TypeOK
  <2>4. active' = Cardinality(Open') /\ active' \in Nat
    BY <1>1, <2>2, <2>3
  <2> QED
    BY <1>1, <1>8, <2>4 DEF End, TypeOK, LoopState, KeepsListening, channel, binding, limiter
<1>9. CASE Changed
  BY <1>1, <1>9 DEF Changed, AtSelect, TypeOK, LoopState, Open, KeepsListening, limiter, Configs
<1>10. CASE Rebind
  <2>1. Open' = Open /\ conn' \in [Conns -> {"none", "queued", "accepted", "open"}]
    BY <1>1, <1>10 DEF Rebind, TypeOK, Open
  <2> QED
    BY <1>1, <1>10, <2>1 DEF Rebind, TypeOK, LoopState, KeepsListening, channel, limiter
<1>11. CASE RebindFails
  BY <1>1, <1>11 DEF RebindFails, TypeOK, LoopState, Open, KeepsListening, channel, limiter
<1>12. CASE Stop \/ ChannelClosed
  <2>1. Return
    BY <1>12 DEF Stop, ChannelClosed
  <2>2. Open' = Open /\ conn' \in [Conns -> {"none", "queued", "accepted", "open"}]
    BY <1>1, <2>1 DEF Return, TypeOK, Open
  <2> QED
    BY <1>1, <2>1, <2>2 DEF Return, AtSelect, TypeOK, LoopState, KeepsListening, channel, limiter
<1>13. CASE UNCHANGED vars
  BY <1>1, <1>13 DEF vars, TypeOK, LoopState, Open, KeepsListening, channel, binding, limiter
<1> QED
  BY <1>2, <1>3, <1>4, <1>5, <1>6, <1>7, <1>8, <1>9, <1>10, <1>11, <1>12, <1>13 DEF Next

-----------------------------------------------------------------------------
(* The theorems of the server.                                             *)

\* The inductive invariant of the server holds, whoever connects or publishes.
THEOREM Invariance == Spec => []IInv
BY InitInv, InvStep, PTL DEF Spec

\* The counter of the limiter counts the permits that are held.
THEOREM PermitsAreCounted == Spec => []ActiveCounts
BY Invariance, PTL DEF IInv

\* While it runs, the server listens where it believes it does.
THEOREM ListenerIsKept == Spec => []KeepsListening
BY Invariance, PTL DEF IInv

\* No connection is admitted at or above the limit of its snapshot.
THEOREM LimitIsRespected == Spec => WithinLimit
<1> DEFINE Respected == \A c \in Conns :
      conn[c] # "open" /\ conn'[c] = "open" => Cardinality(Open) < limit
<1>1. IInv /\ [Next]_vars => [Respected]_vars
  <2> SUFFICES ASSUME IInv, [Next]_vars, NEW c \in Conns, conn[c] # "open", conn'[c] = "open"
               PROVE  Cardinality(Open) < limit
    OBVIOUS
  <2>1. conn \in [Conns -> {"none", "queued", "accepted", "open"}]
    BY DEF IInv, TypeOK
  <2>2. Admit
    BY <2>1 DEF Next, Publish, WatcherEnds, Connect, Accept, End, Load, Refuse, Retry, Settle, Changed, Rebind,
      RebindFails, Stop, ChannelClosed, Return, vars
  <2> QED
    BY <2>2 DEF Admit, IInv, ActiveCounts
<1> QED
  BY <1>1, Invariance, PTL DEF Spec, WithinLimit

-----------------------------------------------------------------------------
(* The server's invariant in the whole program.                            *)

\* What main does before and after serving: the listener is not there, the
\* loop stands at its beginning and nobody is connected.
Quiet ==
    /\ phase' = "stopped" /\ pc' = "select"
    /\ active' = 0 /\ conn' = [c \in Conns |-> "none"]

LEMMA QuietInv ==
  ASSUME IInv, Quiet, published' \in Configs, bound' = bound,
         unseen' \in BOOLEAN, sender' \in {"open", "closed"}, count' = count, faults' \in Nat,
         listener' = NoAddress, target' = NoAddress, offer' = NoConn, limit' = 0, loaded' = 0
  PROVE  IInv'
<1>1. TypeOK' /\ LoopState' /\ KeepsListening'
  BY DEF IInv, TypeOK, LoopState, KeepsListening, Quiet
<1>2. Open' = {}
  BY DEF Open, Quiet
<1> QED
  BY <1>1, <1>2, FS_EmptySet DEF IInv, ActiveCounts, Quiet

LEMMA StutterInv ==
  ASSUME IInv, UNCHANGED vars
  PROVE  IInv'
BY InvStep

LEMMA ExitInv ==
  ASSUME IInv, NEW how, Exit(how), faults' \in Nat
  PROVE  IInv'
<1>1. published' \in Configs
  BY DEF IInv, TypeOK, Exit
<1> QED
  BY <1>1, QuietInv DEF Exit, Quiet

\* Outside of serving, the steps change at most these variables of Server.
LEMMA StartInv ==
  ASSUME IInv, published' \in Configs, sender' \in {"open", "closed"},
         target' \in Addresses \cup {NoAddress}, pc' # "bind",
         UNCHANGED <<unseen, count, listener, bound, faults, limiter, phase, pc, active, conn>>
  PROVE  IInv'
<1>1. TypeOK' /\ LoopState' /\ KeepsListening'
  BY DEF IInv, TypeOK, LoopState, KeepsListening, limiter
<1>2. Open' = Open
  BY DEF Open
<1> QED
  BY <1>1, <1>2 DEF IInv, ActiveCounts

-----------------------------------------------------------------------------
LEMMA GeneratedFiles ==
  /\ Len(Generated) = 5 /\ DOMAIN Generated = 1 .. 5
  /\ \A i \in 1 .. 5 : Generated[i] \in Files
  /\ \A f \in Files : \E i \in 1 .. 5 : f = Generated[i]
  /\ \A i, j \in 1 .. 5 : Generated[i] = Generated[j] => i = j
  /\ "config" \in Files /\ "zh-CN" \in Files /\ "en-US" \in Files
  /\ Generated[1] = "config"
<1>1. DOMAIN Generated = 1 .. 5
  BY DEF Generated
<1>2. Generated[1] = "config" /\ Generated[2] = "zh-CN" /\ Generated[3] = "en-US"
      /\ Generated[4] = "alpha" /\ Generated[5] = "beta" /\ Len(Generated) = 5
  BY DEF Generated
<1>3. \A i, j \in 1 .. 5 : Generated[i] = Generated[j] => i = j
  BY <1>2
<1> HIDE DEF Generated
<1> QED
  BY <1>1, <1>2, <1>3 DEF Files

LEMMA GatewayInitInv == GatewayInit => GatewayInv
<1> SUFFICES ASSUME GatewayInit PROVE GatewayInv
  OBVIOUS
<1>1. published \in Configs
  BY GatewayAssumption DEF GatewayInit, GatewayAssumption
<1>2. published.bind \in Addresses
  BY <1>1 DEF Configs
<1>3. TypeOK /\ LoopState /\ KeepsListening
  BY <1>1, <1>2 DEF GatewayInit, TypeOK, LoopState, KeepsListening
<1>4. Open = {}
  BY DEF GatewayInit, Open
<1>5. IInv
  BY <1>3, <1>4, FS_EmptySet DEF IInv, ActiveCounts, GatewayInit
<1>6. OwnLocale \in Files
  BY GatewayAssumption, GeneratedFiles DEF GatewayAssumption
<1>7. GatewayTypeOK
  BY <1>3, <1>6, GeneratedFiles DEF GatewayInit, GatewayTypeOK, Contents
<1> QED
  BY <1>5, <1>7 DEF GatewayInv, GatewayInit, MainState, FirstRunMakes, FirstRunIsWhole, Undisturbed

-----------------------------------------------------------------------------
(* A step of the program keeps the server's invariant.                     *)

LEMMA ServerInvStep == GatewayInv /\ GatewayNext => IInv'
<1> SUFFICES ASSUME GatewayInv, GatewayNext PROVE IInv'
  OBVIOUS
<1>1. IInv /\ MainState /\ TypeOK
  BY DEF GatewayInv, IInv
<1>2. published \in Configs /\ published.bind \in Addresses /\ faults \in Nat
      /\ target \in Addresses \cup {NoAddress} /\ sender \in {"open", "closed"}
      /\ listener \in Addresses \cup {NoAddress}
  BY <1>1 DEF TypeOK, Configs
<1>3. ASSUME NEW f \in OwnFiles, NEW content \in {"absent", "own"}, Meddle(f, content)
      PROVE  IInv'
  BY <1>1, <1>3, StutterInv DEF Meddle
<1>4. CASE Kill
  BY <1>1, <1>2, <1>4, ExitInv DEF Kill
<1>5. CASE Begin
  BY <1>1, <1>5, StutterInv DEF Begin
<1>6. ASSUME Onward PROVE IInv'
  BY <1>1, <1>2, <1>6, StutterInv, ExitInv DEF Onward
<1>7. CASE CreateNew
  BY <1>1, <1>7, StutterInv DEF CreateNew
<1>8. CASE FileExists
  BY <1>1, <1>6, <1>8, StutterInv DEF FileExists
<1>9. CASE WriteAll
  BY <1>6, <1>9 DEF WriteAll
<1>10. CASE GenerateFails
  BY <1>1, <1>2, <1>10, ExitInv DEF GenerateFails, Fault
<1>11. ASSUME NEW config \in Configs, LoadConfig(config) PROVE IInv'
  <2>1. pc # "bind"
    BY <1>1, <1>11 DEF LoadConfig, At, MainState, IInv, LoopState
  <2> QED
    BY <1>1, <1>2, <1>11, <2>1, StartInv DEF LoadConfig, binding
<1>12. CASE LoadFails
  BY <1>1, <1>2, <1>12, ExitInv DEF LoadFails
<1>13. CASE InitializeLog \/ LanguageExists \/ OpenData
  BY <1>1, <1>13, StutterInv DEF InitializeLog, LanguageExists, OpenData, Step
<1>14. CASE CreateLanguage \/ FillLanguage
  BY <1>1, <1>14, StutterInv DEF CreateLanguage, FillLanguage
<1>15. CASE SpawnWatcher
  <2>1. pc # "bind"
    BY <1>1, <1>15 DEF SpawnWatcher, At, MainState, IInv, LoopState
  <2> QED
    BY <1>1, <1>2, <1>15, <2>1, StartInv DEF SpawnWatcher, binding
<1>16. CASE StartFails
  BY <1>1, <1>2, <1>16, ExitInv DEF StartFails, Fault
<1>17. CASE Borrow
  <2>1. pc # "bind"
    BY <1>1, <1>17 DEF Borrow, At, MainState, IInv, LoopState
  <2> QED
    BY <1>1, <1>2, <1>17, <2>1, StartInv DEF Borrow, channel
<1>18. CASE Bind
  <2>1. target \in Addresses /\ pc = "select"
    BY <1>1, <1>18 DEF Bind, At, MainState, IInv, LoopState
  <2>2. TypeOK' /\ LoopState' /\ KeepsListening'
    BY <1>1, <1>18, <2>1 DEF Bind, TypeOK, LoopState, KeepsListening, channel, limiter
  <2>3. Open' = Open
    BY <1>18 DEF Bind, Open
  <2> QED
    BY <1>1, <1>18, <2>2, <2>3 DEF Bind, IInv, ActiveCounts
<1>19. CASE BindFails
  BY <1>1, <1>2, <1>19, ExitInv DEF BindFails, Fault
<1>20. CASE Shutdown
  BY <1>1, <1>2, <1>20, ExitInv DEF Shutdown
<1>21. CASE ServerStep
  BY <1>1, <1>21, InvStep DEF ServerStep, Next
<1> QED
  BY <1>3, <1>4, <1>5, <1>7, <1>8, <1>9, <1>10, <1>11, <1>12, <1>13, <1>14, <1>15, <1>16,
     <1>17, <1>18, <1>19, <1>20, <1>21
  DEF GatewayNext, Main

-----------------------------------------------------------------------------
(* The variables of main.                                                  *)

MainTypes ==
    /\ file \in [Files -> Contents]
    /\ main \in {"off", "create", "write", "load", "log", "language", "fill", "open",
                 "watch", "borrow", "bind", "serve"}
    /\ item \in 1 .. 5
    /\ locale \in Files
    /\ outcome \in {"none", "generated", "failed", "ended", "killed"}
    /\ found \subseteq Files
    /\ starts \in Nat /\ kills \in Nat /\ meddling \in Nat

\* Filling a file changes it only if it is empty.
LEMMA Filling ==
  ASSUME MainTypes, NEW f \in Files, NEW content \in {"empty", "part", "whole"}, Fill(f, content)
  PROVE  /\ file' \in [Files -> Contents]
         /\ \A g \in Files : file'[g] = IF g = f /\ file[g] = "empty" THEN content ELSE file[g]
BY DEF MainTypes, Fill, Contents

LEMMA Cutting ==
  ASSUME MainTypes, CutShort
  PROVE  /\ file' \in [Files -> Contents]
         /\ \A g \in Files : file[g] # "empty" => file'[g] = file[g]
<1>1. Generated[item] \in Files /\ locale \in Files
  BY GeneratedFiles DEF MainTypes
<1>2. PICK content \in {"empty", "part"} :
        IF At("write") THEN Fill(Generated[item], content)
        ELSE IF At("fill") THEN Fill(locale, content)
        ELSE UNCHANGED file
  BY DEF CutShort
<1>3. CASE At("write")
  BY <1>1, <1>2, <1>3, Filling
<1>4. CASE ~At("write") /\ At("fill")
  BY <1>1, <1>2, <1>4, Filling
<1>5. CASE ~At("write") /\ ~At("fill")
  BY <1>2, <1>5 DEF MainTypes
<1> QED
  BY <1>3, <1>4, <1>5

\* What each step does to the files.
LEMMA FileStep ==
  ASSUME MainTypes, GatewayNext
  PROVE  \/ file' = file
         \/ \E f \in Files, content \in {"absent", "own"} : Meddle(f, content)
         \/ /\ CutShort
            /\ main' = "off" /\ outcome' # "generated"
            /\ faults' = faults + 1 \/ kills' = kills + 1
         \/ CreateNew \/ WriteAll \/ CreateLanguage \/ FillLanguage
<1>1. OwnFiles \subseteq Files
  BY GatewayAssumption DEF GatewayAssumption
<1>2. ASSUME NEW f \in OwnFiles, NEW content \in {"absent", "own"}, Meddle(f, content)
      PROVE  \E g \in Files, c \in {"absent", "own"} : Meddle(g, c)
  BY <1>1, <1>2
<1>3. CASE Kill \/ GenerateFails \/ StartFails
  BY <1>3 DEF Kill, GenerateFails, StartFails, Exit, Fault
<1>4. CASE Begin \/ FileExists \/ LoadFails \/ InitializeLog \/ LanguageExists \/ OpenData
           \/ SpawnWatcher \/ Borrow \/ Bind \/ BindFails \/ Shutdown \/ ServerStep
  BY <1>4 DEF Begin, FileExists, LoadFails, InitializeLog, LanguageExists, OpenData, Step,
    SpawnWatcher, Borrow, Bind, BindFails, Shutdown, ServerStep, gatewayVars
<1>5. ASSUME NEW config \in Configs, LoadConfig(config) PROVE file' = file
  BY <1>5 DEF LoadConfig
<1> QED
  BY <1>2, <1>3, <1>4, <1>5 DEF GatewayNext, Main

LEMMA FileTypes ==
  ASSUME MainTypes, GatewayNext
  PROVE  file' \in [Files -> Contents]
<1>0. file \in [Files -> Contents] /\ locale \in Files /\ Generated[item] \in Files
  BY GeneratedFiles DEF MainTypes
<1>1. ASSUME NEW f \in Files, NEW content \in {"absent", "own"}, Meddle(f, content)
      PROVE  file' \in [Files -> Contents]
  BY <1>0, <1>1 DEF Meddle, Contents
<1>2. CASE CutShort
  BY <1>2, Cutting
<1>3. CASE CreateNew \/ CreateLanguage
  BY <1>0, <1>3 DEF CreateNew, CreateLanguage, Contents
<1>4. CASE WriteAll \/ FillLanguage
  BY <1>0, <1>4, Filling DEF WriteAll, FillLanguage
<1> QED
  BY <1>0, <1>1, <1>2, <1>3, <1>4, FileStep

LEMMA MainTypesStep ==
  ASSUME MainTypes, GatewayNext
  PROVE  MainTypes'
<1>0. file' \in [Files -> Contents]
  BY FileTypes
<1> USE DEF MainTypes
<1>1. ASSUME NEW how \in {"generated", "failed", "ended", "killed"}, Exit(how), UNCHANGED kills \/ kills' = kills + 1
      PROVE  MainTypes'
  BY <1>0, <1>1 DEF Exit
<1>2. ASSUME NEW f \in OwnFiles, NEW content \in {"absent", "own"}, Meddle(f, content)
      PROVE  MainTypes'
  <2>1. f \in Files
    BY GatewayAssumption DEF GatewayAssumption
  <2> QED
    BY <1>0, <1>2, <2>1 DEF Meddle
<1>3. CASE Kill \/ GenerateFails \/ LoadFails \/ StartFails \/ BindFails \/ Shutdown
  BY <1>1, <1>3 DEF Kill, GenerateFails, LoadFails, StartFails, BindFails, Shutdown
<1>4. CASE Begin
  BY <1>0, <1>4 DEF Begin
<1>5. ASSUME Onward PROVE MainTypes'
  <2>1. CASE item < Len(Generated)
    BY <1>0, <1>5, <2>1, GeneratedFiles DEF Onward, GoOn, counters
  <2>2. CASE ~(item < Len(Generated))
    BY <1>1, <1>5, <2>2 DEF Onward
  <2> QED
    BY <2>1, <2>2
<1>6. CASE WriteAll
  BY <1>5, <1>6 DEF WriteAll
<1>7. CASE FileExists
  BY <1>0, <1>5, <1>7 DEF FileExists, GoOn, counters
<1>8. CASE CreateNew \/ CreateLanguage \/ FillLanguage
  BY <1>0, <1>8 DEF CreateNew, CreateLanguage, FillLanguage, GoOn, counters
<1>9. CASE InitializeLog \/ LanguageExists \/ OpenData
  BY <1>0, <1>9 DEF InitializeLog, LanguageExists, OpenData, Step, GoOn, counters
<1>10. ASSUME NEW config \in Configs, LoadConfig(config) PROVE MainTypes'
  <2>1. Locale \in Files
    BY GatewayAssumption, GeneratedFiles DEF GatewayAssumption, Locale
  <2> QED
    BY <1>0, <1>10, <2>1 DEF LoadConfig, GoOn, counters
<1>11. CASE SpawnWatcher \/ Borrow \/ Bind
  BY <1>0, <1>11 DEF SpawnWatcher, Borrow, Bind, GoOn, counters
<1>12. CASE ServerStep
  BY <1>12 DEF ServerStep, gatewayVars, counters
<1> QED
  BY <1>2, <1>3, <1>4, <1>6, <1>7, <1>8, <1>9, <1>10, <1>11, <1>12 DEF GatewayNext, Main

-----------------------------------------------------------------------------
(* What the program point says.                                            *)

LEMMA MainStateStep == GatewayInv /\ GatewayNext => MainState'
<1> SUFFICES ASSUME GatewayInv, GatewayNext PROVE MainState'
  OBVIOUS
<1>1. MainState /\ LoopState /\ TypeOK /\ published.bind \in Addresses
  BY DEF GatewayInv, IInv, TypeOK, Configs
<1> USE DEF MainState
<1>2. ASSUME NEW how, Exit(how) PROVE MainState'
  BY <1>2 DEF Exit
<1>3. ASSUME NEW f \in OwnFiles, NEW content \in {"absent", "own"}, Meddle(f, content)
      PROVE  MainState'
  BY <1>1, <1>3 DEF Meddle, vars, binding
<1>4. CASE Kill \/ GenerateFails \/ LoadFails \/ StartFails \/ BindFails \/ Shutdown
  BY <1>2, <1>4 DEF Kill, GenerateFails, LoadFails, StartFails, BindFails, Shutdown
<1>5. CASE Begin
  BY <1>1, <1>5 DEF Begin, At, vars, binding
<1>6. ASSUME Onward, main \in {"create", "write"} PROVE MainState'
  BY <1>1, <1>2, <1>6 DEF Onward, GoOn, vars
<1>7. CASE WriteAll \/ FileExists
  BY <1>1, <1>6, <1>7 DEF WriteAll, FileExists, At, GoOn, vars
<1>8. CASE CreateNew \/ CreateLanguage \/ FillLanguage
  BY <1>1, <1>8 DEF CreateNew, CreateLanguage, FillLanguage, At, GoOn, vars
<1>9. CASE InitializeLog \/ LanguageExists \/ OpenData
  BY <1>1, <1>9 DEF InitializeLog, LanguageExists, OpenData, Step, At, GoOn, vars
<1>10. ASSUME NEW config \in Configs, LoadConfig(config) PROVE MainState'
  BY <1>1, <1>10 DEF LoadConfig, At, GoOn
<1>11. CASE SpawnWatcher \/ Borrow \/ Bind
  BY <1>1, <1>11 DEF SpawnWatcher, Borrow, Bind, At, GoOn
<1>12. CASE ServerStep
  <2>1. main # "serve" => phase' = "stopped" /\ target' = target
    BY <1>1, <1>12 DEF ServerStep, LoopState, Publish, WatcherEnds, Connect, Accept, End, Load,
      Refuse, Admit, Retry, Settle, Changed, Rebind, RebindFails, Stop, ChannelClosed, Return,
      AtSelect, binding
  <2> QED
    BY <1>1, <1>12, <2>1 DEF ServerStep, gatewayVars
<1> QED
  BY <1>3, <1>4, <1>5, <1>7, <1>8, <1>9, <1>10, <1>11, <1>12 DEF GatewayNext, Main

-----------------------------------------------------------------------------
(* The files of a first run.                                               *)

LEMMA FirstRunStep == GatewayInv /\ GatewayNext => FirstRunMakes' /\ FirstRunIsWhole'
<1> SUFFICES ASSUME GatewayInv, GatewayNext PROVE FirstRunMakes' /\ FirstRunIsWhole'
  OBVIOUS
<1>1. MainTypes /\ MainState /\ FirstRunMakes /\ FirstRunIsWhole
  BY GeneratedFiles DEF GatewayInv, GatewayTypeOK, MainTypes
<1>2. MainTypes'
  BY <1>1, MainTypesStep
<1>3. DOMAIN Generated = 1 .. 5 /\ \A i \in 1 .. 5 : Generated[i] \in Files
  BY GeneratedFiles
<1> USE DEF FirstRunMakes, FirstRunIsWhole
<1>4. ASSUME NEW f \in OwnFiles, NEW content \in {"absent", "own"}, Meddle(f, content)
      PROVE  FirstRunMakes' /\ FirstRunIsWhole'
  <2>1. \A g \in Files \ found' : g \notin found /\ file'[g] = file[g]
    BY <1>1, <1>4 DEF Meddle, MainTypes
  <2>2. main' = main /\ item' = item /\ outcome' = outcome
    BY <1>4 DEF Meddle
  <2> QED
    BY <1>1, <1>3, <2>1, <2>2 DEF Made
<1>5. CASE outcome' \notin {"none", "generated"} /\ main' = "off"
  BY <1>5
<1>6. CASE Kill \/ GenerateFails \/ LoadFails \/ StartFails \/ BindFails \/ Shutdown
  BY <1>5, <1>6 DEF Kill, GenerateFails, LoadFails, StartFails, BindFails, Shutdown, Exit
<1>7. CASE Begin
  <2>1. \A f \in Files : f \notin found' => file'[f] = "absent"
    BY <1>7 DEF Begin
  <2>2. item' = 1 /\ main' # "write" /\ outcome' = "none"
    BY <1>7 DEF Begin
  <2>3. \A i \in 1 .. 5 : Made(i)' = "absent"
    BY <2>2 DEF Made
  <2> QED
    BY <1>3, <2>1, <2>2, <2>3
<1>8. CASE CreateNew
  <2>1. main = "create" /\ main' = "write" /\ outcome' = "none" /\ item' = item /\ found' = found
        /\ file' = [file EXCEPT ![Generated[item]] = "empty"]
    BY <1>1, <1>8 DEF CreateNew, At, GoOn, MainState
  <2>2. ASSUME NEW i \in 1 .. 5, Generated[i] \notin found'
        PROVE  file'[Generated[i]] = Made(i)'
    <3>1. i = item \/ Generated[i] # Generated[item]
      BY <1>1, GeneratedFiles DEF MainTypes
    <3>2. file[Generated[i]] = Made(i)
      BY <1>1, <1>3, <2>1, <2>2
    <3> QED
      BY <1>1, <1>3, <2>1, <3>1, <3>2 DEF Made, MainTypes
  <2> QED
    BY <1>3, <2>1, <2>2
<1>9. ASSUME Onward, main \in {"create", "write"},
             \A i \in 1 .. 5 : Generated[i] \notin found => file'[Generated[i]] =
                 (IF i <= item THEN "whole" ELSE "absent")
      PROVE  FirstRunMakes' /\ FirstRunIsWhole'
  <2>1. item \in 1 .. 5 /\ Len(Generated) = 5
    BY <1>1, GeneratedFiles DEF MainTypes
  <2>2. CASE item < 5
    <3>1. item' = item + 1 /\ main' = "create" /\ outcome' = "none" /\ found' = found
      BY <1>1, <1>9, <2>1, <2>2 DEF Onward, GoOn, MainState
    <3>2. \A i \in 1 .. 5 : Made(i)' = IF i <= item THEN "whole" ELSE "absent"
      BY <2>1, <3>1 DEF Made
    <3> QED
      BY <1>3, <1>9, <3>1, <3>2
  <2>3. CASE item = 5
    <3>1. main' = "off" /\ found' = found
      BY <1>9, <2>1, <2>3 DEF Onward, Exit
    <3>2. \A f \in Files \ found : file'[f] = "whole"
      BY <1>9, <2>3, GeneratedFiles
    <3> QED
      BY <3>1, <3>2
  <2> QED
    BY <2>1, <2>2, <2>3
<1>10. CASE FileExists
  <2>1. main = "create" /\ file' = file /\ file[Generated[item]] # "absent"
    BY <1>10 DEF FileExists, At
  <2>2. \A i \in 1 .. 5 : Generated[i] \notin found =>
          file'[Generated[i]] = IF i <= item THEN "whole" ELSE "absent"
    <3>1. Generated[item] \in found
      BY <1>1, <1>3, <2>1 DEF Made, MainTypes
    <3> QED
      BY <1>1, <1>3, <2>1, <3>1 DEF Made, MainTypes
  <2>3. CASE Generated[item] = "config"
    BY <1>1, <1>10, <2>1, <2>3 DEF FileExists, GoOn, MainState
  <2>4. CASE Generated[item] # "config"
    BY <1>9, <1>10, <2>1, <2>2, <2>4 DEF FileExists
  <2> QED
    BY <2>3, <2>4
<1>11. CASE WriteAll
  <2>1. main = "write" /\ Fill(Generated[item], "whole") /\ Onward
    BY <1>11 DEF WriteAll, At
  <2>2. ASSUME NEW i \in 1 .. 5, Generated[i] \notin found
        PROVE  file'[Generated[i]] = IF i <= item THEN "whole" ELSE "absent"
    <3>1. i = item \/ Generated[i] # Generated[item]
      BY <1>1, GeneratedFiles DEF MainTypes
    <3>2. file[Generated[i]] = Made(i)
      BY <1>1, <1>3, <2>1, <2>2
    <3>3. item \in 1 .. 5 /\ Generated[item] \in Files /\ Generated[i] \in Files
      BY <1>1, <1>3 DEF MainTypes
    <3>4. file'[Generated[i]] = IF i = item /\ file[Generated[i]] = "empty" THEN "whole" ELSE file[Generated[i]]
      BY <1>1, <2>1, <3>1, <3>3, Filling
    <3> QED
      BY <2>1, <3>2, <3>3, <3>4 DEF Made
  <2> QED
    BY <1>9, <2>1, <2>2
<1>12. CASE main \notin {"create", "write", "off"} /\ main' \notin {"create", "write", "off"}
  BY <1>2, <1>12, MainStateStep DEF MainState
<1>13. CASE \/ \E config \in Configs : LoadConfig(config)
            \/ InitializeLog \/ CreateLanguage \/ LanguageExists \/ FillLanguage \/ OpenData
            \/ SpawnWatcher \/ Borrow \/ Bind
  BY <1>12, <1>13 DEF LoadConfig, InitializeLog, CreateLanguage, LanguageExists, FillLanguage,
    OpenData, Step, SpawnWatcher, Borrow, Bind, At, GoOn
<1>14. CASE ServerStep
  BY <1>1, <1>3, <1>14 DEF ServerStep, gatewayVars, Made
<1> QED
  BY <1>4, <1>6, <1>7, <1>8, <1>10, <1>11, <1>13, <1>14 DEF GatewayNext, Main

-----------------------------------------------------------------------------
(* An undisturbed program.                                                 *)

LEMMA CountersGrow ==
  ASSUME GatewayInv, GatewayNext
  PROVE  faults' >= faults /\ kills' >= kills /\ meddling' >= meddling
<1>1. faults \in Nat /\ kills \in Nat /\ meddling \in Nat
  BY DEF GatewayInv, GatewayTypeOK, TypeOK
<1>2. CASE Main
  <2>1. CASE Onward
    BY <1>1, <2>1 DEF Onward, Exit, GoOn, counters, vars, binding
  <2>2. CASE CreateNew \/ FileExists \/ WriteAll \/ GenerateFails \/ \E config \in Configs : LoadConfig(config)
    BY <1>1, <2>1, <2>2 DEF CreateNew, FileExists, WriteAll, GenerateFails, LoadConfig, Fault,
      Exit, GoOn, counters, vars, binding
  <2>3. CASE LoadFails \/ StartFails \/ BindFails \/ Shutdown
    BY <1>1, <2>3 DEF LoadFails, StartFails, BindFails, Shutdown, Fault, Exit
  <2>4. CASE InitializeLog \/ CreateLanguage \/ LanguageExists \/ FillLanguage \/ OpenData
    BY <1>1, <2>4 DEF InitializeLog, CreateLanguage, LanguageExists, FillLanguage, OpenData, Step,
      GoOn, counters, vars, binding
  <2>5. CASE SpawnWatcher \/ Borrow \/ Bind
    BY <1>1, <2>5 DEF SpawnWatcher, Borrow, Bind, GoOn, counters, binding
  <2> QED
    BY <1>2, <2>2, <2>3, <2>4, <2>5 DEF Main
<1>3. CASE Kill \/ Begin \/ \E f \in OwnFiles, content \in {"absent", "own"} : Meddle(f, content)
  BY <1>1, <1>3 DEF Kill, Begin, Meddle, Exit, vars, binding
<1>4. CASE ServerStep
  <2>1. UNCHANGED gatewayVars /\ Next
    BY <1>4 DEF ServerStep, Next
  <2>2. faults' = faults \/ faults' = faults + 1
    BY <2>1 DEF Next, Publish, WatcherEnds, Connect, Accept, End, Load, Refuse, Admit, Retry, Changed,
      Rebind, RebindFails, Stop, ChannelClosed, Return, binding
  <2> QED
    BY <1>1, <2>1, <2>2 DEF gatewayVars, counters
<1> QED
  BY <1>2, <1>3, <1>4 DEF GatewayNext

LEMMA UndisturbedStep == GatewayInv /\ GatewayNext => Undisturbed'
<1> SUFFICES ASSUME GatewayInv, GatewayNext, faults' = 0, kills' = 0, meddling' = 0
             PROVE  Undisturbed'
  BY DEF Undisturbed
<1>1. MainTypes /\ MainState /\ FirstRunMakes
  BY GeneratedFiles DEF GatewayInv, GatewayTypeOK, MainTypes
<1>2. faults = 0 /\ kills = 0 /\ meddling = 0
  BY CountersGrow DEF GatewayInv, GatewayTypeOK, TypeOK
<1> DEFINE Making == main \in {"create", "write"} /\ found = {}
           All(content) == outcome # "failed" /\ \A f \in Files : file[f] = content
<1>3. Making \/ (main = "off" /\ All("absent")) \/ All("whole")
  BY <1>2 DEF Undisturbed, GatewayInv
<1>4. SUFFICES Making' \/ (main' = "off" /\ All("absent")') \/ All("whole")'
  BY DEF Undisturbed
<1>5. ~Kill /\ ~GenerateFails /\ ~BindFails /\ ~Fault
      /\ \A f \in OwnFiles, content \in {"absent", "own"} : ~Meddle(f, content)
  BY <1>2 DEF Kill, GenerateFails, BindFails, Fault, Meddle
<1>6. "config" \in Files
  BY GeneratedFiles
\* The first run goes on.
<1>7. CASE Making /\ ~All("whole")
  <2>1. \A i \in 1 .. 5 : file[Generated[i]] = Made(i)
    BY <1>1, <1>7, GeneratedFiles DEF FirstRunMakes
  <2>2. item \in 1 .. 5
    BY <1>1 DEF MainTypes
  <2>3. ~FileExists
    <3>1. main = "create" => file[Generated[item]] = "absent"
      BY <2>1, <2>2 DEF Made
    <3> QED
      BY <3>1 DEF FileExists, At
  <2>4. CASE CreateNew
    BY <1>7, <2>4 DEF CreateNew, GoOn
  <2>5. CASE WriteAll
    <3>1. CASE item < Len(Generated)
      BY <1>7, <2>5, <3>1 DEF WriteAll, Onward, GoOn
    <3>2. CASE ~(item < Len(Generated))
      <4>1. outcome' = "generated" /\ main' = "off"
        BY <2>5, <3>2 DEF WriteAll, Onward, Exit
      <4>2. \A f \in Files \ found' : file'[f] = "whole"
        BY <4>1, FirstRunStep DEF FirstRunIsWhole
      <4>3. found' = {}
        BY <1>7, <2>5, <3>2 DEF WriteAll, Onward, Exit
      <4> QED
        BY <4>1, <4>2, <4>3
    <3> QED
      BY <3>1, <3>2
  <2>6. CASE ServerStep
    BY <1>7, <2>6 DEF ServerStep, gatewayVars
  <2> QED
    BY <1>5, <1>7, <2>3, <2>4, <2>5, <2>6
    DEF GatewayNext, Main, Begin, LoadConfig, LoadFails, InitializeLog, CreateLanguage, LanguageExists,
      FillLanguage, OpenData, Step, SpawnWatcher, StartFails, Borrow, Bind, Shutdown, At
\* Nothing has been started yet.
<1>8. CASE main = "off" /\ All("absent")
  <2>1. CASE Begin
    BY <1>6, <1>8, <2>1 DEF Begin
  <2>2. CASE ServerStep
    BY <1>8, <2>2 DEF ServerStep, gatewayVars
  <2> QED
    BY <1>5, <1>8, <2>1, <2>2
    DEF GatewayNext, Main, CreateNew, FileExists, WriteAll, LoadConfig, LoadFails, InitializeLog,
      CreateLanguage, LanguageExists, FillLanguage, OpenData, Step, SpawnWatcher, StartFails, Borrow,
      Bind, Shutdown, At
\* All files are there.
<1>9. CASE All("whole")
  <2>1. locale \in Files /\ Generated[item] \in Files
    BY <1>1, GeneratedFiles DEF MainTypes
  <2>2. ~LoadFails
    <3>1. "alpha" \in Files /\ "beta" \in Files
      BY DEF Files, Generated
    <3>2. Needed = {{"alpha", "beta"}}
      BY <1>6, <1>9 DEF Needed
    <3> QED
      BY <1>6, <1>9, <3>1, <3>2 DEF LoadFails, MustLoad
  <2>3. ~StartFails
    BY <1>5, <1>9, <2>1 DEF StartFails
  <2>4. file' = file
    <3>1. ~CreateNew /\ ~CreateLanguage
      BY <1>9, <2>1 DEF CreateNew, CreateLanguage
    <3>2. WriteAll \/ FillLanguage => \A f \in Files : file'[f] = file[f]
      BY <1>1, <1>9, <2>1, Filling DEF WriteAll, FillLanguage
    <3>3. file \in [Files -> Contents] /\ file' \in [Files -> Contents]
      BY <1>1, FileTypes DEF MainTypes
    <3>4. WriteAll \/ FillLanguage => file' = file
      BY <3>2, <3>3
    <3>5. ~(faults' = faults + 1 \/ kills' = kills + 1)
      BY <1>2
    <3>6. ~\E f \in Files, content \in {"absent", "own"} : Meddle(f, content)
      BY <1>2 DEF Meddle
    <3> QED
      BY <1>1, <3>1, <3>4, <3>5, <3>6, FileStep
  <2>5. outcome' # "failed"
    <3>1. WriteAll \/ FileExists => outcome' # "failed"
      BY <1>9 DEF WriteAll, FileExists, Onward, GoOn, Exit
    <3> QED
      BY <1>5, <1>9, <2>2, <2>3, <3>1
      DEF GatewayNext, Main, Begin, CreateNew, LoadConfig, InitializeLog, CreateLanguage, LanguageExists,
        FillLanguage, OpenData, Step, SpawnWatcher, Borrow, Bind, Shutdown, ServerStep, GoOn, Exit, gatewayVars
  <2> QED
    BY <1>9, <2>4, <2>5
<1> QED
  BY <1>3, <1>7, <1>8, <1>9

-----------------------------------------------------------------------------
(* The theorems.                                                           *)

LEMMA GatewayInvStep == GatewayInv /\ [GatewayNext]_allVars => GatewayInv'
<1> SUFFICES ASSUME GatewayInv, [GatewayNext]_allVars PROVE GatewayInv'
  OBVIOUS
<1>1. CASE GatewayNext
  <2>1. MainTypes
    BY GeneratedFiles DEF GatewayInv, GatewayTypeOK, MainTypes
  <2>2. MainTypes' /\ IInv'
    BY <1>1, <2>1, MainTypesStep, ServerInvStep
  <2>3. GatewayTypeOK'
    BY <2>2, GeneratedFiles DEF GatewayTypeOK, MainTypes, IInv
  <2> QED
    BY <1>1, <2>2, <2>3, MainStateStep, FirstRunStep, UndisturbedStep DEF GatewayInv
<1>2. CASE UNCHANGED allVars
  <2>1. UNCHANGED vars /\ UNCHANGED <<file, main, item, locale, outcome, found, starts, kills, meddling>>
    BY <1>2 DEF allVars, gatewayVars, counters
  <2>2. IInv'
    BY <2>1, StutterInv DEF GatewayInv
  <2>3. GatewayTypeOK'
    BY <2>1, <2>2 DEF GatewayInv, GatewayTypeOK, IInv
  <2>4. UNCHANGED <<phase, target, faults>>
    BY <2>1 DEF vars, binding
  <2> QED
    BY <2>1, <2>2, <2>3, <2>4
    DEF GatewayInv, MainState, FirstRunMakes, FirstRunIsWhole, Undisturbed, Made
<1> QED
  BY <1>1, <1>2

\* The inductive invariant of the whole program, that of the server included.
THEOREM GatewayInvariance == GatewaySpec => []GatewayInv
BY GatewayInitInv, GatewayInvStep, PTL DEF GatewaySpec

\* The variables of the server and of main have their types in every run.
THEOREM GatewayTypeCorrect == GatewaySpec => []GatewayTypeOK
<1>1. GatewayInv => GatewayTypeOK
  BY DEF GatewayInv
<1> QED
  BY <1>1, GatewayInvariance, PTL

\* Permits are counted right from the first start to the last end of the
\* program, and a running server listens where it believes it does.
THEOREM ServerInvariants == GatewaySpec => [](ActiveCounts /\ KeepsListening)
<1>1. GatewayInv => ActiveCounts /\ KeepsListening
  BY DEF GatewayInv, IInv
<1> QED
  BY <1>1, GatewayInvariance, PTL

\* A first run that reports success has left every file whole that nobody
\* else has touched.
THEOREM FirstRunsAreWhole == GatewaySpec => []FirstRunIsWhole
<1>1. GatewayInv => FirstRunIsWhole
  BY DEF GatewayInv
<1> QED
  BY <1>1, GatewayInvariance, PTL

\* A program that nothing has happened to does not fail: it starts on what it
\* has generated.
THEOREM NoFailureOfItsOwn == GatewaySpec => []FailsForAReason
<1>1. GatewayInv => FailsForAReason
  <2> SUFFICES ASSUME GatewayInv, outcome = "failed", faults = 0, kills = 0, meddling = 0
               PROVE  FALSE
    BY DEF FailsForAReason, GatewayInv, GatewayTypeOK, TypeOK
  <2> QED
    BY DEF GatewayInv, Undisturbed, MainState
<1> QED
  BY <1>1, GatewayInvariance, PTL

\* What a write that is cut short may change.
LEMMA CuttingChanges ==
  ASSUME MainTypes, CutShort, NEW f \in Files, file'[f] # file[f]
  PROVE  /\ file[f] = "empty"
         /\ \/ main = "write" /\ f = Generated[item]
            \/ main = "fill" /\ f = locale
<1>1. Generated[item] \in Files /\ locale \in Files
  BY GeneratedFiles DEF MainTypes
<1>2. PICK content \in {"empty", "part"} :
        IF At("write") THEN Fill(Generated[item], content)
        ELSE IF At("fill") THEN Fill(locale, content)
        ELSE UNCHANGED file
  BY DEF CutShort
<1>3. CASE At("write")
  BY <1>1, <1>2, <1>3, Filling DEF At
<1>4. CASE ~At("write") /\ At("fill")
  BY <1>1, <1>2, <1>4, Filling DEF At
<1>5. CASE ~At("write") /\ ~At("fill")
  BY <1>2, <1>5
<1> QED
  BY <1>3, <1>4, <1>5

\* No step of the program changes or removes a file that exists, but for the
\* one it has just created and is writing: not the first run, not the language
\* file, not a write that is cut short.
THEOREM ExistingFilesAreKept == GatewaySpec => KeepsExistingFiles
<1> DEFINE Kept == meddling' = meddling =>
      \A f \in Files : file[f] # "absent" /\ file'[f] # file[f] =>
          /\ file[f] = "empty"
          /\ \/ main = "write" /\ f = Generated[item]
             \/ main = "fill" /\ f = locale
<1>1. GatewayInv /\ [GatewayNext]_allVars => [Kept]_allVars
  <2> SUFFICES ASSUME GatewayInv, GatewayNext, meddling' = meddling,
                      NEW f \in Files, file[f] # "absent", file'[f] # file[f]
               PROVE  /\ file[f] = "empty"
                      /\ \/ main = "write" /\ f = Generated[item]
                         \/ main = "fill" /\ f = locale
    OBVIOUS
  <2>1. MainTypes /\ Generated[item] \in Files /\ locale \in Files
    BY GeneratedFiles DEF GatewayInv, GatewayTypeOK, MainTypes
  <2>2. ASSUME NEW g \in Files, NEW content \in {"absent", "own"}, Meddle(g, content)
        PROVE  FALSE
    BY <2>1, <2>2 DEF Meddle, MainTypes
  <2>3. CASE CutShort
    BY <2>1, <2>3, CuttingChanges
  <2>4. ~CreateNew /\ ~CreateLanguage
    BY <2>1 DEF CreateNew, CreateLanguage, MainTypes
  <2>5. CASE WriteAll \/ FillLanguage
    BY <2>1, <2>5, Filling DEF WriteAll, FillLanguage, At
  <2> QED
    BY <2>1, <2>2, <2>3, <2>4, <2>5, FileStep
<1> QED
  BY <1>1, GatewayInvariance, PTL DEF GatewaySpec, KeepsExistingFiles

\* Nothing is admitted at or above the limit of its snapshot, in the whole
\* program as in the server alone.
THEOREM LimitIsRespectedThroughout == GatewaySpec => WithinLimit
<1> DEFINE Respected == \A c \in Conns :
      conn[c] # "open" /\ conn'[c] = "open" => Cardinality(Open) < limit
<1>1. GatewayInv /\ [GatewayNext]_allVars => [Respected]_vars
  <2> SUFFICES ASSUME GatewayInv, [GatewayNext]_allVars, NEW c \in Conns, conn[c] # "open", conn'[c] = "open"
               PROVE  Cardinality(Open) < limit
    OBVIOUS
  <2>1. conn \in [Conns -> {"none", "queued", "accepted", "open"}] /\ IInv
    BY DEF GatewayInv, IInv, TypeOK
  <2>2. ServerStep
    BY DEF GatewayNext, Main, Meddle, Kill, Begin, CreateNew, FileExists, Onward, WriteAll, GenerateFails,
      LoadConfig, LoadFails, InitializeLog, CreateLanguage, LanguageExists, FillLanguage, OpenData, Step,
      SpawnWatcher, StartFails, Borrow, Bind, BindFails, Shutdown, Exit, GoOn, vars, allVars
  <2>3. Admit
    BY <2>1, <2>2 DEF ServerStep, Publish, WatcherEnds, Connect, Accept, End, Load, Refuse, Retry, Settle,
      Changed, Rebind, RebindFails, Stop, ChannelClosed, Return
  <2> QED
    BY <2>1, <2>3 DEF Admit, IInv, ActiveCounts
<1> QED
  BY <1>1, GatewayInvariance, PTL DEF GatewaySpec, WithinLimit
=============================================================================
