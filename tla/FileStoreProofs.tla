--------------------------- MODULE FileStoreProofs ---------------------------
(***************************************************************************)
(* The properties of FileStore for every set of releases and every bound.  *)
(***************************************************************************)
EXTENDS FileStore, TLAPS

-----------------------------------------------------------------------------
(* The inductive invariant holds at first, and after every operation.      *)

LEMMA Initially == ASSUME Init PROVE IInv
<1>1. TypeOK
  BY DEF Init, TypeOK, Content, Steps
<1>2. WorkerState /\ OnlyValidated
  BY FileStoreAssumption
  DEF FileStoreAssumption, Init, WorkerState, OnlyValidated
<1> QED
  BY <1>1, <1>2 DEF IInv

LEMMA TypeStep == ASSUME TypeOK, WorkerState, [Next]_vars PROVE TypeOK'
<1> USE FileStoreAssumption DEF FileStoreAssumption, TypeOK, Content, Steps, WorkerState
<1>1. ASSUME NEW r \in Releases, Upstream(r) PROVE TypeOK'
  BY <1>1 DEF Upstream, counters
<1>2. ASSUME NEW content \in {Absent, Own}, UserPuts(content) PROVE TypeOK'
  BY <1>2 DEF UserPuts
<1>3. CASE Abort
  BY <1>3 DEF Abort, LeaveTemp, Step
<1> USE DEF At, Fails, Works, KeepDest, KeepTemp, LeaveTemp, Step
<1>4. ASSUME NEW o \in {"download", "update"}, Start(o) PROVE TypeOK'
  BY <1>4 DEF Start
<1>5. CASE Respond
  BY <1>5 DEF Respond
<1>6. CASE Receive
  BY <1>6 DEF Receive
<1>7. CASE DownloadFails
  BY <1>7 DEF DownloadFails
<1>8. CASE Validate
  BY <1>8 DEF Validate, AfterCheck
<1>9. CASE Discard
  BY <1>9 DEF Discard
<1>10. CASE Create
  BY <1>10 DEF Create
<1>11. CASE AlreadyExists
  BY <1>11 DEF AlreadyExists
<1>12. CASE CreateFails
  BY <1>12 DEF CreateFails
<1>13. CASE Copy
  BY <1>13 DEF Copy
<1>14. CASE CopyFails
  BY <1>14 DEF CopyFails
<1>15. CASE Undo
  BY <1>15 DEF Undo
<1>16. CASE Compare
  BY <1>16 DEF Compare
<1>17. CASE Replace
  BY <1>17 DEF Replace
<1>18. CASE UpdateFails
  BY <1>18 DEF UpdateFails
<1>19. CASE UNCHANGED vars
  BY <1>19 DEF vars, counters
<1> QED
  BY <1>1, <1>2, <1>3, <1>4, <1>5, <1>6, <1>7, <1>8, <1>9, <1>10, <1>11, <1>12, <1>13,
     <1>14, <1>15, <1>16, <1>17, <1>18, <1>19
  DEF Next

LEMMA WorkerStep == ASSUME TypeOK, WorkerState, [Next]_vars PROVE WorkerState'
<1> USE FileStoreAssumption DEF FileStoreAssumption, TypeOK, WorkerState
<1>1. ASSUME NEW r \in Releases, Upstream(r) PROVE WorkerState'
  BY <1>1 DEF Upstream, counters
<1>2. ASSUME NEW content \in {Absent, Own}, UserPuts(content) PROVE WorkerState'
  BY <1>2 DEF UserPuts
<1>3. CASE Abort
  BY <1>3 DEF Abort, LeaveTemp, Step
<1> USE DEF At, Fails, Works, KeepDest, KeepTemp, LeaveTemp, Step
<1>4. ASSUME NEW o \in {"download", "update"}, Start(o) PROVE WorkerState'
  BY <1>4 DEF Start
<1>5. CASE Respond
  BY <1>5 DEF Respond
<1>6. CASE Receive
  BY <1>6 DEF Receive
<1>7. CASE DownloadFails
  BY <1>7 DEF DownloadFails
<1>8. CASE Validate
  BY <1>8 DEF Validate, AfterCheck
<1>9. CASE Discard
  BY <1>9 DEF Discard
<1>10. CASE Create
  BY <1>10 DEF Create
<1>11. CASE AlreadyExists
  BY <1>11 DEF AlreadyExists
<1>12. CASE CreateFails
  BY <1>12 DEF CreateFails
<1>13. CASE Copy
  BY <1>13 DEF Copy
<1>14. CASE CopyFails
  BY <1>14 DEF CopyFails
<1>15. CASE Undo
  BY <1>15 DEF Undo
<1>16. CASE Compare
  BY <1>16 DEF Compare
<1>17. CASE Replace
  BY <1>17 DEF Replace
<1>18. CASE UpdateFails
  BY <1>18 DEF UpdateFails
<1>19. CASE UNCHANGED vars
  BY <1>19 DEF vars, counters
<1> QED
  BY <1>1, <1>2, <1>3, <1>4, <1>5, <1>6, <1>7, <1>8, <1>9, <1>10, <1>11, <1>12, <1>13,
     <1>14, <1>15, <1>16, <1>17, <1>18, <1>19
  DEF Next

LEMMA ContentStep == ASSUME IInv, [Next]_vars PROVE OnlyValidated'
<1> USE FileStoreAssumption DEF FileStoreAssumption, IInv, TypeOK, Content, WorkerState, OnlyValidated
<1>1. ASSUME NEW r \in Releases, Upstream(r) PROVE OnlyValidated'
  BY <1>1 DEF Upstream, counters
<1>2. ASSUME NEW content \in {Absent, Own}, UserPuts(content) PROVE OnlyValidated'
  BY <1>2 DEF UserPuts
<1>3. CASE Abort
  BY <1>3 DEF Abort, LeaveTemp, Step
<1> USE DEF At, Fails, Works, KeepDest, KeepTemp, LeaveTemp, Step
<1>4. ASSUME NEW o \in {"download", "update"}, Start(o) PROVE OnlyValidated'
  BY <1>4 DEF Start
<1>5. CASE Respond
  BY <1>5 DEF Respond
<1>6. CASE Receive
  BY <1>6 DEF Receive
<1>7. CASE DownloadFails
  BY <1>7 DEF DownloadFails
<1>8. CASE Validate
  BY <1>8 DEF Validate, AfterCheck
<1>9. CASE Discard
  BY <1>9 DEF Discard
<1>10. CASE Create
  BY <1>10 DEF Create
<1>11. CASE AlreadyExists
  BY <1>11 DEF AlreadyExists
<1>12. CASE CreateFails
  BY <1>12 DEF CreateFails
<1>13. CASE Copy
  BY <1>13 DEF Copy
<1>14. CASE CopyFails
  BY <1>14 DEF CopyFails
<1>15. CASE Undo
  BY <1>15 DEF Undo
<1>16. CASE Compare
  BY <1>16 DEF Compare
<1>17. CASE Replace
  BY <1>17 DEF Replace
<1>18. CASE UpdateFails
  BY <1>18 DEF UpdateFails
<1>19. CASE UNCHANGED vars
  BY <1>19 DEF vars, counters
<1> QED
  BY <1>1, <1>2, <1>3, <1>4, <1>5, <1>6, <1>7, <1>8, <1>9, <1>10, <1>11, <1>12, <1>13,
     <1>14, <1>15, <1>16, <1>17, <1>18, <1>19
  DEF Next

LEMMA Inductive == IInv /\ [Next]_vars => IInv'
  BY TypeStep, WorkerStep, ContentStep DEF IInv

\* The inductive invariant of the data file store.
THEOREM Invariance == Spec => []IInv
<1> QED BY Initially, Inductive, PTL DEF Spec

\* The variables of the store have their types: its files hold what the model
\* can tell apart.
THEOREM TypeCorrect == Spec => []TypeOK
<1>1. IInv => TypeOK
  BY DEF IInv
<1> QED BY Invariance, <1>1, PTL

\* Nothing the server sends reaches a data file without its validation.
THEOREM ValidatedOnly == Spec => []OnlyValidated
<1>1. IInv => OnlyValidated
  BY DEF IInv
<1> QED BY Invariance, <1>1, PTL

\* The next operation decides what may happen to the destination.
LEMMA DestinationSteps ==
    ASSUME IInv, Next, pc' # pc, dest' # dest
    PROVE  \/ pc = "create" /\ dest = Absent
           \/ pc = "copy" /\ creator = "worker" /\ dest' = temp
           \/ pc = "undo"
           \/ pc = "replace" /\ dest' = temp
<1> USE DEF At, Works, Fails, KeepDest, KeepTemp, Step
<1>1. ~ \E r \in Releases : Upstream(r)
  BY DEF Upstream
<1>2. ~ \E content \in {Absent, Own} : UserPuts(content)
  BY DEF UserPuts
<1>3. ~ (Abort \/ \E o \in {"download", "update"} : Start(o))
  BY DEF Abort, Start
<1>4. ~ (Respond \/ Receive \/ DownloadFails \/ Validate \/ Discard)
  BY DEF Respond, Receive, DownloadFails, Validate, Discard
<1>5. ~ (AlreadyExists \/ CreateFails \/ CopyFails \/ Compare \/ UpdateFails)
  BY DEF AlreadyExists, CreateFails, CopyFails, Compare, UpdateFails
<1>6. CASE Create
  BY <1>6 DEF Create
<1>7. CASE Copy
  BY <1>7 DEF Copy
<1>8. CASE Undo
  BY <1>8 DEF Undo
<1>9. CASE Replace
  BY <1>9 DEF Replace
<1> QED BY <1>1, <1>2, <1>3, <1>4, <1>5, <1>6, <1>7, <1>8, <1>9 DEF Next

\* A download leaves alone what the operator put in place, but for its undo.
THEOREM OwnFileSurvives == Spec => FillsOnlyMissing
<1>1. ASSUME IInv, Next, pc' # pc, op = "download", dest = Own
      PROVE  dest' = Own \/ pc = "undo"
  BY <1>1, DestinationSteps, FileStoreAssumption DEF FileStoreAssumption, IInv, WorkerState
<1>2. IInv /\ [Next]_vars
      => [pc' # pc /\ op = "download" /\ dest = Own => dest' = Own \/ pc = "undo"]_vars
  BY <1>1 DEF vars
<1> QED BY Invariance, <1>2, PTL DEF Spec, FillsOnlyMissing

\* An update replaces a file by a whole one in one step.
THEOREM UpdatesAreAtomic == Spec => ReplacesAtOnce
<1>1. ASSUME IInv, Next, pc' # pc, op = "update", dest' # dest
      PROVE  dest' \in Releases
  BY <1>1, DestinationSteps DEF IInv, WorkerState
<1>2. IInv /\ [Next]_vars
      => [pc' # pc /\ op = "update" /\ dest' # dest => dest' \in Releases]_vars
  BY <1>1 DEF vars
<1> QED BY Invariance, <1>2, PTL DEF Spec, ReplacesAtOnce

\* What a step of the world or of the worker may do to a half-written file.
LEMMA PartialSteps ==
    ASSUME IInv, Next, dest' = Partial, pc' \notin {"copy", "undo"}
    PROVE  \/ dest = Partial /\ pc \notin {"copy", "undo"}
           \/ pc \in {"copy", "undo"} /\ aborts' > aborts
           \/ pc = "undo" /\ faults' > faults
<1> USE FileStoreAssumption DEF FileStoreAssumption, IInv, TypeOK, WorkerState
<1>1. CASE \E r \in Releases : Upstream(r)
  BY <1>1 DEF Upstream
<1>2. CASE \E content \in {Absent, Own} : UserPuts(content)
  BY <1>2 DEF UserPuts
<1>3. CASE Abort
  BY <1>3 DEF Abort, LeaveTemp, Step
<1> USE DEF At, Fails, Works, KeepDest, KeepTemp, LeaveTemp, Step
<1>4. CASE \E o \in {"download", "update"} : Start(o)
  BY <1>4 DEF Start
<1>5. CASE Respond \/ Receive \/ DownloadFails \/ Validate \/ Discard
  BY <1>5 DEF Respond, Receive, DownloadFails, Validate, Discard
<1>6. CASE Create \/ AlreadyExists \/ CreateFails
  BY <1>6 DEF Create, AlreadyExists, CreateFails
<1>7. CASE Copy \/ CopyFails
  BY <1>7 DEF Copy, CopyFails
<1>8. CASE Undo
  BY <1>8 DEF Undo
<1>9. CASE Compare \/ Replace \/ UpdateFails
  BY <1>9 DEF Compare, Replace, UpdateFails
<1> QED
  BY <1>1, <1>2, <1>3, <1>4, <1>5, <1>6, <1>7, <1>8, <1>9 DEF Next

\* Half-written files: only where a download's copy was cut off, or could not
\* be undone.
THEOREM HalfWrittenOnlyWhenCutOff == Spec => WholeOrAbsent
<1>1. IInv /\ [Next]_vars
      => [dest' = Partial /\ pc' \notin {"copy", "undo"} =>
              \/ dest = Partial /\ pc \notin {"copy", "undo"}
              \/ pc \in {"copy", "undo"} /\ aborts' > aborts
              \/ pc = "undo" /\ faults' > faults]_vars
  BY PartialSteps
<1> QED BY Invariance, <1>1, PTL DEF Spec, WholeOrAbsent

\* The steps that may leave a temporary file behind.
LEMMA LeavingSteps ==
    ASSUME IInv, Next, leftovers' > leftovers
    PROVE  \/ aborts' > aborts
           \/ pc \in {"discard", "compare", "replace"} /\ faults' > faults
           \/ pc \in {"create", "copy"} /\ faults' = faults /\ kind = "security"
<1> USE DEF IInv, TypeOK
<1>1. CASE Abort
  BY <1>1 DEF Abort
<1>2. ~ ((\E r \in Releases : Upstream(r)) \/ \E content \in {Absent, Own} : UserPuts(content))
  BY DEF Upstream, UserPuts
<1> USE DEF At, Fails, Works, KeepDest, KeepTemp, LeaveTemp, Step
<1>3. ~ \E o \in {"download", "update"} : Start(o)
  BY DEF Start
<1>4. ~ (Respond \/ Receive \/ DownloadFails \/ Validate)
  BY DEF Respond, Receive, DownloadFails, Validate
<1>5. CASE Discard
  BY <1>5 DEF Discard
<1>6. ~ (Create \/ CreateFails \/ CopyFails \/ Undo \/ Compare \/ Replace)
  BY DEF Create, CreateFails, CopyFails, Undo, Compare, Replace
<1>7. CASE AlreadyExists \/ Copy
  BY <1>7 DEF AlreadyExists, Copy
<1>8. CASE UpdateFails
  BY <1>8 DEF UpdateFails
<1> QED
  BY <1>1, <1>2, <1>3, <1>4, <1>5, <1>6, <1>7, <1>8 DEF Next

\* Downloads and updates clean up behind themselves, but for the cases that
\* CleansUp names.
THEOREM TemporaryFilesRemoved == Spec => CleansUp
<1>1. IInv /\ [Next]_vars
      => [leftovers' > leftovers =>
              \/ aborts' > aborts
              \/ pc \in {"discard", "compare", "replace"} /\ faults' > faults
              \/ pc \in {"create", "copy"} /\ faults' = faults /\ kind = "security"]_vars
  BY LeavingSteps
<1> QED BY Invariance, <1>1, PTL DEF Spec, CleansUp
=============================================================================
