------------------------- MODULE GcpLauncherProofs --------------------------
(***************************************************************************)
(* Proofs about GcpLauncher, for every set of components, any number of    *)
(* remote jobs, any retry limit and any number of preemptions: a launcher  *)
(* that resumes accounts for every job it created and never creates a      *)
(* second one beside a recorded one, and success is reported of the job    *)
(* that succeeded.                                                         *)
(***************************************************************************)
EXTENDS GcpLauncher, TLAPS

-----------------------------------------------------------------------------
(* The inductive invariant.                                                *)

\* A launcher has an exit status when it is at its end, and only then.
EndsOnce == exit # "none" <=> pc = "end"

\* While the process lives, the poll loop has not exceeded its limit.
RetriesBounded == pc # "end" => conn <= RetryLimit

\* Between the creation of a job and the end of the poll loop the launcher
\* holds the name of a job that was started.
HoldsJob == pc \in {"open", "write", "poll"} => name \in Started

\* The file names no job that was not started.
FileNamesStarted == file \in JobIds => file \in Started

\* A launcher that resumes gets past the check only with a file that names
\* no job; so what it then writes replaces no name.
NothingRecorded ==
    Resumes /\ pc \in {"ask", "create", "open", "write"} => file \notin JobIds

\* What is polled, and what the results are taken from, is what the file
\* names.
PollsTheFile == Polls /\ pc \in {"poll", "finish"} => file = name

FinishesSucceeded ==
    Polls /\ pc = "finish" => name \in JobIds /\ jobs[name] = "succeeded"

\* A success was reported with the job and the file as they still are.
SuccessStays ==
    Polls /\ exit = "ok" => name \in JobIds /\ ReportsTheJob

TypeInv == TypeOK /\ EndsOnce /\ RetriesBounded

FileInv ==
    /\ HoldsJob
    /\ FileNamesStarted
    /\ NothingRecorded
    /\ PollsTheFile
    /\ JobsAccountedFor

SuccessInv == FinishesSucceeded /\ SuccessStays

LauncherInv == TypeInv /\ FileInv /\ SuccessInv

-----------------------------------------------------------------------------
(* Types.                                                                  *)

LEMMA InitType == Init => TypeInv
  <1> SUFFICES ASSUME Init PROVE TypeInv
    OBVIOUS
  <1>1. jobs \in [JobIds -> {"none", "running"}]
    <2>1. CASE runner.kind = "wait"
      BY <2>1 DEF Init
    <2>2. CASE runner.kind # "wait"
      BY <2>2 DEF Init
    <2> QED BY <2>1, <2>2
  <1>2. accepted \in BOOLEAN
    BY DEF Init
  <1>3. seen \in BOOLEAN
    BY Zenon DEF Init
  <1>4. TypeOK
    BY <1>1, <1>2, <1>3, BoundsAssumption DEF Init, TypeOK, Places, Exits, JobStates
  <1>5. EndsOnce /\ RetriesBounded
    BY BoundsAssumption DEF Init, EndsOnce, RetriesBounded
  <1> QED BY <1>4, <1>5 DEF TypeInv

\* The launcher loses only names of jobs it holds.
LEMMA NextType == TypeInv /\ FileInv /\ [Next]_vars => TypeInv'
  <1> SUFFICES ASSUME TypeInv, FileInv, [Next]_vars PROVE TypeInv'
    OBVIOUS
  <1> USE BoundsAssumption
      DEF TypeInv, TypeOK, EndsOnce, RetriesBounded, Places, Exits, JobStates,
          remote, Goto, End
  <1>1. CASE Main
    BY <1>1 DEF Main, Raise
  <1>2. CASE Resume
    BY <1>2 DEF Resume, Raise, Recorded
  <1>3. CASE Begin
    BY <1>3 DEF Begin, Started
  <1>4. CASE Ask
    BY <1>4 DEF Ask, Raise
  <1>5. CASE CreateRemote
    BY <1>5 DEF CreateRemote, NewJob
  <1>6. CASE CreateLost
    BY <1>6 DEF CreateLost, NewJob, Raise
  <1>7. CASE CreateRefused
    BY <1>7 DEF CreateRefused, Raise
  <1>8. CASE OpenFile
    BY <1>8 DEF OpenFile
  <1>9. CASE WriteFile
    BY <1>9 DEF WriteFile, FileInv, HoldsJob, Started
  <1>10. CASE PollSucceeded
    BY <1>10 DEF PollSucceeded
  <1>11. CASE PollFailed
    BY <1>11 DEF PollFailed, Raise
  <1>12. CASE PollRunning
    <2>1. seen' \in BOOLEAN
      BY <1>12, Zenon DEF PollRunning
    <2> QED BY <1>12, <2>1 DEF PollRunning
  <1>13. CASE PollRefused
    BY <1>13 DEF PollRefused, Raise
  <1>14. CASE PollUnreachable
    BY <1>14 DEF PollUnreachable, AfterConnectionError
  <1>15. CASE Finish
    BY <1>15 DEF Finish, Raise
  <1>16. CASE SigTerm
    BY <1>16 DEF SigTerm, Forget, Raise, FileInv, HoldsJob, Started
  <1>17. CASE Crash
    BY <1>17 DEF Crash, Forget, FileInv, HoldsJob, Started
  <1>18. CASE Restart
    <2>1. seen' \in BOOLEAN
      BY <1>18, Zenon DEF Restart
    <2> QED BY <1>18, <2>1 DEF Restart
  <1>19. ASSUME NEW j \in JobIds, JobEnds(j) PROVE TypeInv'
    BY <1>19 DEF JobEnds, launcher
  <1>20. CASE UNCHANGED vars
    BY <1>20 DEF vars, launcher
  <1> QED
    BY <1>1, <1>2, <1>3, <1>4, <1>5, <1>6, <1>7, <1>8, <1>9, <1>10, <1>11, <1>12, <1>13,
       <1>14, <1>15, <1>16, <1>17, <1>18, <1>19, <1>20 DEF Next, Advance

-----------------------------------------------------------------------------
(* The file and the jobs.                                                  *)

LEMMA InitFile == Init => FileInv
  BY JobIdsAssumption
  DEF Init, FileInv, HoldsJob, FileNamesStarted, NothingRecorded, PollsTheFile,
      JobsAccountedFor, Started, Resumes, runner, main

LEMMA NextFile == TypeInv /\ FileInv /\ [Next]_vars => FileInv'
  <1> SUFFICES ASSUME TypeInv, FileInv, [Next]_vars PROVE FileInv'
    OBVIOUS
  <1> USE JobIdsAssumption
      DEF TypeInv, TypeOK, FileInv, HoldsJob, FileNamesStarted, NothingRecorded,
          PollsTheFile, JobsAccountedFor, Started, Resumes, Polls, Creates, runner, main,
          remote, Goto, End
  <1>1. CASE Main
    BY <1>1 DEF Main
  <1>2. CASE Resume
    BY <1>2 DEF Resume, Recorded
  <1>3. CASE Begin
    BY <1>3 DEF Begin, Recorded
  <1>4. CASE Ask
    BY <1>4 DEF Ask
  <1>5. CASE CreateRemote
    BY <1>5 DEF CreateRemote, NewJob
  <1>6. CASE CreateLost
    BY <1>6 DEF CreateLost, NewJob
  <1>7. CASE CreateRefused
    BY <1>7 DEF CreateRefused
  <1>8. CASE OpenFile
    BY <1>8 DEF OpenFile
  <1>9. CASE WriteFile
    BY <1>9 DEF WriteFile
  <1>10. CASE PollSucceeded
    BY <1>10 DEF PollSucceeded
  <1>11. CASE PollFailed
    BY <1>11 DEF PollFailed
  <1>12. CASE PollRunning
    BY <1>12 DEF PollRunning
  <1>13. CASE PollRefused
    BY <1>13 DEF PollRefused
  <1>14. CASE PollUnreachable
    BY <1>14 DEF PollUnreachable, AfterConnectionError
  <1>15. CASE Finish
    BY <1>15 DEF Finish
  <1>16. CASE SigTerm
    BY <1>16 DEF SigTerm, Forget
  <1>17. CASE Crash
    BY <1>17 DEF Crash, Forget
  <1>18. CASE Restart
    BY <1>18 DEF Restart
  <1>19. ASSUME NEW j \in JobIds, JobEnds(j) PROVE FileInv'
    BY <1>19 DEF JobEnds, launcher
  <1>20. CASE UNCHANGED vars
    BY <1>20 DEF vars, launcher
  <1> QED
    BY <1>1, <1>2, <1>3, <1>4, <1>5, <1>6, <1>7, <1>8, <1>9, <1>10, <1>11, <1>12, <1>13,
       <1>14, <1>15, <1>16, <1>17, <1>18, <1>19, <1>20 DEF Next, Advance

-----------------------------------------------------------------------------
(* Success.                                                                *)

LEMMA InitSuccess == Init => SuccessInv
  BY DEF Init, SuccessInv, FinishesSucceeded, SuccessStays

LEMMA NextSuccess == TypeInv /\ FileInv /\ SuccessInv /\ [Next]_vars => SuccessInv'
  <1> SUFFICES ASSUME TypeInv, FileInv, SuccessInv, [Next]_vars PROVE SuccessInv'
    OBVIOUS
  <1> USE DEF TypeInv, TypeOK, EndsOnce, SuccessInv, FinishesSucceeded, SuccessStays,
          ReportsTheJob, Polls, Creates, runner, main, remote, Goto, End
  <1>1. CASE Main
    BY <1>1 DEF Main, Raise
  <1>2. CASE Resume
    BY <1>2 DEF Resume, Raise
  <1>3. CASE Begin
    BY <1>3 DEF Begin
  <1>4. CASE Ask
    BY <1>4 DEF Ask, Raise
  <1>5. CASE CreateRemote
    BY <1>5 DEF CreateRemote, NewJob
  <1>6. CASE CreateLost
    BY <1>6 DEF CreateLost, NewJob, Raise
  <1>7. CASE CreateRefused
    BY <1>7 DEF CreateRefused, Raise
  <1>8. CASE OpenFile
    BY <1>8 DEF OpenFile
  <1>9. CASE WriteFile
    BY <1>9 DEF WriteFile
  <1>10. CASE PollSucceeded
    BY <1>10 DEF PollSucceeded, Succeeded, FileInv, HoldsJob, PollsTheFile, Started
  <1>11. CASE PollFailed
    BY <1>11 DEF PollFailed, Raise
  <1>12. CASE PollRunning
    BY <1>12 DEF PollRunning
  <1>13. CASE PollRefused
    BY <1>13 DEF PollRefused, Raise
  <1>14. CASE PollUnreachable
    BY <1>14 DEF PollUnreachable, AfterConnectionError
  <1>15. CASE Finish
    <2>1. CASE \E present \in SUBSET runner.mayWrite :
                 filled' = Fill(runner.writes \cup present)
      <3>1. \A a \in runner.writes : <<a, name>> \in filled'
        BY <2>1, WritesAssumption DEF Fill
      <3> QED BY <1>15, <3>1 DEF Finish, FileInv, PollsTheFile
    <2>2. CASE \E e \in {"error", Raise("runtime")} : End(e)
      BY <1>15, <2>2 DEF Finish, Raise
    <2> QED BY <1>15, <2>1, <2>2 DEF Finish
  <1>16. CASE SigTerm
    BY <1>16 DEF SigTerm, Raise
  <1>17. CASE Crash
    BY <1>17 DEF Crash
  <1>18. CASE Restart
    BY <1>18 DEF Restart
  <1>19. ASSUME NEW j \in JobIds, JobEnds(j) PROVE SuccessInv'
    BY <1>19 DEF JobEnds, launcher
  <1>20. CASE UNCHANGED vars
    BY <1>20 DEF vars, launcher
  <1> QED
    BY <1>1, <1>2, <1>3, <1>4, <1>5, <1>6, <1>7, <1>8, <1>9, <1>10, <1>11, <1>12, <1>13,
       <1>14, <1>15, <1>16, <1>17, <1>18, <1>19, <1>20 DEF Next, Advance

-----------------------------------------------------------------------------
LEMMA LauncherInvariant == Spec => []LauncherInv
  <1>1. Init => LauncherInv
    BY InitType, InitFile, InitSuccess DEF LauncherInv
  <1>2. LauncherInv /\ [Next]_vars => LauncherInv'
    BY NextType, NextFile, NextSuccess DEF LauncherInv
  <1> QED BY <1>1, <1>2, PTL DEF Spec

(* Every variable has its type; in particular the poll loop of a Wait      *)
(* component counts at most RetryLimit + 1 connection errors before it     *)
(* gives up (wait_gcp_resources).                                          *)
THEOREM TypeCorrect == Spec => []TypeOK
  <1>1. LauncherInv => TypeOK
    BY DEF LauncherInv, TypeInv
  <1> QED BY <1>1, LauncherInvariant, PTL

(* A launcher that resumes knows every job it created: in the file, in     *)
(* memory on the way there, or lost before the write was over, however     *)
(* often it was preempted (check_if_job_exists, create_job).               *)
THEOREM JobsAccountedForAlways == Spec => []JobsAccountedFor
  <1>1. LauncherInv => JobsAccountedFor
    BY DEF LauncherInv, FileInv
  <1> QED BY <1>1, LauncherInvariant, PTL

(* A waiting launcher that exits with success names in the file the job    *)
(* that succeeded, and its artifacts describe that job (poll_job,          *)
(* update_output_artifacts).                                               *)
THEOREM ReportsTheJobAlways == Spec => []ReportsTheJob
  <1>1. LauncherInv => ReportsTheJob
    BY DEF LauncherInv, SuccessInv, SuccessStays, ReportsTheJob
  <1> QED BY <1>1, LauncherInvariant, PTL

(* Once the file of a resuming launcher names a job, no step creates       *)
(* another or changes the name (check_if_job_exists).                      *)
THEOREM NoSecondJobEver == Spec => NoSecondJob
  <1> DEFINE Kept == Resumes /\ file \in JobIds =>
                        file' = file /\ \A j \in JobIds : jobs[j] = "none" => jobs'[j] = "none"
  <1>1. LauncherInv /\ [Next]_vars => [Kept]_vars
    <2> SUFFICES ASSUME LauncherInv, Next, Resumes, file \in JobIds
                 PROVE  /\ file' = file
                        /\ \A j \in JobIds : jobs[j] = "none" => jobs'[j] = "none"
      OBVIOUS
    <2>1. pc \notin {"ask", "create", "open", "write"}
      BY DEF LauncherInv, FileInv, NothingRecorded
    <2>2. ~CreateRemote /\ ~CreateLost /\ ~OpenFile /\ ~WriteFile
      BY <2>1 DEF CreateRemote, CreateLost, OpenFile, WriteFile
    <2>3. ASSUME NEW j \in JobIds, JobEnds(j)
          PROVE  /\ file' = file
                 /\ \A i \in JobIds : jobs[i] = "none" => jobs'[i] = "none"
      BY <2>3 DEF JobEnds, launcher, LauncherInv, TypeInv, TypeOK
    <2>4. CASE \A j \in JobIds : ~JobEnds(j)
      BY <2>2, <2>4
      DEF Next, Advance, Main, Resume, Begin, Ask, CreateRefused, PollSucceeded, PollFailed,
          PollRunning, PollRefused, PollUnreachable, Finish, SigTerm, Crash, Restart, remote
    <2> QED BY <2>3, <2>4
  <1> QED BY <1>1, LauncherInvariant, PTL DEF Spec, NoSecondJob

=============================================================================
