----------------------------- MODULE GcpLauncher ----------------------------
(***************************************************************************)
(* One execution of a Google Cloud component's launcher container: the     *)
(* entry point parses its flags and calls a runner; the runner looks in    *)
(* the gcp_resources file for a job of an earlier attempt, creates the     *)
(* remote job when there is none, writes its name to the file, polls it to *)
(* a final state and fills the output artifacts.  The container may be     *)
(* preempted and restarted anywhere (the file survives), may be sent       *)
(* SIGTERM, and every request may fail.  The services are external.        *)
(***************************************************************************)
EXTENDS Naturals

CONSTANTS
    Components,      \* component records, see GcpComponents
    Abbreviations,   \* pairs <<a, f>>: argparse accepts a for the flag f
    JobIds,          \* identifiers of remote jobs
    RetryLimit,      \* _CONNECTION_ERROR_RETRY_LIMIT
    MaxCrashes       \* bound: preemptions of the container

ASSUME BoundsAssumption == RetryLimit \in Nat /\ MaxCrashes \in Nat

\* A runner fills only outputs of the components that call it.
ASSUME WritesAssumption == \A c \in Components : c.main.runner.writes \subseteq c.outputs

VARIABLES
    component,   \* the component that runs
    argv,        \* the flags on its command line
    accepted,    \* its inputs pass the checks of the runner
    pc,          \* where the launcher is
    name,        \* the job the launcher holds in memory
    seen,        \* the poll loop has had an answer
    conn,        \* consecutive connection errors of the poll loop
    file,        \* the gcp_resources file: "absent", "empty" or a job
    filled,      \* output artifacts written, with the job they describe
    exit,        \* how the launcher ended
    crashes,     \* preemptions so far
    jobs,        \* the state of every remote job
    asked,       \* jobs that were sent a cancel request
    lost         \* jobs whose name the launcher lost before writing it

launcher == <<component, argv, accepted, pc, name, seen, conn, file, filled, exit, crashes>>
remote == <<jobs, asked, lost>>
vars == <<launcher, remote>>

NoJob == "nojob"

\* The name of a job is none of the values that stand for its absence.
ASSUME JobIdsAssumption == JobIds \cap {NoJob, "absent", "empty"} = {}

\* "usage" is argparse's exit, "mismatch" an argument or a job type that the callee
\* does not know, "internal" error_util's exit code 13, "error" any other exception,
\* "cancelled" the os._exit(0) of the SIGTERM handler, "killed" SIGTERM without it.
Exits == {"none", "ok", "usage", "mismatch", "internal", "error", "cancelled", "killed"}

Places == {"main", "check", "ask", "create", "open", "write", "poll", "finish", "end", "down"}

JobStates == {"none", "running", "succeeded", "failed", "user_failed", "cancelled"}

Final == {"succeeded", "failed", "user_failed", "cancelled"}

main == component.main
runner == main.runner

\* Kinds whose runner reads gcp_resources before it creates anything.
Resumes == runner.kind \in {"job", "bigquery", "dataproc", "flex"}

\* Kinds that wait for the job.
Polls == runner.kind \in {"job", "lro", "bigquery", "dataproc", "wait"}

\* Kinds that create a job of their own.
Creates == runner.kind \notin {"wait", "lookup"}

\* What an exception does to the process: exit code 13 when the runner catches it.
Raise(err) == IF err \in runner.catches THEN "internal" ELSE "error"

Started == {j \in JobIds : jobs[j] # "none"}

\* A Wait component is given the job of an upstream component.
Init ==
    /\ component \in Components
    /\ argv \in {component.passes, component.passes \cup component.may}
    /\ accepted \in IF runner.rejects THEN BOOLEAN ELSE {TRUE}
    /\ pc = "main"
    /\ name = NoJob
    /\ seen = FALSE
    /\ conn = 0
    /\ file = "absent"
    /\ filled = {}
    /\ exit = "none"
    /\ crashes = 0
    /\ IF runner.kind = "wait"
         THEN \E j \in JobIds :
                  jobs = [i \in JobIds |-> IF i = j THEN "running" ELSE "none"]
         ELSE jobs = [j \in JobIds |-> "none"]
    /\ asked = {}
    /\ lost = {}

\* The launcher ends with e.
End(e) == exit' = e /\ pc' = "end"

Goto(place) == pc' = place /\ UNCHANGED exit

-----------------------------------------------------------------------------
(* The entry point: _parse_args and main of launcher.py.                   *)

\* Mutant: flags must be spelled out.
Given_Exact(f) == f \in argv

\* argparse finds flag f on the command line, spelled out or abbreviated.
Given(f) == f \in argv \/ \E a \in argv : <<a, f>> \in Abbreviations

ParseFails == \E f \in main.needs : ~Given(f)

\* vars(parsed_args): what the runner is called with.
Parsed == main.needs \cup main.defaults \cup {f \in main.takes : Given(f)}

CallFits ==
    /\ main.types # {} => component.type \in main.types
    /\ runner.params \subseteq Parsed
    /\ Parsed \subseteq runner.params \cup runner.optional

Main ==
    /\ pc = "main"
    /\ IF ParseFails THEN End("usage")
       ELSE IF ~CallFits THEN End("mismatch")
       ELSE IF ~accepted THEN End(Raise("value"))
       ELSE Goto("check")
    /\ UNCHANGED <<component, argv, accepted, name, seen, conn, file, filled, crashes, remote>>

-----------------------------------------------------------------------------
(* check_if_job_exists: resume the job that the file names.                *)

\* Mutant: the runner always starts a new job.
Recorded_Never == FALSE

Recorded == Resumes /\ file \in JobIds

\* Dataproc asks for the operation at once and may be refused.
Resume ==
    /\ pc = "check"
    /\ Recorded
    /\ name' = file
    /\ \/ IF runner.kind = "flex" THEN End("ok") ELSE Goto("poll")
       \/ runner.kind = "dataproc" /\ End(Raise("runtime"))
    /\ UNCHANGED <<component, argv, accepted, seen, conn, file, filled, crashes, remote>>

Begin ==
    /\ pc = "check"
    /\ ~Recorded
    /\ IF runner.kind = "wait"
         THEN /\ name' \in Started
              /\ Goto("open")
         ELSE /\ Goto(IF ~Creates THEN "finish" ELSE IF runner.asks THEN "ask" ELSE "create")
              /\ UNCHANGED name
    /\ UNCHANGED <<component, argv, accepted, seen, conn, file, filled, crashes, remote>>

\* Undeploy reads the endpoint, BigQuery's export reads the model, a Python job
\* installs its requirements and stages its files.
Ask ==
    /\ pc = "ask"
    /\ \/ Goto("create")
       \/ \E err \in {"runtime", "value"} : End(Raise(err))
    /\ UNCHANGED <<component, argv, accepted, name, seen, conn, file, filled, crashes, remote>>

-----------------------------------------------------------------------------
(* create_job, create_pipeline, create_lro, create_batch.                  *)

NewJob(j) ==
    /\ jobs[j] = "none"
    /\ jobs' = [jobs EXCEPT ![j] = "running"]

CreateRemote ==
    /\ pc = "create"
    /\ \E j \in JobIds : NewJob(j) /\ name' = j
    /\ Goto("open")
    /\ UNCHANGED <<component, argv, accepted, seen, conn, file, filled, crashes, asked, lost>>

\* The service creates the job and its answer does not arrive, or names no job.
CreateLost ==
    /\ pc = "create"
    /\ \E j \in JobIds : NewJob(j) /\ lost' = lost \cup {j}
    /\ \E e \in {"error", Raise("runtime")} : End(e)
    /\ UNCHANGED <<component, argv, accepted, name, seen, conn, file, filled, crashes, asked>>

\* The request is refused; a flex template that is only validated creates no job.
CreateRefused ==
    /\ pc = "create"
    /\ \/ \E e \in {"error", Raise("runtime"), Raise("value")} : End(e)
       \/ runner.kind = "flex" /\ End("ok")
    /\ UNCHANGED <<component, argv, accepted, name, seen, conn, file, filled, crashes, remote>>

\* open(gcp_resources, 'w') truncates the file ...
OpenFile ==
    /\ pc = "open"
    /\ file' = "empty"
    /\ Goto("write")
    /\ UNCHANGED <<component, argv, accepted, name, seen, conn, filled, crashes, remote>>

\* ... and the name is there once it is closed.  Dataflow jobs are not waited for.
WriteFile ==
    /\ pc = "write"
    /\ file' = name
    /\ IF Polls THEN Goto("poll") ELSE End("ok")
    /\ UNCHANGED <<component, argv, accepted, name, seen, conn, filled, crashes, remote>>

-----------------------------------------------------------------------------
(* poll_job, poll_pipeline, poll_lro, wait_for_batch, wait_gcp_resources.  *)

\* Mutant: any final state ends the loop as a success.
Succeeded_AnyFinal(j) == jobs[j] \in Final

Succeeded(j) == jobs[j] = "succeeded"

PollSucceeded ==
    /\ pc = "poll"
    /\ Succeeded(name)
    /\ Goto("finish")
    /\ conn' = 0
    /\ UNCHANGED <<component, argv, accepted, name, seen, file, filled, crashes, remote>>

\* Mutant: a job that failed with a user error is not final.
Failed_NotUser(j) == jobs[j] \in {"failed", "cancelled"}

Failed(j) == jobs[j] \in Final \ {"succeeded"}

\* A user error raises ValueError where the service module tells them apart.
PollFailed ==
    /\ pc = "poll"
    /\ Failed(name)
    /\ End(IF runner.kind \in {"job", "lro"} /\ jobs[name] = "user_failed"
             THEN Raise("value") ELSE Raise("runtime"))
    /\ conn' = 0
    /\ UNCHANGED <<component, argv, accepted, name, seen, file, filled, crashes, remote>>

PollRunning ==
    /\ pc = "poll"
    /\ jobs[name] = "running"
    /\ conn' = 0
    /\ seen' = TRUE
    /\ UNCHANGED <<component, argv, accepted, pc, name, file, filled, exit, crashes, remote>>

\* An error answer.  BigQuery's loop reads it as a job that has no state yet and
\* goes on; the others raise.
PollRefused ==
    /\ pc = "poll"
    /\ runner.kind # "bigquery"
    /\ \E e \in IF runner.kind = "lro" THEN {Raise("value"), Raise("runtime")} ELSE {"error"} :
           End(e)
    /\ conn' = 0
    /\ UNCHANGED <<component, argv, accepted, name, seen, file, filled, crashes, remote>>

\* Mutant: the wait loop never gives up.
AfterConnectionError_NoLimit ==
    IF runner.kind = "wait" /\ seen THEN Goto("poll") ELSE End("error")

\* No connection.  The get function of every Vertex job exits with code 13 before
\* the retry of poll_job can see the error; wait_gcp_resources goes on with the
\* last answer, and fails if it has none; the others have no retry.
AfterConnectionError ==
    CASE runner.kind = "job" -> End("internal")
      [] runner.kind = "wait" /\ conn >= RetryLimit -> End("internal")
      [] runner.kind = "wait" /\ conn < RetryLimit /\ seen -> Goto("poll")
      [] OTHER -> End("error")

PollUnreachable ==
    /\ pc = "poll"
    /\ conn' = conn + 1
    /\ AfterConnectionError
    /\ UNCHANGED <<component, argv, accepted, name, seen, file, filled, crashes, remote>>

-----------------------------------------------------------------------------
(* After the poll: verify the result, read the rows, fill the artifacts.   *)

\* update_output_artifacts skips a name that is not an output of the component.
Fill(as) == {<<a, name>> : a \in as \cap component.outputs}

Finish ==
    /\ pc = "finish"
    /\ \/ /\ \E present \in SUBSET runner.mayWrite :
                 filled' = Fill(runner.writes \cup present)
          /\ End("ok")
       \/ /\ runner.verifies \/ ~Creates
          /\ \E e \in {"error", Raise("runtime")} : End(e)
          /\ UNCHANGED filled
    /\ UNCHANGED <<component, argv, accepted, name, seen, conn, file, crashes, remote>>

-----------------------------------------------------------------------------
(* SIGTERM, preemption and restart.                                        *)

\* The name of a job that was created and not written yet is lost.
Forget == lost' = lost \cup (IF pc \in {"open", "write"} /\ Creates THEN {name} ELSE {})

\* The handler is installed while the job is polled: it sends the cancel request,
\* which may fail, and leaves.  Anywhere else the process just dies.
SigTerm ==
    /\ exit = "none"
    /\ pc # "down"
    /\ IF pc = "poll"
         THEN \/ asked' = asked \cup {name} /\ End("cancelled")
              \/ UNCHANGED asked /\ \E e \in {"error", Raise("runtime")} : End(e)
         ELSE UNCHANGED asked /\ End("killed")
    /\ Forget
    /\ UNCHANGED <<component, argv, accepted, name, seen, conn, file, filled, crashes, jobs>>

Crash ==
    /\ exit = "none"
    /\ pc # "down"
    /\ crashes < MaxCrashes
    /\ crashes' = crashes + 1
    /\ Goto("down")
    /\ Forget
    /\ UNCHANGED <<component, argv, accepted, name, seen, conn, file, filled, jobs, asked>>

Restart ==
    /\ pc = "down"
    /\ Goto("main")
    /\ name' = NoJob
    /\ seen' = FALSE
    /\ conn' = 0
    /\ UNCHANGED <<component, argv, accepted, file, filled, crashes, remote>>

-----------------------------------------------------------------------------
(* The remote service.                                                     *)

JobEnds(j) ==
    /\ jobs[j] = "running"
    /\ \E s \in {"succeeded", "failed", "user_failed"} \cup
                 (IF j \in asked THEN {"cancelled"} ELSE {}) :
           jobs' = [jobs EXCEPT ![j] = s]
    /\ UNCHANGED <<launcher, asked, lost>>

\* The steps of a launcher whose requests are answered.
Advance ==
    \/ Main \/ Resume \/ Begin \/ Ask \/ CreateRemote \/ OpenFile \/ WriteFile
    \/ PollSucceeded \/ PollFailed \/ PollRunning \/ Finish

Next ==
    \/ Advance
    \/ CreateLost \/ CreateRefused \/ PollRefused \/ PollUnreachable
    \/ SigTerm \/ Crash \/ Restart
    \/ \E j \in JobIds : JobEnds(j)

Spec == Init /\ [][Next]_vars

\* The launcher runs, without counting on a request that fails; a preempted
\* container is restarted; a remote job ends.
FairSpec ==
    /\ Spec
    /\ WF_vars(Advance)
    /\ WF_vars(Restart)
    /\ \A j \in JobIds : WF_vars(JobEnds(j))

-----------------------------------------------------------------------------
\* Every variable has its type.
TypeOK ==
    /\ component \in Components
    /\ accepted \in BOOLEAN
    /\ pc \in Places
    /\ name \in JobIds \cup {NoJob}
    /\ seen \in BOOLEAN
    /\ conn \in 0..RetryLimit + 1
    /\ file \in JobIds \cup {"absent", "empty"}
    /\ exit \in Exits
    /\ crashes \in 0..MaxCrashes
    /\ jobs \in [JobIds -> JobStates]
    /\ asked \subseteq JobIds
    /\ lost \subseteq JobIds

\* The command line of every component, with or without its optional inputs, is one
\* that its entry point parses, with the job type it expects, and that fits the
\* parameters of the runner (launcher.py: main calls the runner with **parsed_args).
StartsRunner == exit \notin {"usage", "mismatch"}

\* A launcher that resumes leaves no job behind unknowingly: every job it ever
\* created is the one gcp_resources names, the one it is about to write there, or
\* one whose name was lost between its creation and the end of the write
\* (check_if_job_exists, create_job).
JobsAccountedFor ==
    Resumes => Started \subseteq lost \cup {file} \cup (IF pc \in {"open", "write"} THEN {name} ELSE {})

\* A launcher that waits for its job and exits with success names in gcp_resources a
\* job that succeeded, and every artifact it always fills is an output of the
\* component and describes that job, whatever restarts came before (poll_job,
\* update_output_artifacts).
ReportsTheJob ==
    (exit = "ok" /\ Polls) =>
        /\ file = name
        /\ jobs[name] = "succeeded"
        /\ \A a \in runner.writes : <<a, name>> \in filled

\* Once the file of a resuming launcher names a job, no attempt creates another or
\* renames it (check_if_job_exists: "Continue polling the status").
NoSecondJob ==
    [][Resumes /\ file \in JobIds =>
         file' = file /\ \A j \in JobIds : jobs[j] = "none" => jobs'[j] = "none"]_vars

\* The launcher ends: it polls no job forever that ends, and is not restarted forever.
LauncherEnds == <>(exit # "none")

=============================================================================
