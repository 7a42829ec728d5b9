------------------------------ MODULE Sandbox ------------------------------
(***************************************************************************)
(* One sandboxed inference at a time: run_inference of engine/sandbox/     *)
(* runner.py with the job it runs (engine/sandbox/job.py), directly or     *)
(* through the runner service (services/runner_client.py, runner/main.py). *)
(*                                                                         *)
(* The caller is the worker; the executor is whoever holds the container   *)
(* socket: the worker itself, or a handler of the runner service.  A       *)
(* handler whose client gave up goes on until its job ends.  The daemon    *)
(* may fail any call of the executor, done or not done.                    *)
(***************************************************************************)
EXTENDS Naturals, FiniteSets

VARIABLES setting,    \* how the deployment runs jobs, fixed
          call,       \* the caller: "none", "asked", or "waiting" for the service
          answer,     \* what run_inference returned or raised
          executor,   \* "idle", "gate", "running", "collecting", "answering"
          container,  \* the executor's job: "none", "docker" or "process" while it
                      \* runs, "exited" until its container is removed
          left,       \* containers nobody will remove: "stopped", "running"
          outcome     \* how the executor's job ended

sandboxVars == <<setting, call, answer, executor, container, left, outcome>>

\* remote: HARNESS_RUNNER_URL is set.  mode: sandbox_mode() of the executor.
\* tokens: whether the worker presents the runner's HARNESS_RUNNER_TOKEN.
\* safe: whether the framework's adapter runs repository code only.
Settings == [remote : BOOLEAN, mode : {"docker", "subprocess"}, tokens : BOOLEAN,
             safe : BOOLEAN, allowUnsandboxed : BOOLEAN]

\* A SandboxError, any other exception, the adapter's error, or predictions.
Answers == {"sandbox_error", "error", "adapter_error", "output"}

SandboxInit ==
  /\ setting \in Settings /\ (setting.tokens => setting.remote)
  /\ call = "none" /\ answer = "none"
  /\ executor = "idle" /\ container = "none" /\ left = {} /\ outcome = "none"

-----------------------------------------------------------------------------
(* The caller                                                              *)

\* Either run_remote posts the request or the worker executes it itself.  A
\* handler of an abandoned request does not stop the service from serving.
Ask ==
  /\ call = "none" /\ executor = "idle"
  /\ call' = IF setting.remote THEN "asked" ELSE "waiting"
  /\ executor' = IF setting.remote THEN executor ELSE "gate"
  /\ answer' = "none"
  /\ UNCHANGED <<setting, container, left, outcome>>

Raises(what) == call' = "none" /\ answer' = what

\* _authorize, and the lifespan that refuses to start without a token
Authorize ==
  /\ call = "asked" /\ setting.tokens
  /\ call' = "waiting" /\ executor' = "gate"
  /\ UNCHANGED <<setting, answer, container, left, outcome>>

\* Unreachable service, or a status other than 200: 401, 503.
RequestFails ==
  /\ call = "asked"
  /\ Raises("sandbox_error")
  /\ UNCHANGED <<setting, executor, container, left, outcome>>

\* httpx gives up (HARNESS_RUNNER_HTTP_TIMEOUT may be below the job's wall
\* clock), or the connection breaks, while the handler goes on.
ClientGivesUp ==
  /\ setting.remote /\ call = "waiting"
  /\ Raises("sandbox_error")
  /\ UNCHANGED <<setting, executor, container, left, outcome>>

-----------------------------------------------------------------------------
(* The executor: run_inference with no runner URL                          *)

\* _SUBPROCESS_SAFE_FRAMEWORKS: the subprocess cannot contain untrusted weights.
SubprocessMayRun == setting.safe \/ setting.allowUnsandboxed

Ends(what) == executor' = "answering" /\ outcome' = what

\* The framework gate, then the path allowlist (paths outside it raise
\* SandboxError).
StartJob ==
  /\ executor = "gate"
  /\ \/ /\ setting.mode = "docker" \/ SubprocessMayRun
        /\ executor' = "running"
        /\ container' = IF setting.mode = "docker" THEN "docker" ELSE "process"
        /\ UNCHANGED outcome
     \/ Ends("sandbox_error") /\ UNCHANGED container
  /\ UNCHANGED <<setting, call, answer, left>>

\* containers.run creates the container, then starts it, outside the try whose
\* finally removes it: what the daemon has made when it raises is left behind.
StartRaises ==
  /\ executor = "gate" /\ setting.mode = "docker"
  /\ \E made \in {{}, {"stopped"}, {"running"}} : left' = left \cup made
  /\ Ends("sandbox_error")
  /\ UNCHANGED <<setting, call, answer, container>>

\* job.main: the exit codes 0 (predictions written) and 3 (the adapter's error
\* written); any other code, an egress violation or a crash included; a model
\* that ends the process early leaves no result.json, or a torn one.
JobExits ==
  /\ executor = "running"
  /\ \E what \in Answers : outcome' = what
  /\ executor' = "collecting"
  /\ container' = IF container = "docker" THEN "exited" ELSE "none"
  /\ UNCHANGED <<setting, call, answer, left>>

\* mutant: subprocess.run without a timeout
DockerTimesOut ==
  /\ executor = "running" /\ container = "docker"
  /\ outcome' = "sandbox_error" /\ executor' = "collecting"
  /\ UNCHANGED <<setting, call, answer, container, left>>

\* TIMEOUT_S: wait(timeout) raises, while the container runs on, or
\* subprocess.run kills the job.
JobTimesOut ==
  /\ executor = "running"
  /\ outcome' = "sandbox_error" /\ executor' = "collecting"
  /\ container' = IF container = "docker" THEN "docker" ELSE "none"
  /\ UNCHANGED <<setting, call, answer, left>>

\* mutant: the container is removed on the way of success only
CollectRemovingOnSuccess ==
  /\ executor = "collecting"
  /\ executor' = "answering"
  /\ container' = IF outcome = "sandbox_error" THEN container ELSE "none"
  /\ UNCHANGED <<setting, call, answer, left, outcome>>

\* The finally clause removes the container by force, then _read_result.
Collect ==
  /\ executor = "collecting"
  /\ executor' = "answering"
  /\ container' = "none"
  /\ UNCHANGED <<setting, call, answer, left, outcome>>

\* container.remove raises, which the code swallows.
RemoveFails ==
  /\ executor = "collecting" /\ container \in {"docker", "exited"}
  /\ executor' = "answering" /\ container' = "none"
  /\ left' = left \cup {IF container = "docker" THEN "running" ELSE "stopped"}
  /\ UNCHANGED <<setting, call, answer, outcome>>

\* A job nobody waits for may end by itself (one evaluation leaves at most one).
StrayExits ==
  /\ "running" \in left
  /\ left' = {"stopped"}
  /\ UNCHANGED <<setting, call, answer, executor, container, outcome>>

\* mutant: the service's failure reaches the caller as it is
AsSeenRaw(what) == IF setting.remote /\ what = "error" THEN "500" ELSE what

\* The service answers 200 with the result, or 502 / 500, which the client
\* turns into a SandboxError; an answer nobody waits for is dropped.
AsSeen(what) == IF setting.remote /\ what = "error" THEN "sandbox_error" ELSE what

Deliver ==
  /\ executor = "answering"
  /\ executor' = "idle" /\ outcome' = "none"
  /\ IF call = "waiting" THEN Raises(AsSeen(outcome)) ELSE UNCHANGED <<call, answer>>
  /\ UNCHANGED <<setting, container, left>>

-----------------------------------------------------------------------------
SandboxStep ==
  \/ Authorize \/ RequestFails \/ ClientGivesUp
  \/ StartJob \/ StartRaises \/ JobExits \/ JobTimesOut \/ Collect \/ RemoveFails
  \/ Deliver \/ StrayExits
=============================================================================
