---------------------------- MODULE AppLifecycle ----------------------------
(***************************************************************************)
(* The life of a server process: internal.NewApp, RunMigrations (with the  *)
(* transactions of LegacyMigration), App.Run with its HTTP server and job  *)
(* runner, the shutdown and App.Close, under a signal that can come at any *)
(* time, steps that fail, and a process that is killed and started again.  *)
(* Command-line processes migrate the same database meanwhile.             *)
(*                                                                         *)
(* Fiber is external: Serve takes connections from the listener,           *)
(* ShutdownWithContext closes a listener being served and waits for its    *)
(* requests, and does nothing for one that is not served yet.              *)
(***************************************************************************)
EXTENDS LegacyMigration

CONSTANTS
  Server,      \* the server process, one of Processes
  Requests,    \* HTTP requests
  MaxStarts,   \* bound: starts of the server
  MaxFaults    \* bound: failing steps and crashes

ASSUME LifecycleAssumption ==
  Server \in Processes /\ MaxStarts \in Nat /\ MaxFaults \in Nat

VARIABLES
  main,      \* the main goroutine: its step
  held,      \* what the process has acquired
  manager,   \* database.Manager: new, open or closed
  ctx,       \* contexts that are cancelled: signal, jobs, requests, deadline
  http,      \* the goroutine that serves the listener
  runner,    \* the goroutine of the job runner
  request,   \* each HTTP request
  result,    \* the error App.Run is going to return
  starts, faults

appVars == <<main, held, manager, ctx, http, runner, request, result, starts, faults>>
vars == <<migrationVars, appVars>>

Resources == {"listener", "logger", "defaultLogger", "requestRoot"}
NewAppSteps == <<"listen", "storage", "connect", "server">>
NoRequest == [state |-> "none", late |-> FALSE]

Init ==
  /\ MigrationInit
  /\ main = "off"
  /\ held = {}
  /\ manager = "new"
  /\ ctx = {}
  /\ http = "none"
  /\ runner = "none"
  /\ request = [r \in Requests |-> NoRequest]
  /\ result = {}
  /\ starts = 0
  /\ faults = 0

Cancelled(context) == context \in ctx
Goto(from, to) == main = from /\ main' = to
Fault == faults < MaxFaults /\ faults' = faults + 1
Working == {r \in Requests : request[r].state = "active"}
\* The context of the jobs descends from that of the signal.
JobsCancelled == ctx \cap {"signal", "jobs"} # {}
RunnerAlive == runner \notin {"none", "done"}

(***************************************************************************)
(* runServer and NewApp.                                                   *)
(***************************************************************************)
Start ==
  /\ starts < MaxStarts
  /\ Goto("off", "listen")
  /\ starts' = starts + 1
  /\ UNCHANGED <<migrationVars, held, manager, ctx, http, runner, request, result, faults>>

\* What each step of NewApp acquires.
Acquires == [listen |-> {"listener"}, storage |-> {"logger"}, connect |-> {},
             server |-> {"requestRoot", "defaultLogger"}]

NewApp ==
  \E i \in DOMAIN NewAppSteps :
    /\ Goto(NewAppSteps[i], IF i < Len(NewAppSteps) THEN NewAppSteps[i + 1] ELSE "started")
    /\ held' = held \cup Acquires[NewAppSteps[i]]
    /\ manager' = IF main = "connect" THEN "open" ELSE manager
    /\ UNCHANGED <<migrationVars, ctx, http, runner, request, result, starts, faults>>

\* Mutant: the listener is forgotten when a later step fails.
NewAppFails_KeepsListener ==
  /\ main \in Range(NewAppSteps)
  /\ Fault
  /\ main' = "exited"
  /\ held' = held \cap {"listener"}
  /\ manager' = IF main \in {"connect", "server"} THEN "closed" ELSE manager
  /\ result' = {"failed"}
  /\ UNCHANGED <<migrationVars, ctx, http, runner, request, starts>>

\* A step fails: the deferred functions give back what is held, the last first.
NewAppFails ==
  /\ main \in Range(NewAppSteps)
  /\ Fault
  /\ main' = "exited"
  /\ held' = {}
  /\ manager' = IF main \in {"connect", "server"} THEN "closed" ELSE manager
  /\ result' = {"failed"}
  /\ UNCHANGED <<migrationVars, ctx, http, runner, request, starts>>

\* A signal before the database is prepared ends the process without error.
PrepareOrStop ==
  /\ Goto("started", IF Cancelled("signal") THEN "close" ELSE "migrate")
  /\ UNCHANGED <<migrationVars, held, manager, ctx, http, runner, request, result, starts, faults>>

(***************************************************************************)
(* RunMigrations.                                                          *)
(***************************************************************************)
MigrateServer ==
  /\ main = "migrate"
  /\ ~Cancelled("signal")
  /\ Migrate(Server)
  /\ UNCHANGED <<main, held, manager, ctx, http, runner, request, result, starts, faults>>

\* Mutant: a failed preparation does not keep the server from serving.
PreparationFails_Ignored ==
  /\ main \in {"migrate", "recover", "account"}
  /\ \/ Cancelled("signal") /\ UNCHANGED faults
     \/ ~Cancelled("signal") /\ Fault
  /\ main' = "run"
  /\ UNCHANGED <<migrationVars, held, manager, ctx, http, runner, request, result, starts>>

\* A statement fails, of itself or because the context is cancelled; the
\* latter is no error.
PreparationFails ==
  /\ main \in {"migrate", "recover", "account"}
  /\ \/ Cancelled("signal") /\ UNCHANGED <<faults, result>>
     \/ ~Cancelled("signal") /\ Fault /\ result' = {"failed"}
  /\ main' = "close"
  /\ UNCHANGED <<migrationVars, held, manager, ctx, http, runner, request, starts>>

\* RecoverUploadDeletions after the migration, EnsureAdmin after that.
Prepare ==
  /\ \/ Goto("migrate", "recover") /\ mig[Server].pc = "done"
     \/ Goto("recover", "account")
     \/ Goto("account", "checkpoint")
  /\ UNCHANGED <<migrationVars, held, manager, ctx, http, runner, request, result, starts, faults>>

\* A last look at the context; a checkpoint that fails is only logged.
CheckpointPrepared ==
  /\ Goto("checkpoint", IF Cancelled("signal") THEN "close" ELSE "run")
  /\ UNCHANGED <<migrationVars, held, manager, ctx, http, runner, request, result, starts, faults>>

\* serve --seed ends here; an error counts unless the context is cancelled.
Seed ==
  /\ Goto("run", "close")
  /\ \/ UNCHANGED <<result, faults>>
     \/ ~Cancelled("signal") /\ Fault /\ result' = {"failed"}
  /\ UNCHANGED <<migrationVars, held, manager, ctx, http, runner, request, starts>>

(***************************************************************************)
(* App.Run: the goroutines, and the wait for a signal or the server's end. *)
(***************************************************************************)
RunApp ==
  /\ Goto("run", "wait")
  /\ http' = "spawned"
  /\ runner' = "spawned"
  /\ UNCHANGED <<migrationVars, held, manager, ctx, request, result, starts, faults>>

Wake ==
  /\ \/ Cancelled("signal") /\ UNCHANGED result
     \/ http = "stopped" /\ result' = result \cup {"failed"}
  /\ Goto("wait", "shutdown")
  /\ ctx' = ctx \cup {"jobs", "requests"}
  /\ UNCHANGED <<migrationVars, held, manager, http, runner, request, starts, faults>>

\* Mutant: the shutdown does not wait for the requests.
ShutdownHTTP_NoWait ==
  /\ main = "shutdown"
  /\ Goto("shutdown", "jobs")
  /\ http' = IF http = "serving" THEN "stopped" ELSE http
  /\ UNCHANGED <<migrationVars, held, manager, ctx, runner, request, result, starts, faults>>

\* The shutdown of the server closes a served listener first ...
CloseListener ==
  /\ main = "shutdown" /\ http = "serving"
  /\ http' = "stopped"
  /\ held' = held \ {"listener"}
  /\ UNCHANGED <<migrationVars, main, manager, ctx, runner, request, result, starts, faults>>

\* ... and returns when the requests have ended, at the deadline, or at once
\* when nothing is served.
ShutdownHTTP ==
  /\ \/ http = "spawned" /\ UNCHANGED result
     \/ http = "stopped" /\ Working = {} /\ UNCHANGED result
     \/ http = "stopped" /\ Working # {} /\ Cancelled("deadline")
        /\ result' = result \cup {"timeout"}
  /\ Goto("shutdown", "jobs")
  /\ UNCHANGED <<migrationVars, held, manager, ctx, http, runner, request, starts, faults>>

\* Mutant: the job runner is waited for without a limit.
AwaitJobs_Unlimited ==
  /\ ~RunnerAlive
  /\ Goto("jobs", "truncate")
  /\ UNCHANGED <<migrationVars, held, manager, ctx, http, runner, request, result, starts, faults>>

\* The select takes either answer when both are there.
AwaitJobs ==
  /\ \/ ~RunnerAlive /\ UNCHANGED result
     \/ Cancelled("deadline") /\ result' = result \cup {"timeout"}
  /\ Goto("jobs", "truncate")
  /\ UNCHANGED <<migrationVars, held, manager, ctx, http, runner, request, starts, faults>>

CheckpointWAL ==
  /\ Goto("truncate", "release")
  /\ \/ UNCHANGED <<result, faults>>
     \/ Fault /\ result' = result \cup {"failed"}
  /\ UNCHANGED <<migrationVars, held, manager, ctx, http, runner, request, starts>>

\* The deferred close of the listener ends a Serve that came late.
ReleaseListener ==
  /\ Goto("release", "close")
  /\ held' = held \ {"listener"}
  /\ http' = IF http \in {"spawned", "serving"} THEN "stopped" ELSE http
  /\ UNCHANGED <<migrationVars, manager, ctx, runner, request, result, starts, faults>>

\* App.Close: of Run, and once more of runServer, which finds nothing left.
Close ==
  /\ main = "close"
  /\ main' = "exited"
  /\ held' = {}
  /\ manager' = "closed"
  /\ ctx' = ctx \cup {"requests"}
  /\ UNCHANGED <<migrationVars, http, runner, request, result, starts, faults>>

(***************************************************************************)
(* The goroutines.                                                         *)
(***************************************************************************)
Serve ==
  /\ http = "spawned"
  /\ http' = IF "listener" \in held THEN "serving" ELSE "stopped"
  /\ UNCHANGED <<migrationVars, main, held, manager, ctx, runner, request, result, starts, faults>>

\* The server stops by itself.
ServeFails ==
  /\ http = "serving" /\ main = "wait"
  /\ Fault
  /\ http' = "stopped"
  /\ UNCHANGED <<migrationVars, main, held, manager, ctx, runner, request, result, starts>>

\* Its context descends from the request root; late: it is cancelled already.
Arrive(r) ==
  /\ http = "serving" /\ request[r].state = "none"
  /\ request' = [request EXCEPT ![r] = [state |-> "active", late |-> Cancelled("requests")]]
  /\ UNCHANGED <<migrationVars, main, held, manager, ctx, http, runner, result, starts, faults>>

HandlerEnds(r) ==
  /\ r \in Working
  /\ request' = [request EXCEPT ![r].state = "answered"]
  /\ UNCHANGED <<migrationVars, main, held, manager, ctx, http, runner, result, starts, faults>>

\* Runner.Run: its context is looked at before each processor and in the wait;
\* the processors of one tick are one batch.
Run ==
  /\ \/ runner \in {"spawned", "waiting"} /\ ~JobsCancelled /\ runner' = "batch"
     \/ runner \in {"spawned", "waiting"} /\ JobsCancelled /\ runner' = "done"
     \/ runner = "batch" /\ runner' = "waiting"
  /\ UNCHANGED <<migrationVars, main, held, manager, ctx, http, request, result, starts, faults>>

(***************************************************************************)
(* The surroundings.                                                       *)
(***************************************************************************)
Signal ==
  /\ main \notin {"off", "exited"} /\ ~Cancelled("signal")
  /\ ctx' = ctx \cup {"signal"}
  /\ UNCHANGED <<migrationVars, main, held, manager, http, runner, request, result, starts, faults>>

Deadline ==
  /\ main \in {"shutdown", "jobs"} /\ ~Cancelled("deadline")
  /\ ctx' = ctx \cup {"deadline"}
  /\ UNCHANGED <<migrationVars, main, held, manager, http, runner, request, result, starts, faults>>

Reset ==
  /\ main' = "off"
  /\ held' = {} /\ manager' = "new" /\ ctx' = {}
  /\ http' = "none" /\ runner' = "none"
  /\ request' = [r \in Requests |-> NoRequest]
  /\ result' = {}
  /\ mig' = [mig EXCEPT ![Server] = NoMigration]
  /\ UNCHANGED <<tables, edited, changed, legacy, starts>>

\* The process is killed: the system takes back what it held.
Crash == main \notin {"off", "exited"} /\ Fault /\ Reset

\* The process is gone, and with it the goroutines it did not wait for.
Gone == main = "exited" /\ starts < MaxStarts /\ Reset /\ UNCHANGED faults

CommandLine ==
  /\ \E p \in Processes \ {Server} : Migrate(p) \/ StopMigrating(p)
  /\ UNCHANGED appVars

\* The administrator acts in a request whose context is in force (requestDB)
\* or by a command.
Administer ==
  /\ \/ \E r \in Working : ~Cancelled("requests") /\ manager = "open"
     \/ \E p \in Processes \ {Server} : mig[p].pc = "done"
  /\ Administrator
  /\ UNCHANGED appVars

\* The end: the process has exited for the last time.
Finished == main = "exited" /\ starts = MaxStarts /\ UNCHANGED vars

MainStep ==
  \/ NewApp \/ PrepareOrStop \/ MigrateServer \/ Prepare \/ CheckpointPrepared \/ RunApp
  \/ Wake \/ CloseListener \/ ShutdownHTTP \/ AwaitJobs \/ CheckpointWAL
  \/ ReleaseListener \/ Close
  \/ PreparationFails /\ Cancelled("signal")

Next ==
  \/ Start \/ MainStep \/ NewAppFails \/ PreparationFails \/ Seed
  \/ Serve \/ ServeFails \/ Run
  \/ \E r \in Requests : Arrive(r) \/ HandlerEnds(r)
  \/ Signal \/ Deadline \/ Crash \/ Gone \/ CommandLine \/ Administer \/ Finished

\* The main goroutine goes on while it can, and timers fire.  Nothing is
\* assumed of the job runner, the handlers or other processes.
Fairness == WF_vars(MainStep) /\ WF_vars(Deadline)

Spec == Init /\ [][Next]_vars /\ Fairness

(***************************************************************************)
(* Properties.                                                             *)
(***************************************************************************)
TypeOK ==
  /\ MigrationTypeOK
  /\ held \subseteq Resources
  /\ manager \in {"new", "open", "closed"}
  /\ ctx \subseteq {"signal", "jobs", "requests", "deadline"}
  /\ http \in {"none", "spawned", "serving", "stopped"}
  /\ runner \in {"none", "spawned", "batch", "waiting", "done"}
  /\ request \in [Requests -> [state : {"none", "active", "answered"}, late : BOOLEAN]]
  /\ result \subseteq {"failed", "timeout"}
  /\ starts \in 0 .. MaxStarts /\ faults \in 0 .. MaxFaults

\* Whatever step of the start, the service or the shutdown was the last, the
\* process gives back its listener, loggers and request contexts and closes
\* the database (app.go:55-100, 201: "defer ... resultErr != nil").
ReleasedAtExit == main = "exited" => held = {} /\ manager # "open"

\* "cancel jobs and request contexts, ... wait within the environment-specific
\* deadline, ... close the database" (docs/architecture.md:32): unless the
\* deadline passed, no processor and no request admitted before the shutdown
\* meets a closed database.
DatabaseOutlivesWork ==
  manager = "closed" /\ "timeout" \notin result =>
    ~RunnerAlive /\ \A r \in Working : request[r].late

\* "Startup fails before serving if ... migrations, or initial account cannot
\* be prepared" (docs/architecture.md:30): requests and jobs meet a database
\* with the whole schema and a record for every form.
ServesPrepared ==
  Working # {} \/ RunnerAlive =>
    hooks = Forms /\ {"site_key", "password_change_required"} \subseteq columns

\* A stop that was asked for is not an error, at whatever step it comes
\* (main.go:196: "if ctx.Err() != nil { return nil }").
SignalIsNoError == main = "exited" /\ faults = 0 => "failed" \notin result

\* Types, and how the process ends: with nothing held, and without an error
\* when it was asked to stop.
Inv == TypeOK /\ ReleasedAtExit /\ SignalIsNoError

\* The shutdown timeout bounds every wait: a signalled process ends although
\* handlers and processors may never return (app.go:181-192).
SignalStops == Cancelled("signal") ~> main \in {"exited", "off"}
=============================================================================
