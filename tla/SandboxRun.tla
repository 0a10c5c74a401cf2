----------------------------- MODULE SandboxRun -----------------------------
(***************************************************************************)
(* Jobs that run in a container: the sandboxed reviews of the daemon       *)
(* (run_sandboxed_review) and the phases of the issue worker (sandbox, in  *)
(* issues/worker.rs).  The host gives each a root directory, a subnet out  *)
(* of a small pool shared by all, and a model broker of its own, through   *)
(* which every model request of the sandbox goes.  The broker checks the   *)
(* budget when a request comes and charges it when its answer has been     *)
(* streamed; a request that carries a secret quarantines the job.          *)
(***************************************************************************)
EXTENDS Integers, FiniteSets

CONSTANTS Jobs,
          Connections,  \* requests the sandboxes have under way at once, at most
          MaxIndex,     \* VETH_SUBNET_MAX_INDEX
          Limit,        \* max_cost_usd
          MaxCharge,    \* the cost of one request, at most
          None

ASSUME SandboxAssumption ==
    /\ MaxIndex \in Nat \ {0} /\ Limit \in Nat \ {0} /\ MaxCharge \in Nat
    /\ IsFiniteSet(Connections) /\ None \notin Nat \cup Jobs

VARIABLES job,        \* where the host is with a job
          root,       \* its root directory exists
          subnet,     \* its SandboxVethReservation
          active,     \* ACTIVE_VETH_SUBNETS
          sandbox,    \* the container
          status,     \* how the container ended
          broker,     \* the listeners of the broker
          quarantine, \* Shared.quarantine
          ledger,     \* Shared.ledger, its cost
          report,     \* the BrokerReport
          late,       \* requests were under way when the report was taken
          req,        \* the requests under way
          leaked,     \* secrets that were in a request read by a broker
          result,     \* what the caller of the host function gets
          stopped     \* the daemon shuts down

hostVars   == <<job, root, subnet, active, sandbox, status, result, stopped>>
brokerVars == <<broker, quarantine, ledger, report, late, req, leaked>>
vars == <<hostVars, brokerVars>>

Indexes == 1..MaxIndex

Phases == {"idle", "rooted", "reserved", "brokered", "spawned", "running", "finishing", "ended"}

TypeOK ==
    /\ job \in [Jobs -> Phases]
    /\ root \in [Jobs -> BOOLEAN]
    /\ subnet \in [Jobs -> Indexes \cup {None}]
    /\ active \subseteq Indexes
    /\ sandbox \in [Jobs -> {"none", "alive", "killed", "gone"}]
    /\ status \in [Jobs -> {"none", "success", "failure"}]
    /\ broker \in [Jobs -> {"none", "open", "closing", "closed"}]
    /\ quarantine \in [Jobs -> BOOLEAN]
    /\ ledger \in [Jobs -> Nat]
    /\ report \in [Jobs -> Nat \cup {None}]
    /\ late \in [Jobs -> BOOLEAN]
    /\ req \in [Connections -> [pc : {"free", "reading", "sending", "streaming"},
                                job : Jobs \cup {None}]]
    /\ leaked \in [Jobs -> BOOLEAN]
    /\ result \in [Jobs -> {"none", "outcome", "failed", "dropped"}]
    /\ stopped \in BOOLEAN

Free == [pc |-> "free", job |-> None]

Init ==
    /\ job = [j \in Jobs |-> "idle"]
    /\ root = [j \in Jobs |-> FALSE]
    /\ subnet = [j \in Jobs |-> None]
    /\ active = {}
    /\ sandbox = [j \in Jobs |-> "none"]
    /\ status = [j \in Jobs |-> "none"]
    /\ broker = [j \in Jobs |-> "none"]
    /\ quarantine = [j \in Jobs |-> FALSE]
    /\ ledger = [j \in Jobs |-> 0]
    /\ report = [j \in Jobs |-> None]
    /\ late = [j \in Jobs |-> FALSE]
    /\ req = [c \in Connections |-> Free]
    /\ leaked = [j \in Jobs |-> FALSE]
    /\ result = [j \in Jobs |-> "none"]
    /\ stopped = FALSE

UnderWay(j) == {c \in Connections : req[c].job = j}

-----------------------------------------------------------------------------
(* The host starts a job. *)

(* The template is copied; what an earlier run left is removed before.     *)
PrepareRoot(j) ==
    /\ job[j] = "idle" /\ ~stopped
    /\ job' = [job EXCEPT ![j] = "rooted"]
    /\ root' = [root EXCEPT ![j] = TRUE]
    /\ UNCHANGED <<subnet, active, sandbox, status, result, stopped, brokerVars>>

(* Linear probing from an index the name of the machine hashes to.         *)
Probe(start, offset) == 1 + ((start - 1 + offset) % MaxIndex)

(* Mutant: the index is taken without looking. *)
FirstFreeBlind(start, used) == start

FirstFree(start, used) ==
    LET k == CHOOSE o \in 0..(MaxIndex - 1) :
                /\ Probe(start, o) \notin used
                /\ \A p \in 0..(o - 1) : Probe(start, p) \in used
    IN Probe(start, k)

Reserve(j) ==
    /\ job[j] = "rooted" /\ ~(Indexes \subseteq active)
    /\ \E start \in Indexes :
         LET i == FirstFree(start, active) IN
         /\ subnet' = [subnet EXCEPT ![j] = i]
         /\ active' = active \cup {i}
    /\ job' = [job EXCEPT ![j] = "reserved"]
    /\ UNCHANGED <<root, sandbox, status, result, stopped, brokerVars>>

(* A listener for each route, with secrets of its own to look for.         *)
Listening(j) == [broker EXCEPT ![j] = "open"]

(* Whether the models of a job are of providers the broker has routes for. *)
Routed == BOOLEAN

(* The inputs are staged, the canary is planted, and the broker listens if *)
(* it has a route for a model of the job.                                  *)
StartBroker(j) ==
    /\ job[j] = "reserved"
    /\ job' = [job EXCEPT ![j] = "brokered"]
    /\ \E routed \in Routed : broker' = IF routed THEN Listening(j) ELSE broker
    /\ UNCHANGED <<root, subnet, active, sandbox, status, result, stopped,
                   quarantine, ledger, report, late, req, leaked>>

Spawn(j) ==
    /\ job[j] = "brokered"
    /\ job' = [job EXCEPT ![j] = "spawned"]
    /\ sandbox' = [sandbox EXCEPT ![j] = "alive"]
    /\ UNCHANGED <<root, subnet, active, status, result, stopped, brokerVars>>

ConfigureVeth(j) ==
    /\ job[j] = "spawned"
    /\ job' = [job EXCEPT ![j] = "running"]
    /\ UNCHANGED <<root, subnet, active, sandbox, status, result, stopped, brokerVars>>

(* What a job holds is released when its function returns. *)
Release(j) ==
    /\ root' = [root EXCEPT ![j] = FALSE]
    /\ subnet' = [subnet EXCEPT ![j] = None]
    /\ active' = active \ {subnet[j]}

Closed(j) == [broker EXCEPT ![j] = IF @ \in {"open", "closing"} THEN "closed" ELSE @]

(* A step before the sandbox runs fails.  A container that was started is  *)
(* killed; the broker goes without a report.                               *)
SetupFails(j) ==
    /\ job[j] \in {"rooted", "reserved", "brokered", "spawned"}
    /\ job' = [job EXCEPT ![j] = "ended"]
    /\ result' = [result EXCEPT ![j] = "failed"]
    /\ sandbox' = [sandbox EXCEPT ![j] = IF @ = "alive" THEN "gone" ELSE @]
    /\ broker' = Closed(j)
    /\ Release(j)
    /\ UNCHANGED <<status, stopped, quarantine, ledger, report, late, req, leaked>>

-----------------------------------------------------------------------------
(* The sandbox ends. *)

Exit(j) ==
    /\ sandbox[j] = "alive" /\ job[j] = "running"
    /\ sandbox' = [sandbox EXCEPT ![j] = "gone"]
    /\ \E s \in {"success", "failure"} : status' = [status EXCEPT ![j] = s]
    /\ job' = [job EXCEPT ![j] = "finishing"]
    /\ broker' = [broker EXCEPT ![j] = IF @ = "open" THEN "closing" ELSE @]
    /\ UNCHANGED <<root, subnet, active, result, stopped, quarantine, ledger, report, late, req,
                   leaked>>

(* The hard timeout, or the cancellation of the job. *)
Kill(j) ==
    /\ sandbox[j] = "alive" /\ job[j] = "running"
    /\ sandbox' = [sandbox EXCEPT ![j] = "gone"]
    /\ status' = [status EXCEPT ![j] = "failure"]
    /\ job' = [job EXCEPT ![j] = "finishing"]
    /\ broker' = [broker EXCEPT ![j] = IF @ = "open" THEN "closing" ELSE @]
    /\ UNCHANGED <<root, subnet, active, result, stopped, quarantine, ledger, report, late, req,
                   leaked>>

(* A quarantined job fails whatever it reports; another succeeds if its    *)
(* result can be read and is one of the staged commit.                     *)
Outcomes(j) ==
    IF status[j] = "success" /\ ~quarantine[j] THEN {"outcome", "failed"} ELSE {"failed"}

(* What the broker counted until now. *)
Usage(j) == IF broker[j] = "none" THEN None ELSE ledger[j]

(* Mutant: the broker waits for every request. *)
FinishPatient(j) ==
    /\ job[j] = "finishing" /\ UnderWay(j) = {}
    /\ report' = [report EXCEPT ![j] = Usage(j)]
    /\ broker' = Closed(j)
    /\ late' = [late EXCEPT ![j] = UnderWay(j) # {}]
    /\ \E r \in Outcomes(j) : result' = [result EXCEPT ![j] = r]
    /\ job' = [job EXCEPT ![j] = "ended"]
    /\ Release(j)
    /\ UNCHANGED <<sandbox, status, stopped, quarantine, ledger, req, leaked>>

(* The listeners have stopped, or five seconds have passed: requests that  *)
(* are still under way then go on, and their broker's report is made.      *)
Finish(j) ==
    /\ job[j] = "finishing"
    /\ report' = [report EXCEPT ![j] = Usage(j)]
    /\ broker' = Closed(j)
    /\ late' = [late EXCEPT ![j] = UnderWay(j) # {}]
    /\ \E r \in Outcomes(j) : result' = [result EXCEPT ![j] = r]
    /\ job' = [job EXCEPT ![j] = "ended"]
    /\ Release(j)
    /\ UNCHANGED <<sandbox, status, stopped, quarantine, ledger, req, leaked>>

(* At shutdown the scheduler aborts its jobs, and their futures are        *)
(* dropped where they are: the container is killed and not waited for.     *)
Shutdown ==
    /\ ~stopped /\ stopped' = TRUE
    /\ LET cut == {j \in Jobs : job[j] \notin {"idle", "ended"}} IN
       /\ job' = [j \in Jobs |-> IF j \in cut THEN "ended" ELSE job[j]]
       /\ result' = [j \in Jobs |-> IF j \in cut THEN "dropped" ELSE result[j]]
       /\ root' = [j \in Jobs |-> FALSE]
       /\ subnet' = [j \in Jobs |-> None]
       /\ active' = {}
       /\ sandbox' = [j \in Jobs |-> IF sandbox[j] = "alive" THEN "killed" ELSE sandbox[j]]
       /\ broker' = [j \in Jobs |-> IF broker[j] = "none" THEN "none" ELSE "closed"]
    /\ UNCHANGED <<status, quarantine, ledger, report, late, req, leaked>>

Reaped(j) ==
    /\ sandbox[j] = "killed"
    /\ sandbox' = [sandbox EXCEPT ![j] = "gone"]
    /\ UNCHANGED <<job, root, subnet, active, status, result, stopped, brokerVars>>

-----------------------------------------------------------------------------
(* The broker (forward). *)

(* Mutant: the limit is only checked against what was reported. *)
MayStartUnmetered(j) == ~quarantine[j]

(* The checks made when a request comes, of its job's quarantine and       *)
(* budget among them.                                                      *)
MayStart(j) == ~quarantine[j] /\ ledger[j] < Limit

(* Requests come through the bridge in the container, to the sockets of    *)
(* the listeners.                                                          *)
Reaches(j) == sandbox[j] = "alive" /\ broker[j] = "open"

(* Mutant: connections in the backlog are served after the listeners stop. *)
AdmitBacklog(c, j) ==
    /\ req[c].pc = "free"
    /\ broker[j] # "none" /\ MayStart(j)
    /\ req' = [req EXCEPT ![c] = [pc |-> "reading", job |-> j]]
    /\ UNCHANGED <<hostVars, broker, quarantine, ledger, report, late, leaked>>

Admit(c, j) ==
    /\ req[c].pc = "free"
    /\ Reaches(j) /\ MayStart(j)
    /\ req' = [req EXCEPT ![c] = [pc |-> "reading", job |-> j]]
    /\ UNCHANGED <<hostVars, broker, quarantine, ledger, report, late, leaked>>

(* The body is there, with a secret in it. *)
FindCanary(c) ==
    /\ req[c].pc = "reading"
    /\ leaked' = [leaked EXCEPT ![req[c].job] = TRUE]
    /\ quarantine' = [quarantine EXCEPT ![req[c].job] = TRUE]
    /\ req' = [req EXCEPT ![c] = Free]
    /\ UNCHANGED <<hostVars, broker, ledger, report, late>>

(* It is well formed and names a model of the job. *)
Send(c) ==
    /\ req[c].pc = "reading"
    /\ req' = [req EXCEPT ![c].pc = "sending"]
    /\ UNCHANGED <<hostVars, broker, quarantine, ledger, report, late, leaked>>

(* It is refused, or the provider cannot be reached, or the connection to  *)
(* the sandbox ends and the handler with it: nothing is charged, whatever  *)
(* the provider has done by then.                                          *)
Drop(c) ==
    /\ req[c].pc \in {"reading", "sending"}
    /\ req' = [req EXCEPT ![c] = Free]
    /\ UNCHANGED <<hostVars, broker, quarantine, ledger, report, late, leaked>>

Respond(c) ==
    /\ req[c].pc = "sending"
    /\ req' = [req EXCEPT ![c].pc = "streaming"]
    /\ UNCHANGED <<hostVars, broker, quarantine, ledger, report, late, leaked>>

(* The usage an answer states, in the part of it that was seen: none if it *)
(* broke off before, is too large to be scanned, or its model has no price.*)
UsageSeen == 0..MaxCharge

(* The answer has been streamed, broke off, or was dropped: the usage seen *)
(* by then is charged.                                                     *)
Charge(c) ==
    /\ req[c].pc = "streaming"
    /\ \E cost \in UsageSeen : ledger' = [ledger EXCEPT ![req[c].job] = @ + cost]
    /\ req' = [req EXCEPT ![c] = Free]
    /\ UNCHANGED <<hostVars, broker, quarantine, report, late, leaked>>

-----------------------------------------------------------------------------
HostStep(j) ==
    \/ PrepareRoot(j) \/ Reserve(j) \/ StartBroker(j) \/ Spawn(j) \/ ConfigureVeth(j)
    \/ SetupFails(j) \/ Exit(j) \/ Kill(j) \/ Finish(j) \/ Reaped(j)

RequestStep(c) ==
    \/ \E j \in Jobs : Admit(c, j)
    \/ FindCanary(c) \/ Send(c) \/ Drop(c) \/ Respond(c) \/ Charge(c)

Next ==
    \/ \E j \in Jobs : HostStep(j)
    \/ \E c \in Connections : RequestStep(c)
    \/ Shutdown

Spec == Init /\ [][Next]_vars

(* The host's own steps are taken, and its timeouts expire. *)
HostGoesOn(j) ==
    \/ Reserve(j) \/ StartBroker(j) \/ Spawn(j) \/ ConfigureVeth(j) \/ SetupFails(j)
    \/ Kill(j) \/ Finish(j) \/ Reaped(j)

FairSpec == Spec /\ \A j \in Jobs : WF_vars(HostGoesOn(j))

-----------------------------------------------------------------------------
(* While a container runs it has its root directory, a subnet nobody else  *)
(* has, and its broker; the pool holds just the subnets of the jobs that   *)
(* have one, so that none is lost (daemon.rs:442, :488).                   *)
SandboxesAreApart ==
    /\ active = {subnet[j] : j \in Jobs} \ {None}
    /\ \A j, k \in Jobs : (j # k /\ subnet[j] # None) => subnet[j] # subnet[k]
    /\ \A j \in Jobs : sandbox[j] = "alive" =>
         root[j] /\ subnet[j] # None /\ broker[j] \in {"open", "none"}

(* The limit can be overshot by the requests that were under way when it   *)
(* was reached, and by no more (README.md:205, broker.rs:800).             *)
OvershootIsBounded ==
    \A j \in Jobs :
        LET n == Cardinality(Connections)
            m == Cardinality(UnderWay(j))
        IN ledger[j] >= Limit => ledger[j] + m * MaxCharge < Limit + n * MaxCharge

(* A job whose broker has read a secret in a request has no outcome,       *)
(* unless that request outlived the five seconds of the shutdown.          *)
SecretsFailTheJob ==
    \A j \in Jobs : (result[j] = "outcome" /\ leaked[j]) => late[j]

(* Unless it came late, nothing is charged after the report is made: the   *)
(* cost that is logged is what the broker saw (broker.rs:698).             *)
ReportIsFinal ==
    [][\A j \in Jobs : (report[j] # None /\ ~late[j]) => ledger'[j] = report[j]]_vars

(* Every job ends and gives its subnet back, whatever the sandbox and the  *)
(* provider do.                                                            *)
JobsEnd ==
    \A j \in Jobs : (job[j] # "idle") ~> (job[j] = "ended" /\ subnet[j] = None)
=============================================================================
