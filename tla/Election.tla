------------------------------- MODULE Election -------------------------------
(***************************************************************************)
(* Leader election of the connectors of one group: the scheduled election  *)
(* and the Prometheus liveness check (pkg/util/election.go), the start of  *)
(* an instance (cmd/timescale-prometheus/main.go) and the leader check of  *)
(* the write handler (pkg/api/write.go), over the lock of AdvisoryLock.    *)
(*                                                                         *)
(* Three goroutines of an instance call TryLock on their own: the ticker   *)
(* of the election, the ticker of the liveness check, and write handlers,  *)
(* of which one at a time is modelled since they differ in nothing.  What  *)
(* TryLock answers may be out of date when its caller acts on it.          *)
(***************************************************************************)
EXTENDS AdvisoryLock, Integers

CONSTANTS
    Sending,        \* the instances that get requests from a Prometheus
    Timeout,        \* cfg.prometheusTimeout; 0 starts no liveness check
    MaxTime         \* bound on the clock

ASSUME TimeAssumption == Timeout \in Nat /\ MaxTime \in Nat /\ Sending \subseteq Instances

VARIABLES
    now,            \* the clock
    proc,           \* where main is
    ticker,         \* scheduledElection: waiting, in IsLeader, in BecomeLeader
    check,          \* the liveness goroutine: waiting, in IsLeader, then on
    write,          \* a write handler: none, or past its leader check
    paused,         \* se.pausedScheduledElection
    elapsed,        \* local to PrometheusLivenessCheck, 0 after its last use
    lastRequest,    \* lastRequestUnixNano, which the liveness check reads
    metricsLast     \* metrics.LastRequestUnixNano, which the handler sets

procVars == <<proc, ticker, check, write, paused, elapsed, lastRequest, metricsLast>>
vars == <<lockVars, procVars, now>>

TypeOK ==
    /\ LockTypeOK
    /\ now \in 0 .. MaxTime
    /\ proc \in [Instances -> {"down", "started", "migrating", "up"}]
    /\ ticker \in [Instances -> {"idle", "check", "become"}]
    /\ check \in [Instances -> {"idle", "check", "pause", "resign"}]
    /\ write \in [Instances -> {"idle", "body"}]
    /\ paused \in [Instances -> BOOLEAN]
    /\ elapsed \in [Instances -> 0 .. MaxTime]
    /\ lastRequest \in [Instances -> 0 .. MaxTime]
    /\ metricsLast \in [Instances -> 0 .. MaxTime]

Init ==
    /\ LockInit
    /\ now = 0
    /\ proc = [i \in Instances |-> "down"]
    /\ ticker = [i \in Instances |-> "idle"]
    /\ check = [i \in Instances |-> "idle"]
    /\ write = [i \in Instances |-> "idle"]
    /\ paused = [i \in Instances |-> FALSE]
    /\ elapsed = [i \in Instances |-> 0]
    /\ lastRequest = [i \in Instances |-> 0]
    /\ metricsLast = [i \in Instances |-> 0]

Running(i) == proc[i] # "down"

-------------------------------------------------------------------------------
(* main.                                                                     *)

\* The memory of a process that is not there; used when it ends.
ProcDies(i) ==
    /\ proc' = [proc EXCEPT ![i] = "down"]
    /\ ticker' = [ticker EXCEPT ![i] = "idle"]
    /\ check' = [check EXCEPT ![i] = "idle"]
    /\ write' = [write EXCEPT ![i] = "idle"]
    /\ paused' = [paused EXCEPT ![i] = FALSE]
    /\ elapsed' = [elapsed EXCEPT ![i] = 0]
    /\ lastRequest' = [lastRequest EXCEPT ![i] = 0]
    /\ metricsLast' = [metricsLast EXCEPT ![i] = 0]

\* initElector: NewPgAdvisoryLock tries the lock once and start-up is aborted
\* when that fails; then both tickers start.
Start(i) ==
    /\ proc[i] = "down"
    /\ \E leader, err \in BOOLEAN :
          /\ TryLock(i, leader, err)
          /\ proc' = [proc EXCEPT ![i] = IF err THEN "down" ELSE "started"]
          /\ lastRequest' = [lastRequest EXCEPT ![i] = IF err THEN 0 ELSE now]
    /\ UNCHANGED <<ticker, check, write, paused, elapsed, metricsLast, now>>

\* The rest of main: the metrics of the handler get a copy of lastRequestUnixNano.
Serve(i) ==
    /\ proc' = [proc EXCEPT ![i] = "up"]
    /\ metricsLast' = [metricsLast EXCEPT ![i] = lastRequest[i]]

\* migrate asks whether this instance may write.
MigrateCheck(i) ==
    /\ proc[i] = "started"
    /\ \E leader \in BOOLEAN :
          /\ TryLock(i, leader, FALSE)
          /\ IF leader THEN /\ proc' = [proc EXCEPT ![i] = "migrating"]
                            /\ UNCHANGED metricsLast
                       ELSE Serve(i)
    /\ UNCHANGED <<ticker, check, write, paused, elapsed, lastRequest, now>>

\* The check of migrate fails, and the process exits.
MigrateCheckFails(i) ==
    /\ proc[i] = "started"
    /\ TryLock(i, FALSE, TRUE)
    /\ ProcDies(i)
    /\ UNCHANGED now

\* The migration is done, or there is none because of -migrate=false.
MigrateDone(i) ==
    /\ proc[i] \in {"started", "migrating"}
    /\ Serve(i)
    /\ UNCHANGED <<lockVars, ticker, check, write, paused, elapsed, lastRequest, now>>

\* The process is killed, or exits because the migration or the client failed.
Crash(i) ==
    /\ Running(i)
    /\ Fault
    /\ LockDies(i)
    /\ ProcDies(i)
    /\ UNCHANGED now

-------------------------------------------------------------------------------
(* scheduledElection and elect.                                              *)

\* Mutant: an instance that has obtained the lock does not check it again.
ElectTickOnce(i) ==
    /\ Running(i)
    /\ ticker[i] = "idle"
    /\ ~paused[i]
    /\ ~obtained[i]
    /\ ticker' = [ticker EXCEPT ![i] = "check"]
    /\ UNCHANGED <<lockVars, proc, check, write, paused, elapsed, lastRequest, metricsLast, now>>

ElectTick(i) ==
    /\ Running(i)
    /\ ticker[i] = "idle"
    /\ ~paused[i]
    /\ ticker' = [ticker EXCEPT ![i] = "check"]
    /\ UNCHANGED <<lockVars, proc, check, write, paused, elapsed, lastRequest, metricsLast, now>>

\* elect: BecomeLeader is tried only when IsLeader said no without an error.
ElectCheck(i) ==
    /\ ticker[i] = "check"
    /\ \E leader, err \in BOOLEAN :
          /\ TryLock(i, leader, err)
          /\ ticker' = [ticker EXCEPT ![i] = IF leader \/ err THEN "idle" ELSE "become"]
    /\ UNCHANGED <<proc, check, write, paused, elapsed, lastRequest, metricsLast, now>>

ElectBecome(i) ==
    /\ ticker[i] = "become"
    /\ \E leader, err \in BOOLEAN : TryLock(i, leader, err)
    /\ ticker' = [ticker EXCEPT ![i] = "idle"]
    /\ UNCHANGED <<proc, check, write, paused, elapsed, lastRequest, metricsLast, now>>

-------------------------------------------------------------------------------
(* PrometheusLivenessCheck.                                                  *)

\* Mutant: the difference is taken the wrong way round.
LivenessTickSwapped(i) ==
    /\ Running(i)
    /\ Timeout # 0
    /\ check[i] = "idle"
    /\ elapsed' = [elapsed EXCEPT ![i] = lastRequest[i] - now]
    /\ check' = [check EXCEPT ![i] = "check"]
    /\ UNCHANGED <<lockVars, proc, ticker, write, paused, lastRequest, metricsLast, now>>

LivenessTick(i) ==
    /\ Running(i)
    /\ Timeout # 0
    /\ check[i] = "idle"
    /\ elapsed' = [elapsed EXCEPT ![i] = now - lastRequest[i]]
    /\ check' = [check EXCEPT ![i] = "check"]
    /\ UNCHANGED <<lockVars, proc, ticker, write, paused, lastRequest, metricsLast, now>>

\* An error counts as not being the leader.  Only this goroutine writes paused,
\* so its test and the resumption are part of this step.
LivenessLeader(i) ==
    /\ check[i] = "check"
    /\ \E leader, err \in BOOLEAN :
          /\ TryLock(i, leader, err)
          /\ check' = [check EXCEPT ![i] =
                          IF leader /\ elapsed[i] > Timeout THEN "pause" ELSE "idle"]
          /\ paused' = [paused EXCEPT ![i] = @ /\ (leader \/ elapsed[i] >= Timeout)]
    /\ elapsed' = [elapsed EXCEPT ![i] = 0]
    /\ UNCHANGED <<proc, ticker, write, lastRequest, metricsLast, now>>

LivenessPause(i) ==
    /\ check[i] = "pause"
    /\ paused' = [paused EXCEPT ![i] = TRUE]
    /\ check' = [check EXCEPT ![i] = "resign"]
    /\ UNCHANGED <<lockVars, proc, ticker, write, elapsed, lastRequest, metricsLast, now>>

\* Resign; its error is only logged.
LivenessResign(i) ==
    /\ check[i] = "resign"
    /\ Release(i)
    /\ check' = [check EXCEPT ![i] = "idle"]
    /\ UNCHANGED <<proc, ticker, write, paused, elapsed, lastRequest, metricsLast, now>>

-------------------------------------------------------------------------------
(* The write handler.  A request is answered without being stored when this  *)
(* instance is not the leader or the check fails.                            *)

WriteCheck(i) ==
    /\ i \in Sending
    /\ proc[i] = "up"
    /\ write[i] = "idle"
    /\ \E leader, err \in BOOLEAN :
          /\ TryLock(i, leader, err)
          /\ write' = [write EXCEPT ![i] = IF leader THEN "body" ELSE "idle"]
    /\ UNCHANGED <<proc, ticker, check, paused, elapsed, lastRequest, metricsLast, now>>

\* The body is read, the time of the request noted and the samples ingested; or
\* reading the body fails.
WriteBody(i) ==
    /\ write[i] = "body"
    /\ metricsLast' \in {metricsLast, [metricsLast EXCEPT ![i] = now]}
    /\ write' = [write EXCEPT ![i] = "idle"]
    /\ UNCHANGED <<lockVars, proc, ticker, check, paused, elapsed, lastRequest, now>>

-------------------------------------------------------------------------------

Tick ==
    /\ now < MaxTime
    /\ now' = now + 1
    /\ UNCHANGED <<lockVars, procVars>>

Network(i) == Disconnect(i) /\ UNCHANGED <<procVars, now>>

Server == Reap /\ UNCHANGED <<procVars, now>>

Ticker(i) == ElectTick(i) \/ ElectCheck(i) \/ ElectBecome(i)

Liveness(i) ==
    LivenessTick(i) \/ LivenessLeader(i) \/ LivenessPause(i) \/ LivenessResign(i)

Main(i) == Start(i) \/ MigrateCheck(i) \/ MigrateCheckFails(i) \/ MigrateDone(i)

Handler(i) == WriteCheck(i) \/ WriteBody(i)

Next ==
    \/ \E i \in Instances :
          Main(i) \/ Crash(i) \/ Ticker(i) \/ Liveness(i) \/ Handler(i) \/ Network(i)
    \/ Server
    \/ Tick

\* Tickers keep firing, queries end, and the server notices lost sessions.
\* Nobody has to start an instance, and no request has to come.
Fairness ==
    /\ \A i \in Instances : WF_vars(Ticker(i)) /\ WF_vars(Liveness(i))
    /\ WF_vars(Server)

Spec == Init /\ [][Next]_vars

FairSpec == Spec /\ Fairness

-------------------------------------------------------------------------------
(* Properties.                                                               *)

Leads(i) == obtained[i] /\ conn[i] = "live"

\* The database's holder is exactly the instance that believes it leads over a
\* session that is still there (lock.go TryLock, Release).  So two leaders need
\* a lost session, and no instance keeps the lock without knowing it, which
\* would stop the group.
LeaderHoldsLock == \A i \in Instances : Leads(i) <=> holder = i

\* Release uses l.conn without a test for nil: whoever has obtained set has a
\* connection, whatever the other goroutines' failed checks cleaned up.
ObtainedHasConnection == \A i \in Instances : obtained[i] => conn[i] # "none"

\* An instance whose mutex leaked (lock.go Release) does not lead any more, so
\* the others of the group can.
LeakedDoesNotLead == \A i \in Instances : mutex[i] = "leaked" => ~obtained[i]

Leader == IF \E i \in Instances : Leads(i) THEN CHOOSE i \in Instances : Leads(i) ELSE NoOne

Abstract == INSTANCE Leadership WITH leader <- Leader

\* The election implements Leadership.
ImplementsLeadership == Abstract!Spec

\* "If leader goes down, another leader is elected" (election.go): unless all
\* instances are down, there is a leader again and again.
AnotherLeads ==
    []<>((\E i \in Instances : Leads(i)) \/ \A i \in Instances : ~Running(i))

\* The same of a group whose instances all keep running: among them there is a
\* leader again and again.
RunningGroupHasLeader ==
    []<>(\E i \in Instances : Leads(i) \/ ~Running(i))

\* An instance that lost its session stops believing that it leads.
StaleLeaderStepsDown ==
    \A i \in Instances : (obtained[i] /\ conn[i] = "dead") ~> ~obtained[i]

\* "Adapter will resign if there are no requests from Prometheus within a given
\* timeout" (main.go): a serving instance takes the timeout as exceeded only
\* when the last request is that old.
ResignsOnlyWhenSilent ==
    [][\A i \in Instances :
          proc[i] = "up" /\ LivenessTick(i) /\ elapsed'[i] > Timeout
             => now - metricsLast[i] > Timeout]_vars

\* "Instance can't become a leader until scheduled election is resumed"
\* (election.go): a paused instance does not obtain the lock.
PausedStaysOut ==
    [][\A i \in Instances : paused[i] /\ ~obtained[i] /\ paused'[i] => ~obtained'[i]]_vars

===============================================================================
