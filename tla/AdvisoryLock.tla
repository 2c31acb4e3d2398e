----------------------------- MODULE AdvisoryLock -----------------------------
(***************************************************************************)
(* The lock behind leader election (pkg/util/lock.go).  Every instance of  *)
(* the connector keeps one database session and asks it for the group's    *)
(* session-level advisory lock.  An instance believes what it was last     *)
(* told ("obtained"); the database knows which session has the lock.       *)
(*                                                                         *)
(* TryLock and Release keep the instance's mutex while they talk to the    *)
(* database, so each is one step.  The database decides in the middle of   *)
(* it: a session can break before the decision or after it, and then the   *)
(* instance gets an error whatever the decision was.                       *)
(***************************************************************************)
EXTENDS Naturals, FiniteSets

CONSTANTS
    Instances,      \* the connectors of one high-availability group
    NoOne,          \* the lock is free
    Orphan,         \* a session whose client is gone holds the lock
    MaxFaults       \* bound on lost connections, failed connects and crashes

ASSUME LockAssumption ==
    /\ MaxFaults \in Nat
    /\ NoOne \notin Instances
    /\ Orphan \notin Instances
    /\ NoOne # Orphan

VARIABLES
    holder,         \* the session that has the advisory lock
    conn,           \* l.conn: "none" is nil, "dead" a pointer to a lost session
    obtained,       \* l.obtained
    mutex,          \* l.mutex: "free", or "leaked" once nobody will unlock it
    faults          \* faults so far

lockVars == <<holder, conn, obtained, mutex, faults>>

LockTypeOK ==
    /\ holder \in Instances \cup {NoOne, Orphan}
    /\ conn \in [Instances -> {"none", "live", "dead"}]
    /\ obtained \in [Instances -> BOOLEAN]
    /\ mutex \in [Instances -> {"free", "leaked"}]
    /\ faults \in 0 .. MaxFaults

LockInit ==
    /\ holder = NoOne
    /\ conn = [i \in Instances |-> "none"]
    /\ obtained = [i \in Instances |-> FALSE]
    /\ mutex = [i \in Instances |-> "free"]
    /\ faults = 0

Fault == faults < MaxFaults /\ faults' = faults + 1

\* A session ends without a goodbye.  The server may notice at once, or keep the
\* session and its lock for a while.
SessionLost(i) ==
    IF holder = i THEN holder' \in {NoOne, Orphan} ELSE UNCHANGED holder

-------------------------------------------------------------------------------
(* TryLock.  The caller learns two things, leader and err.                   *)

\* getConn gives up.
ConnectFails(i) ==
    /\ conn[i] = "none"
    /\ Fault
    /\ UNCHANGED <<holder, conn>>

\* Mutant: the lost connection is kept.
QueryFailsNoCleanUp(i) ==
    /\ conn[i] = "dead"
    /\ UNCHANGED <<holder, conn, faults>>

\* The query fails on a session that is already lost: connCleanUp sets conn to
\* nil, so that the next call connects again.
QueryFails(i) ==
    /\ conn[i] = "dead"
    /\ conn' = [conn EXCEPT ![i] = "none"]
    /\ UNCHANGED <<holder, faults>>

\* The session, perhaps a new one, is lost during the query.  The server may
\* have granted the lock to it.
ReplyLost(i) ==
    /\ conn[i] # "dead"
    /\ Fault
    /\ conn' = [conn EXCEPT ![i] = "none"]
    /\ IF holder \in {i, NoOne} THEN holder' \in {NoOne, Orphan}
                                ELSE UNCHANGED holder

\* getAdvisoryLock returned an error.
LockError(i) == ConnectFails(i) \/ QueryFails(i) \/ ReplyLost(i)

\* Mutant: the shared form of the lock is asked for.
GrantedShared(i) ==
    /\ conn[i] # "dead"
    /\ holder' = i
    /\ conn' = [conn EXCEPT ![i] = "live"]
    /\ UNCHANGED faults

\* pg_try_advisory_lock is true for the session that has the lock already.
Granted(i) ==
    /\ conn[i] # "dead"
    /\ holder \in {i, NoOne}
    /\ holder' = i
    /\ conn' = [conn EXCEPT ![i] = "live"]
    /\ UNCHANGED faults

Refused(i) ==
    /\ conn[i] # "dead"
    /\ holder \notin {i, NoOne}
    /\ conn' = [conn EXCEPT ![i] = "live"]
    /\ UNCHANGED <<holder, faults>>

\* Mutant: an error leaves obtained as it was.
TryLockErrorIgnored(i, leader, err) ==
    /\ mutex[i] = "free"
    /\ \/ leader /\ ~err /\ Granted(i)
       \/ ~leader /\ ~err /\ Refused(i)
       \/ ~leader /\ err /\ LockError(i)
    /\ obtained' = [obtained EXCEPT ![i] = IF err THEN @ ELSE leader]
    /\ UNCHANGED mutex

TryLock(i, leader, err) ==
    /\ mutex[i] = "free"
    /\ \/ leader /\ ~err /\ Granted(i)
       \/ ~leader /\ ~err /\ Refused(i)
       \/ ~leader /\ err /\ LockError(i)
    /\ obtained' = [obtained EXCEPT ![i] = leader]
    /\ UNCHANGED mutex

-------------------------------------------------------------------------------
(* Release.                                                                  *)

\* Without the lock, Release returns before the deferred unlock: the mutex
\* stays locked.
ReleaseRefused(i) ==
    /\ ~obtained[i]
    /\ mutex' = [mutex EXCEPT ![i] = "leaked"]
    /\ UNCHANGED <<holder, conn, obtained, faults>>

\* Mutant: obtained is not reset.
ReleaseDoneKept(i) ==
    /\ obtained[i]
    /\ conn[i] = "live"
    /\ holder' = IF holder = i THEN NoOne ELSE holder
    /\ UNCHANGED <<conn, obtained, mutex, faults>>

ReleaseDone(i) ==
    /\ obtained[i]
    /\ conn[i] = "live"
    /\ holder' = IF holder = i THEN NoOne ELSE holder
    /\ obtained' = [obtained EXCEPT ![i] = FALSE]
    /\ UNCHANGED <<conn, mutex, faults>>

\* Mutant: the early return on an error of the query keeps the mutex too.
ReleaseFailsLocked(i) ==
    /\ obtained[i]
    /\ conn[i] = "dead"
    /\ mutex' = [mutex EXCEPT ![i] = "leaked"]
    /\ UNCHANGED <<holder, conn, obtained, faults>>

\* Query fails: obtained and conn stay as they are.
ReleaseFails(i) ==
    /\ obtained[i]
    /\ conn[i] = "dead"
    /\ UNCHANGED lockVars

\* The session is lost during the query.  When that shows only in rows, whose
\* error is not looked at, the call has succeeded for the instance.
ReleaseLost(i) ==
    /\ obtained[i]
    /\ conn[i] = "live"
    /\ Fault
    /\ conn' = [conn EXCEPT ![i] = "dead"]
    /\ SessionLost(i)
    /\ \E seen \in BOOLEAN : obtained' = [obtained EXCEPT ![i] = seen]
    /\ UNCHANGED mutex

Release(i) ==
    /\ mutex[i] = "free"
    /\ \/ ReleaseRefused(i)
       \/ ReleaseDone(i)
       \/ ReleaseFails(i)
       \/ ReleaseLost(i)

-------------------------------------------------------------------------------
(* The database and the network.                                             *)

Disconnect(i) ==
    /\ conn[i] = "live"
    /\ Fault
    /\ conn' = [conn EXCEPT ![i] = "dead"]
    /\ SessionLost(i)
    /\ UNCHANGED <<obtained, mutex>>

\* The server notices that the client of a session is gone.
Reap ==
    /\ holder = Orphan
    /\ holder' = NoOne
    /\ UNCHANGED <<conn, obtained, mutex, faults>>

\* The process of an instance ends, and its memory with it.
LockDies(i) ==
    /\ conn' = [conn EXCEPT ![i] = "none"]
    /\ SessionLost(i)
    /\ obtained' = [obtained EXCEPT ![i] = FALSE]
    /\ mutex' = [mutex EXCEPT ![i] = "free"]

===============================================================================
