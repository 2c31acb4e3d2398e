---------------------------- MODULE ElectionProofs ----------------------------
(***************************************************************************)
(* Theorems about Election, for any number of instances, any timeout and   *)
(* any number of faults.  The lock's part of the invariant is preserved by *)
(* each operation of AdvisoryLock; the actions of Election are these       *)
(* operations and steps that leave the lock alone.                         *)
(***************************************************************************)
EXTENDS Election, TLAPS

LockInv == LockTypeOK /\ LeaderHoldsLock /\ ObtainedHasConnection /\ LeakedDoesNotLead

(* No process started in the future.                                         *)
StartedInThePast == \A i \in Instances : lastRequest[i] <= now

IInv == TypeOK /\ LockInv /\ StartedInThePast

(* TryLock, whatever it answers, preserves the lock's invariant.             *)
LEMMA TryLockInv ==
  ASSUME LockInv, NEW i \in Instances, NEW leader \in BOOLEAN, NEW err \in BOOLEAN,
         TryLock(i, leader, err)
  PROVE  LockInv'
<1> USE LockAssumption DEF LockInv, LockTypeOK, LeaderHoldsLock, ObtainedHasConnection,
                           LeakedDoesNotLead, Leads
<1>1. CASE leader /\ ~err /\ Granted(i)
  BY <1>1 DEF TryLock, Granted
<1>2. CASE ~leader /\ ~err /\ Refused(i)
  BY <1>2 DEF TryLock, Refused
<1>3. CASE ~leader /\ err /\ LockError(i)
  <2>1. CASE ConnectFails(i)
    BY <1>3, <2>1 DEF TryLock, ConnectFails, Fault
  <2>2. CASE QueryFails(i)
    BY <1>3, <2>2 DEF TryLock, QueryFails
  <2>3. CASE ReplyLost(i)
    BY <1>3, <2>3 DEF TryLock, ReplyLost, Fault
  <2> QED
    BY <1>3, <2>1, <2>2, <2>3 DEF LockError
<1> QED
  BY <1>1, <1>2, <1>3 DEF TryLock

(* So does Release, also when it keeps the mutex.                            *)
LEMMA ReleaseInv ==
  ASSUME LockInv, NEW i \in Instances, Release(i)
  PROVE  LockInv'
<1> USE LockAssumption DEF LockInv, LockTypeOK, LeaderHoldsLock, ObtainedHasConnection,
                           LeakedDoesNotLead, Leads
<1>1. CASE ReleaseRefused(i)
  BY <1>1 DEF ReleaseRefused
<1>2. CASE ReleaseDone(i)
  BY <1>2 DEF ReleaseDone
<1>3. CASE ReleaseFails(i)
  BY <1>3 DEF ReleaseFails, lockVars
<1>4. CASE ReleaseLost(i)
  BY <1>4 DEF Release, ReleaseLost, SessionLost, Fault
<1> QED
  BY <1>1, <1>2, <1>3, <1>4 DEF Release

(* Lost sessions, the server's clean-up and the end of a process.            *)
LEMMA EnvironmentInv ==
  ASSUME LockInv, NEW i \in Instances,
         Disconnect(i) \/ Reap \/ (Fault /\ LockDies(i))
  PROVE  LockInv'
<1> USE LockAssumption DEF LockInv, LockTypeOK, LeaderHoldsLock, ObtainedHasConnection,
                           LeakedDoesNotLead, Leads
<1>1. CASE Disconnect(i)
  BY <1>1 DEF Disconnect, SessionLost, Fault
<1>2. CASE Reap
  BY <1>2 DEF Reap
<1>3. CASE Fault /\ LockDies(i)
  BY <1>3 DEF Fault, LockDies, SessionLost
<1> QED
  BY <1>1, <1>2, <1>3

(* Nothing of the lock changes.                                              *)
LEMMA LockSame ==
  ASSUME LockInv, UNCHANGED lockVars
  PROVE  LockInv'
BY DEF LockInv, LockTypeOK, LeaderHoldsLock, ObtainedHasConnection, LeakedDoesNotLead, Leads,
       lockVars

(* Every step of Election preserves the lock's invariant.                    *)
LEMMA LockStep ==
  ASSUME LockInv, [Next]_vars
  PROVE  LockInv'
<1>1. ASSUME NEW i \in Instances,
             Main(i) \/ Crash(i) \/ Ticker(i) \/ Liveness(i) \/ Handler(i) \/ Network(i)
      PROVE  LockInv'
  <2>1. CASE \E leader, err \in BOOLEAN : TryLock(i, leader, err)
    BY <2>1, TryLockInv
  <2>2. CASE UNCHANGED lockVars
    BY <2>2, LockSame
  <2>3. CASE Release(i)
    BY <2>3, ReleaseInv
  <2>4. CASE Crash(i) \/ Network(i)
    BY <2>4, EnvironmentInv DEF Crash, Network
  <2>5. CASE Main(i)
    BY <2>1, <2>2, <2>5 DEF Main, Start, MigrateCheck, MigrateCheckFails, MigrateDone
  <2>6. CASE Ticker(i)
    BY <2>1, <2>2, <2>6 DEF Ticker, ElectTick, ElectCheck, ElectBecome
  <2>7. CASE Liveness(i)
    BY <2>1, <2>2, <2>3, <2>7
       DEF Liveness, LivenessTick, LivenessLeader, LivenessPause, LivenessResign
  <2>8. CASE Handler(i)
    BY <2>1, <2>2, <2>8 DEF Handler, WriteCheck, WriteBody
  <2> QED
    BY <1>1, <2>4, <2>5, <2>6, <2>7, <2>8
<1>2. CASE Server
  <2>1. CASE \E i \in Instances : TRUE
    BY <1>2, <2>1, EnvironmentInv DEF Server
  <2>2. CASE Instances = {}
    BY <1>2, <2>2, LockAssumption
       DEF Server, Reap, LockInv, LockTypeOK, LeaderHoldsLock, ObtainedHasConnection,
           LeakedDoesNotLead
  <2> QED
    BY <2>1, <2>2
<1>3. CASE Tick \/ UNCHANGED vars
  BY <1>3, LockSame DEF Tick, vars
<1> QED
  BY <1>1, <1>2, <1>3 DEF Next

(* Every step keeps the types of the other variables, and the clock does not *)
(* go back behind a process's start.                                         *)
LEMMA ProcStep ==
  ASSUME IInv, [Next]_vars
  PROVE  TypeOK' /\ StartedInThePast'
<1> USE TimeAssumption DEF IInv, TypeOK, StartedInThePast, procVars
<1>1. LockTypeOK'
  BY LockStep DEF LockInv
<1>2. ASSUME NEW i \in Instances, Main(i)
      PROVE  TypeOK' /\ StartedInThePast'
  <2>1. CASE Start(i)
    BY <1>1, <2>1 DEF Start
  <2>2. CASE MigrateCheck(i)
    BY <1>1, <2>2 DEF MigrateCheck, Serve
  <2>3. CASE MigrateCheckFails(i)
    BY <1>1, <2>3 DEF MigrateCheckFails, ProcDies
  <2>4. CASE MigrateDone(i)
    BY <1>1, <2>4 DEF MigrateDone, Serve
  <2> QED
    BY <1>2, <2>1, <2>2, <2>3, <2>4 DEF Main
<1>3. ASSUME NEW i \in Instances, Crash(i) \/ Network(i)
      PROVE  TypeOK' /\ StartedInThePast'
  <2>1. CASE Crash(i)
    BY <1>1, <2>1 DEF Crash, ProcDies
  <2>2. CASE Network(i)
    BY <1>1, <2>2 DEF Network
  <2> QED
    BY <1>3, <2>1, <2>2
<1>4. ASSUME NEW i \in Instances, Ticker(i)
      PROVE  TypeOK' /\ StartedInThePast'
  BY <1>1, <1>4 DEF Ticker, ElectTick, ElectCheck, ElectBecome
<1>5. ASSUME NEW i \in Instances, Liveness(i)
      PROVE  TypeOK' /\ StartedInThePast'
  <2>1. CASE LivenessTick(i)
    <3>1. now - lastRequest[i] \in 0 .. MaxTime
      OBVIOUS
    <3> QED
      BY <1>1, <2>1, <3>1 DEF LivenessTick
  <2>2. CASE LivenessLeader(i)
    BY <1>1, <2>2 DEF LivenessLeader
  <2>3. CASE LivenessPause(i)
    BY <1>1, <2>3 DEF LivenessPause
  <2>4. CASE LivenessResign(i)
    BY <1>1, <2>4 DEF LivenessResign
  <2> QED
    BY <1>5, <2>1, <2>2, <2>3, <2>4 DEF Liveness
<1>6. ASSUME NEW i \in Instances, Handler(i)
      PROVE  TypeOK' /\ StartedInThePast'
  BY <1>1, <1>6 DEF Handler, WriteCheck, WriteBody
<1>7. CASE Server
  BY <1>1, <1>7 DEF Server
<1>8. CASE Tick
  BY <1>1, <1>8 DEF Tick
<1>9. CASE UNCHANGED vars
  BY <1>1, <1>9 DEF vars
<1> QED
  BY <1>2, <1>3, <1>4, <1>5, <1>6, <1>7, <1>8, <1>9 DEF Next

(* IInv holds in every reachable state.                                      *)
THEOREM ElectionInvariant == Spec => []IInv
<1>1. Init => IInv
  BY LockAssumption, TimeAssumption
     DEF Init, LockInit, IInv, TypeOK, LockTypeOK, LockInv, LeaderHoldsLock,
         ObtainedHasConnection, LeakedDoesNotLead, Leads, StartedInThePast
<1>2. IInv /\ [Next]_vars => IInv'
  BY LockStep, ProcStep DEF IInv
<1> QED
  BY <1>1, <1>2, PTL DEF Spec

(* Every variable keeps its type; in particular the elapsed time the         *)
(* liveness check computes is never negative.                                *)
THEOREM ElectionTypes == Spec => []TypeOK
BY ElectionInvariant, PTL DEF IInv

(* The instance with the database's lock is exactly the one that believes it *)
(* leads over a session that is still there.                                 *)
THEOREM LeaderIsHolder == Spec => []LeaderHoldsLock
BY ElectionInvariant, PTL DEF IInv, LockInv

(* Release never meets a nil connection.                                     *)
THEOREM ObtainedIsConnected == Spec => []ObtainedHasConnection
BY ElectionInvariant, PTL DEF IInv, LockInv

(* A leaked mutex does not keep the group from electing a leader.            *)
THEOREM LeakedLeavesTheLock == Spec => []LeakedDoesNotLead
BY ElectionInvariant, PTL DEF IInv, LockInv

(* There is one leader at most, so the refinement mapping is the holder of   *)
(* the lock, if that is an instance.                                         *)
LEMMA LeaderValue ==
  ASSUME LockInv
  PROVE  Leader = IF holder \in Instances THEN holder ELSE NoOne
<1>1. CASE holder \in Instances
  <2>1. \A i \in Instances : Leads(i) <=> i = holder
    BY <1>1 DEF LockInv, LeaderHoldsLock
  <2> QED
    BY <1>1, <2>1 DEF Leader
<1>2. CASE holder \notin Instances
  BY <1>2 DEF Leader, LockInv, LeaderHoldsLock
<1> QED
  BY <1>1, <1>2

(* The lock goes to an instance only when it was free.                       *)
LEMMA HolderStep ==
  ASSUME LockInv, [Next]_vars
  PROVE  \/ holder' = holder
         \/ holder = NoOne /\ holder' \in Instances
         \/ holder' \in {NoOne, Orphan}
<1> DEFINE Moves == \/ holder' = holder
                    \/ holder = NoOne /\ holder' \in Instances
                    \/ holder' \in {NoOne, Orphan}
<1>1. ASSUME NEW i \in Instances, NEW leader, NEW err, TryLock(i, leader, err)
      PROVE  Moves
  BY <1>1 DEF TryLock, Granted, Refused, LockError, ConnectFails, QueryFails, ReplyLost
<1>2. ASSUME NEW i \in Instances, Release(i)
      PROVE  Moves
  BY <1>2 DEF Release, ReleaseRefused, ReleaseDone, ReleaseFails, ReleaseLost, SessionLost,
              lockVars
<1>3. ASSUME NEW i \in Instances, Disconnect(i) \/ LockDies(i)
      PROVE  Moves
  BY <1>3 DEF Disconnect, LockDies, SessionLost
<1>4. ASSUME UNCHANGED lockVars
      PROVE  Moves
  BY <1>4 DEF lockVars
<1>5. ASSUME NEW i \in Instances,
             Main(i) \/ Crash(i) \/ Ticker(i) \/ Liveness(i) \/ Handler(i) \/ Network(i)
      PROVE  Moves
  <2>1. CASE Main(i)
    BY <1>1, <1>4, <2>1 DEF Main, Start, MigrateCheck, MigrateCheckFails, MigrateDone
  <2>2. CASE Crash(i) \/ Network(i)
    BY <1>3, <2>2 DEF Crash, Network
  <2>3. CASE Ticker(i)
    BY <1>1, <1>4, <2>3 DEF Ticker, ElectTick, ElectCheck, ElectBecome
  <2>4. CASE Liveness(i)
    BY <1>1, <1>2, <1>4, <2>4
       DEF Liveness, LivenessTick, LivenessLeader, LivenessPause, LivenessResign
  <2>5. CASE Handler(i)
    BY <1>1, <1>4, <2>5 DEF Handler, WriteCheck, WriteBody
  <2> QED
    BY <1>5, <2>1, <2>2, <2>3, <2>4, <2>5
<1>6. CASE Server
  BY <1>6 DEF Server, Reap
<1>7. CASE Tick \/ UNCHANGED vars
  BY <1>4, <1>7 DEF Tick, vars
<1> QED
  BY <1>5, <1>6, <1>7 DEF Next

(* The election implements Leadership: the leader is who has the lock, a     *)
(* grant is Elect, and a release, a lost session or a crash is Vacate.       *)
THEOREM ElectionImplementsLeadership == Spec => ImplementsLeadership
<1>1. Init => Abstract!Init
  BY DEF Init, LockInit, Leader, Leads, Abstract!Init
<1>2. ASSUME LockInv, LockInv', [Next]_vars
      PROVE  [Abstract!Next]_Leader
  <2>1. Leader = IF holder \in Instances THEN holder ELSE NoOne
    BY <1>2, LeaderValue
  <2>2. Leader' = IF holder' \in Instances THEN holder' ELSE NoOne
    <3>1. \A i \in Instances : Leads(i)' <=> holder' = i
      BY <1>2 DEF LockInv, LeaderHoldsLock
    <3>2. CASE holder' \in Instances
      BY <3>1, <3>2 DEF Leader
    <3>3. CASE holder' \notin Instances
      BY <3>1, <3>3 DEF Leader
    <3> QED
      BY <3>2, <3>3
  <2>3. CASE holder' = holder
    BY <2>1, <2>2, <2>3
  <2>4. CASE holder = NoOne /\ holder' \in Instances
    BY <2>1, <2>2, <2>4, LockAssumption DEF Abstract!Next, Abstract!Elect
  <2>5. CASE holder' \in {NoOne, Orphan}
    BY <2>1, <2>2, <2>5, LockAssumption DEF Abstract!Next, Abstract!Vacate
  <2> QED
    BY <1>2, <2>3, <2>4, <2>5, HolderStep
<1>3. IInv => LockInv
  BY DEF IInv
<1> QED
  BY <1>1, <1>2, <1>3, ElectionInvariant, PTL DEF Spec, ImplementsLeadership, Abstract!Spec

===============================================================================
