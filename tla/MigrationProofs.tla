--------------------------- MODULE MigrationProofs ---------------------------
(***************************************************************************)
(* For any scripts, releases, number of connectors, starts and faults, and *)
(* connectors of one release, started together or after each other: they   *)
(* serve the schema of their version, the schema went through the scripts  *)
(* of its version and no others, and a script that is not idempotent fails *)
(* only where the version that was read is out of date.  The version was   *)
(* read before the transaction began, so what the proofs need is that      *)
(* whoever commits in between leaves the same version behind.              *)
(***************************************************************************)
EXTENDS Migration, FiniteSetTheorems, SequenceTheorems, WellFoundedInduction, TLAPS

Call(pc, app, read, todo, log, sets, refused) ==
    [pc : {pc}, app : {app}, read : {read}, todo : {todo}, log : {log}, sets : {sets},
     refused : {refused}]

IsCall(C) == C \in Call(C.pc, C.app, C.read, C.todo, C.log, C.sets, C.refused)

Calls ==
    /\ conn = [c \in Connectors |-> conn[c]]
    /\ \A c \in Connectors : IsCall(conn[c])
    /\ \A c \in Connectors : Running(c) => conn[c].app \in Releases

OneRelease == \A c, d \in Connectors : Running(c) /\ Running(d) => conn[c].app = conn[d].app

(* A transaction that sets no version found its own one, and it still stands. *)
FoundItsOwn ==
    \A c \in Connectors : conn[c].pc = "tx" /\ ~conn[c].sets => dbVersion = conn[c].app

MInv == Calls /\ OneRelease /\ FoundItsOwn /\ ServesItsOwnSchema

(* A step of one connector that leaves the version alone and keeps its       *)
(* release, or ends its call, disturbs nobody else.                          *)
LEMMA CallStep ==
  ASSUME MInv, NEW c \in Connectors, NEW C, IsCall(C), conn' = [conn EXCEPT ![c] = C],
         dbVersion' = dbVersion,
         C.pc \in {"off", "failed", "done"} \/ (Running(c) /\ C.app = conn[c].app),
         C.pc = "extension" => dbVersion = C.app,
         C.pc = "tx" /\ ~C.sets => dbVersion = C.app
  PROVE  MInv'
<1>1. conn'[c] = C /\ \A d \in Connectors \ {c} : conn'[d] = conn[d]
  BY DEF MInv, Calls
<1>2. Running(c)' => Running(c) /\ C.app = conn[c].app
  BY <1>1 DEF Running
<1>3. \A d \in Connectors \ {c} : Running(d)' <=> Running(d)
  BY <1>1 DEF Running
<1>4. Calls'
  <2>1. conn' = [d \in Connectors |-> conn'[d]]
    BY DEF MInv, Calls
  <2>2. \A d \in Connectors : IsCall(conn[d])'
    BY <1>1 DEF MInv, Calls, IsCall
  <2>3. \A d \in Connectors : Running(d)' => conn'[d].app \in Releases
    BY <1>1, <1>2, <1>3 DEF MInv, Calls
  <2> QED
    BY <2>1, <2>2, <2>3 DEF Calls
<1>5. OneRelease'
  BY <1>1, <1>2, <1>3 DEF MInv, OneRelease
<1>6. FoundItsOwn' /\ ServesItsOwnSchema'
  BY <1>1 DEF MInv, FoundItsOwn, ServesItsOwnSchema
<1> QED
  BY <1>4, <1>5, <1>6 DEF MInv

(* A connector without a call, and one whose call has just begun or failed.  *)
LEMMA IdleCall ==
  ASSUME NEW pc
  PROVE  /\ IsCall(Idle(pc)) /\ Idle(pc).pc = pc /\ Idle(pc).sets = FALSE
         /\ Idle(pc).log = <<>> /\ Idle(pc).refused = NoOne
<1>1. Idle(pc) \in Call(pc, ZeroVersion, ZeroVersion, <<>>, <<>>, FALSE, NoOne)
  BY Zenon DEF Idle, Call
<1>2. /\ Idle(pc).pc = pc /\ Idle(pc).app = ZeroVersion /\ Idle(pc).read = ZeroVersion
      /\ Idle(pc).todo = <<>> /\ Idle(pc).log = <<>> /\ Idle(pc).sets = FALSE
      /\ Idle(pc).refused = NoOne
  BY Zenon DEF Idle
<1> QED
  BY <1>1, <1>2, Zenon DEF IsCall

(* An installed version is never the one of an empty database.               *)
LEMMA ReleaseIsInstalled == \A v \in Releases : v # ZeroVersion
<1>1. ~Less(ZeroVersion, ZeroVersion)
  <2>1. ZeroVersion.core = 0 /\ ZeroVersion.pre = <<>>
    BY DEF ZeroVersion, Version
  <2>2. ~(0 < 0)
    BY SMT
  <2> QED
    BY <2>1, <2>2, Zenon DEF Less, PreLess
<1> QED
  BY <1>1, MigrationAssumption

(* What the version that was read decides.                                   *)
LEMMA PlanStep ==
  ASSUME NEW C, IsCall(C), NEW v, C.app \in Releases, v \in {dbVersion, ZeroVersion}
  PROVE  LET P == Plan(C, v) IN
         /\ IsCall(P)
         /\ P.pc = "failed" \/ P.app = C.app
         /\ P.pc = "extension" => dbVersion = C.app
         /\ P.pc = "tx" /\ ~P.sets => dbVersion = C.app
<1>1. v = C.app => dbVersion = C.app
  BY ReleaseIsInstalled
<1> DEFINE Read == [C EXCEPT !.read = v]
           Upgrade(scripts) == [Read EXCEPT !.pc = "tx", !.sets = TRUE,
                                            !.todo = <<Timescale>> \o scripts \o idempotentScripts]
           Again == [Read EXCEPT !.pc = "tx", !.todo = idempotentScripts]
           Nothing == [Read EXCEPT !.pc = "extension"]
<1>3. Read \in Call(C.pc, C.app, v, C.todo, C.log, C.sets, C.refused)
  BY DEF Call, IsCall
<1> HIDE DEF Read
<1>4. IsCall(Again) /\ Again.pc = "tx" /\ Again.app = C.app
  <2>1. Again \in Call("tx", C.app, v, idempotentScripts, C.log, C.sets, C.refused)
    BY <1>3, Zenon DEF Call
  <2> HIDE DEF Again
  <2>2. /\ Again.pc = "tx" /\ Again.app = C.app /\ Again.read = v
        /\ Again.todo = idempotentScripts /\ Again.log = C.log /\ Again.sets = C.sets
        /\ Again.refused = C.refused
    BY <2>1 DEF Call
  <2> QED
    BY <2>1, <2>2, Zenon DEF IsCall
<1>5. IsCall(Nothing) /\ Nothing.pc = "extension" /\ Nothing.app = C.app
  <2>1. Nothing \in Call("extension", C.app, v, C.todo, C.log, C.sets, C.refused)
    BY <1>3 DEF Call
  <2> HIDE DEF Nothing
  <2>2. /\ Nothing.pc = "extension" /\ Nothing.app = C.app /\ Nothing.read = v
        /\ Nothing.todo = C.todo /\ Nothing.log = C.log /\ Nothing.sets = C.sets
        /\ Nothing.refused = C.refused
    BY <2>1 DEF Call
  <2> QED
    BY <2>1, <2>2, Zenon DEF IsCall
<1>6. ASSUME NEW s
      PROVE  IsCall(Upgrade(s)) /\ Upgrade(s).pc = "tx" /\ Upgrade(s).sets = TRUE
             /\ Upgrade(s).app = C.app
  <2> DEFINE todo == <<Timescale>> \o s \o idempotentScripts
             U == [Read EXCEPT !.pc = "tx", !.sets = TRUE, !.todo = todo]
  <2>0. Upgrade(s) = U
    OBVIOUS
  <2> HIDE DEF todo, Upgrade
  <2>1. U \in Call("tx", C.app, v, todo, C.log, TRUE, C.refused)
    BY <1>3, Zenon DEF Call
  <2> HIDE DEF U
  <2>2. /\ U.pc = "tx" /\ U.app = C.app /\ U.read = v
        /\ U.todo = todo /\ U.log = C.log /\ U.sets = TRUE
        /\ U.refused = C.refused
    BY <2>1, Zenon DEF Call
  <2> QED
    BY <2>0, <2>1, <2>2, Zenon DEF IsCall
<1>7. IsCall(Idle("failed")) /\ Idle("failed").pc = "failed"
  BY IdleCall, Zenon
<1>8. Plan(C, v) = CASE v = C.app /\ IsDevRelease(C.app) -> Again
                     [] v = C.app /\ ~IsDevRelease(C.app) -> Nothing
                     [] Less(C.app, v) -> Idle("failed")
                     [] v = ZeroVersion -> Upgrade(preinstallScripts)
                     [] v # ZeroVersion /\ (Malformed(VersionFiles) \/ AmbiguousVersions(VersionFiles)) -> Idle("failed")
                     [] OTHER -> Upgrade(versionScripts(v, C.app))
  BY Zenon DEF Plan, Read
<1> HIDE DEF Upgrade, Again, Nothing
<1>9. \/ v = C.app /\ Plan(C, v) = Again
      \/ v = C.app /\ Plan(C, v) = Nothing
      \/ Plan(C, v) = Idle("failed")
      \/ Plan(C, v) = Upgrade(preinstallScripts)
      \/ Plan(C, v) = Upgrade(versionScripts(v, C.app))
  BY <1>8, Zenon
<1> QED
  BY <1>1, <1>4, <1>5, <1>6, <1>7, <1>9, Zenon

(* A step that changes one field of a call leaves it a call.                 *)
LEMMA NextPc ==
  ASSUME NEW C, IsCall(C), NEW pc
  PROVE  /\ IsCall([C EXCEPT !.pc = pc]) /\ [C EXCEPT !.pc = pc].pc = pc
         /\ [C EXCEPT !.pc = pc].app = C.app /\ [C EXCEPT !.pc = pc].sets = C.sets
         /\ [C EXCEPT !.pc = pc].log = C.log /\ [C EXCEPT !.pc = pc].refused = C.refused
<1> DEFINE P == [C EXCEPT !.pc = pc]
<1>1. P \in Call(pc, C.app, C.read, C.todo, C.log, C.sets, C.refused)
  BY DEF Call, IsCall
<1> HIDE DEF P
<1>2. /\ P.pc = pc /\ P.app = C.app /\ P.read = C.read /\ P.todo = C.todo
      /\ P.log = C.log /\ P.sets = C.sets /\ P.refused = C.refused
  BY <1>1 DEF Call
<1>3. IsCall(P)
  BY <1>1, <1>2, Zenon DEF IsCall
<1> QED
  BY <1>2, <1>3, Zenon DEF P

(* A call that ends, whatever it leaves behind in its record.                *)
LEMMA EndedCall ==
  ASSUME NEW f
  PROVE  LET P == [Idle("failed") EXCEPT !.refused = f] IN
         IsCall(P) /\ P.pc = "failed" /\ P.log = <<>> /\ P.sets = FALSE /\ P.refused = f
<1> DEFINE P == [Idle("failed") EXCEPT !.refused = f]
<1>1. Idle("failed") \in Call("failed", ZeroVersion, ZeroVersion, <<>>, <<>>, FALSE, NoOne)
  BY Zenon DEF Idle, Call
<1>2. P \in Call("failed", ZeroVersion, ZeroVersion, <<>>, <<>>, FALSE, f)
  BY <1>1, Zenon DEF Call
<1> HIDE DEF P
<1>3. /\ P.pc = "failed" /\ P.app = ZeroVersion /\ P.read = ZeroVersion
      /\ P.todo = <<>> /\ P.log = <<>> /\ P.sets = FALSE /\ P.refused = f
  BY <1>2, Zenon DEF Call
<1>4. IsCall(P)
  BY <1>2, <1>3, Zenon DEF IsCall
<1> QED
  BY <1>3, <1>4, Zenon DEF P

(* A connector starts with the release of those that run.                    *)
LEMMA StartInv ==
  ASSUME MInv, ~MixedReleases, NEW c \in Connectors, Start(c)
  PROVE  MInv'
<1>1. PICK v \in Releases :
         /\ \A d \in Connectors : Running(d) => conn[d].app = v
         /\ conn' = [conn EXCEPT ![c] = [Idle("ensure") EXCEPT !.app = v]]
  BY Zenon DEF Start
<1> DEFINE C == [Idle("ensure") EXCEPT !.app = v]
<1>2. Idle("ensure") \in Call("ensure", ZeroVersion, ZeroVersion, <<>>, <<>>, FALSE, NoOne)
  BY Zenon DEF Idle, Call
<1>3. C \in Call("ensure", v, ZeroVersion, <<>>, <<>>, FALSE, NoOne)
  BY <1>2, Zenon DEF Call
<1>4. conn' = [conn EXCEPT ![c] = C]
  BY <1>1
<1> HIDE DEF C
<1>5. /\ C.pc = "ensure" /\ C.app = v /\ C.read = ZeroVersion
      /\ C.todo = <<>> /\ C.log = <<>> /\ C.sets = FALSE /\ C.refused = NoOne
  BY <1>3, Zenon DEF Call
<1>6. IsCall(C)
  BY <1>3, <1>5, Zenon DEF IsCall
<1>7. conn'[c] = C /\ \A d \in Connectors \ {c} : conn'[d] = conn[d]
  BY <1>4 DEF MInv, Calls
<1>8. \A d \in Connectors \ {c} : Running(d)' <=> Running(d)
  BY <1>7, Zenon DEF Running
<1>9. conn' = [d \in Connectors |-> conn'[d]]
  BY <1>4 DEF MInv, Calls
<1>10. Calls'
  BY <1>5, <1>6, <1>7, <1>8, <1>9, Zenon DEF MInv, Calls, IsCall
<1>11. OneRelease'
  BY <1>1, <1>5, <1>7, <1>8, Zenon DEF OneRelease
<1>12. dbVersion' = dbVersion
  BY DEF Start, dbVars
<1>13. FoundItsOwn' /\ ServesItsOwnSchema'
  BY <1>5, <1>7, <1>12, Zenon DEF MInv, FoundItsOwn, ServesItsOwnSchema
<1> QED
  BY <1>10, <1>11, <1>13 DEF MInv

(* Whoever commits leaves the version of the one release that runs.          *)
LEMMA CommitInv ==
  ASSUME MInv, NEW c \in Connectors, NEW C, conn[c].pc = "tx", CommitEffect(c),
         conn' = [conn EXCEPT ![c] = C], IsCall(C),
         C.pc = "failed" \/ (C.pc = "extension" /\ C.app = conn[c].app)
  PROVE  MInv'
<1>1. dbVersion' = conn[c].app
  BY Zenon DEF CommitEffect, SetDBVersion, MInv, FoundItsOwn
<1>2. conn'[c] = C /\ \A d \in Connectors \ {c} : conn'[d] = conn[d]
  BY DEF MInv, Calls
<1>3. Running(c) /\ \A d \in Connectors \ {c} : Running(d)' <=> Running(d)
  BY <1>2, Zenon DEF Running
<1>4. Running(c)' => C.app = conn[c].app
  BY <1>2, Zenon DEF Running
<1>5. conn' = [d \in Connectors |-> conn'[d]]
  BY DEF MInv, Calls
<1>6. Calls'
  BY <1>2, <1>3, <1>4, <1>5, Zenon DEF MInv, Calls, IsCall
<1>7. OneRelease'
  <2>1. \A d \in Connectors : Running(d)' => Running(d) /\ conn'[d].app = conn[d].app
    BY <1>2, <1>3, <1>4, Zenon
  <2> QED
    BY <2>1, ZenonT(60) DEF MInv, OneRelease
<1>8. \A d \in Connectors \ {c} : Running(d) => dbVersion' = conn[d].app
  BY <1>1, <1>3, Zenon DEF MInv, OneRelease
<1>9. \A d \in Connectors : conn[d].pc \in {"tx", "extension"} => Running(d)
  BY Zenon DEF Running
<1>10. FoundItsOwn' /\ ServesItsOwnSchema'
  BY <1>1, <1>2, <1>8, <1>9, Zenon DEF FoundItsOwn, ServesItsOwnSchema
<1> QED
  BY <1>6, <1>7, <1>10 DEF MInv

(* Whatever a connector does preserves the invariant.                        *)
LEMMA ConnectorInv ==
  ASSUME MInv, ~MixedReleases, NEW c \in Connectors,
         Start(c) \/ Step(c) \/ CommitLost(c) \/ Fail(c)
  PROVE  MInv'
<1> USE DEF dbVars
<1>0. IsCall(conn[c]) /\ (Running(c) => conn[c].app \in Releases)
  BY Zenon DEF MInv, Calls
<1>1. CASE EnsureVersionTable(c)
  <2>1. conn' = [conn EXCEPT ![c] = [conn[c] EXCEPT !.pc = "read"]] /\ Running(c)
    BY <1>1, Zenon DEF EnsureVersionTable, Running
  <2>2. dbVersion' = dbVersion
    BY <1>1, Zenon DEF EnsureVersionTable
  <2> QED
    BY <1>0, <2>1, <2>2, NextPc, CallStep, Zenon
<1>2. CASE GetDBVersion(c)
  <2>1. Running(c) /\ dbVersion' = dbVersion
    BY <1>2, Zenon DEF GetDBVersion, Running
  <2>2. PICK v \in {dbVersion, ZeroVersion} : conn' = [conn EXCEPT ![c] = Plan(conn[c], v)]
    BY <1>2, Zenon DEF GetDBVersion
  <2> DEFINE P == Plan(conn[c], v)
  <2>3. /\ IsCall(P)
        /\ P.pc = "failed" \/ P.app = conn[c].app
        /\ P.pc = "extension" => dbVersion = conn[c].app
        /\ P.pc = "tx" /\ ~P.sets => dbVersion = conn[c].app
    BY <1>0, <2>1, PlanStep
  <2>4. conn' = [conn EXCEPT ![c] = P]
    BY <2>2
  <2> HIDE DEF P
  <2> QED
    BY <2>1, <2>3, <2>4, CallStep, Zenon
<1>3. CASE ExecMigrationFile(c)
  <2>1. conn[c].pc = "tx" /\ Running(c) /\ dbVersion' = dbVersion
    BY <1>3, Zenon DEF ExecMigrationFile, Running
  <2>2. \/ \E f : conn' = [conn EXCEPT ![c] = [Idle("failed") EXCEPT !.refused = f]]
        \/ \E todo, log : conn' = [conn EXCEPT ![c] = [conn[c] EXCEPT !.todo = todo, !.log = log]]
    BY <1>3, Zenon DEF ExecMigrationFile
  <2>3. CASE \E f : conn' = [conn EXCEPT ![c] = [Idle("failed") EXCEPT !.refused = f]]
    BY <2>1, <2>3, EndedCall, CallStep, Zenon
  <2>4. CASE \E todo, log : conn' = [conn EXCEPT ![c] = [conn[c] EXCEPT !.todo = todo, !.log = log]]
    <3>1. PICK todo, log : conn' = [conn EXCEPT ![c] = [conn[c] EXCEPT !.todo = todo, !.log = log]]
      BY <2>4, Zenon
    <3> DEFINE P == [conn[c] EXCEPT !.todo = todo, !.log = log]
    <3>2. P \in Call(conn[c].pc, conn[c].app, conn[c].read, todo, log,
                     conn[c].sets, conn[c].refused)
      BY <1>0, Zenon DEF IsCall, Call
    <3>3. conn[c].sets \/ dbVersion = conn[c].app
      BY <2>1, Zenon DEF MInv, FoundItsOwn
    <3>4. conn' = [conn EXCEPT ![c] = P]
      BY <3>1
    <3> HIDE DEF P
    <3>5. /\ P.pc = conn[c].pc /\ P.app = conn[c].app /\ P.read = conn[c].read
          /\ P.todo = todo /\ P.log = log /\ P.sets = conn[c].sets
          /\ P.refused = conn[c].refused
      BY <3>2 DEF Call
    <3>6. IsCall(P)
      BY <3>2, <3>5, Zenon DEF IsCall
    <3> QED
      BY <2>1, <3>3, <3>4, <3>5, <3>6, CallStep, Zenon
  <2> QED
    BY <2>2, <2>3, <2>4, Zenon
<1>4. CASE Commit(c) \/ CommitLost(c)
  <2>1. conn[c].pc = "tx" /\ CommitEffect(c)
    BY <1>4, Zenon DEF Commit, CommitLost
  <2>2. CASE Commit(c)
    <3> DEFINE Q == [conn[c] EXCEPT !.pc = "extension", !.log = <<>>]
    <3>1. conn' = [conn EXCEPT ![c] = Q]
      BY <2>2, Zenon DEF Commit
    <3>2. Q \in Call("extension", conn[c].app, conn[c].read, conn[c].todo, <<>>,
                      conn[c].sets, conn[c].refused)
      BY <1>0, Zenon DEF IsCall, Call
    <3> HIDE DEF Q
    <3>3. /\ Q.pc = "extension" /\ Q.app = conn[c].app /\ Q.read = conn[c].read
          /\ Q.todo = conn[c].todo /\ Q.log = <<>> /\ Q.sets = conn[c].sets
          /\ Q.refused = conn[c].refused
      BY <3>2 DEF Call
    <3>4. IsCall(Q)
      BY <3>2, <3>3, Zenon DEF IsCall
    <3> QED
      BY <2>1, <3>1, <3>3, <3>4, CommitInv, Zenon
  <2>3. CASE CommitLost(c)
    <3>1. conn' = [conn EXCEPT ![c] = Idle("failed")]
      BY <2>3, Zenon DEF CommitLost
    <3> QED
      BY <2>1, <3>1, IdleCall, CommitInv, Zenon
  <2> QED
    BY <1>4, <2>2, <2>3
<1>5. CASE InstallExtension(c)
  <2>1. conn' = [conn EXCEPT ![c] = [conn[c] EXCEPT !.pc = "done"]] /\ dbVersion' = dbVersion
    BY <1>5, Zenon DEF InstallExtension
  <2> QED
    BY <1>0, <2>1, NextPc, CallStep, Zenon
<1>6. CASE Fail(c)
  <2>1. PICK pc \in {"off", "failed"} : conn' = [conn EXCEPT ![c] = Idle(pc)]
    BY <1>6, Zenon DEF Fail
  <2>2. dbVersion' = dbVersion
    BY <1>6, Zenon DEF Fail
  <2> QED
    BY <2>1, <2>2, IdleCall, CallStep, Zenon
<1> QED
  BY <1>1, <1>2, <1>3, <1>4, <1>5, <1>6, StartInv, Zenon DEF Step

LEMMA MigrationInit == Init => MInv
<1> SUFFICES ASSUME Init PROVE MInv
  OBVIOUS
<1>1. conn = [c \in Connectors |-> Idle("off")]
  BY DEF Init
<1>2. \A c \in Connectors : conn[c] = Idle("off") /\ ~Running(c)
  BY <1>1, IdleCall, Zenon DEF Running
<1>3. conn = [c \in Connectors |-> conn[c]]
  BY <1>1
<1> QED
  BY <1>2, <1>3, IdleCall, Zenon DEF MInv, Calls, OneRelease, FoundItsOwn, ServesItsOwnSchema

LEMMA MigrationNext ==
  ASSUME ~MixedReleases, MInv, [Next]_vars
  PROVE  MInv'
<1>1. CASE Next
  BY <1>1, ConnectorInv, Zenon DEF Next
<1>2. CASE UNCHANGED vars
  BY <1>2, Zenon
     DEF vars, MInv, Calls, IsCall, OneRelease, FoundItsOwn, ServesItsOwnSchema, Running
<1> QED
  BY <1>1, <1>2

(* With connectors of one release at a time, one whose migration went        *)
(* through finds the schema of its version, although the version is read     *)
(* before the transaction begins (Migrate).                                  *)
THEOREM OwnSchemaIsServed ==
  ASSUME ~MixedReleases
  PROVE  Spec => []ServesItsOwnSchema
<1>1. MInv /\ [Next]_vars => MInv'
  BY MigrationNext
<1>2. MInv => ServesItsOwnSchema
  BY DEF MInv
<1> QED
  BY <1>1, <1>2, MigrationInit, PTL DEF Spec
-----------------------------------------------------------------------------
(* The order of versions.                                                    *)

(* A set of natural numbers has a least one: two pre-releases that differ,   *)
(* do so at a first place.                                                   *)
LEMMA LeastNatural ==
    ASSUME NEW T \in SUBSET Nat, T # {}
    PROVE  \E m \in T : \A k \in T : m <= k
<1> DEFINE F == {1..n : n \in T}
<1>1. F # {}
  <2>1. PICK n \in T : TRUE
    OBVIOUS
  <2>2. 1..n \in F
    BY <2>1
  <2> QED BY <2>2
<1>2. ASSUME NEW n \in T PROVE 1..n \in FiniteSubsetsOf(Nat)
  <2>1. n \in Nat /\ 1 \in Int /\ n \in Int
    OBVIOUS
  <2>2. IsFiniteSet(1..n)
    BY <2>1, FS_Interval
  <2>3. 1..n \in SUBSET Nat
    OBVIOUS
  <2> QED
    BY <2>2, <2>3 DEF FiniteSubsetsOf
<1>3. F \subseteq FiniteSubsetsOf(Nat)
  BY <1>2
<1>4. IsWellFoundedOn(StrictSubsetOrdering(Nat), FiniteSubsetsOf(Nat))
  BY FS_StrictSubsetOrderingWellFounded
<1> HIDE DEF F
<1>5. PICK x \in F : \A y \in F : ~(<<y, x>> \in StrictSubsetOrdering(Nat))
  BY <1>1, <1>3, <1>4, WFMin
<1>6. PICK m \in T : x = 1..m
  BY DEF F
<1>7. ASSUME NEW k \in T PROVE m <= k
  <2>1. SUFFICES ASSUME k < m PROVE FALSE
    OBVIOUS
  <2>2. 1..k \in SUBSET Nat /\ 1..m \in SUBSET Nat
    OBVIOUS
  <2>3. 1..k \subseteq 1..m /\ 1..k # 1..m
    <3>1. m \in 1..m /\ m \notin 1..k
      BY <2>1
    <3> QED BY <2>1, <3>1
  <2>4. <<1..k, 1..m>> \in StrictSubsetOrdering(Nat)
    BY <2>2, <2>3, Zenon DEF StrictSubsetOrdering
  <2>5. 1..k \in F
    BY DEF F
  <2> QED
    BY <1>5, <1>6, <2>4, <2>5
<1> QED
  BY <1>7


LEMMA IdOrder ==
    ASSUME NEW a \in Ids, NEW b \in Ids, NEW c \in Ids
    PROVE  /\ ~IdLess(a, a)
           /\ IdLess(a, b) /\ IdLess(b, c) => IdLess(a, c)
           /\ a = b \/ IdLess(a, b) \/ IdLess(b, a)
<1>1. /\ a.word \in BOOLEAN /\ a.val \in Nat /\ b.word \in BOOLEAN /\ b.val \in Nat
      /\ c.word \in BOOLEAN /\ c.val \in Nat
      /\ a.word = b.word /\ a.val = b.val => a = b
  BY DEF Ids
<1> DEFINE av == a.val bv == b.val cv == c.val
<1>2. /\ ~(av < av) /\ (av < bv /\ bv < cv => av < cv) /\ (av = bv \/ av < bv \/ bv < av)
  BY <1>1
<1> HIDE DEF av, bv, cv
<1>3. ~IdLess(a, a)
  BY <1>2, Zenon DEF IdLess, av
<1>4. IdLess(a, b) /\ IdLess(b, c) => IdLess(a, c)
  BY <1>1, <1>2, Zenon DEF IdLess, av, bv, cv
<1>5. a = b \/ IdLess(a, b) \/ IdLess(b, a)
  BY <1>1, <1>2, Zenon DEF IdLess, av, bv
<1> QED
  BY <1>3, <1>4, <1>5

LEMMA PreIrreflexive ==
    ASSUME NEW p \in Seq(Ids)
    PROVE  ~PreLess(p, p)
<1> SUFFICES ASSUME PreLess(p, p) PROVE FALSE
  OBVIOUS
<1>1. PICK i \in 1..Len(p) : i > Len(p) \/ IdLess(p[i], p[i])
  BY DEF PreLess
<1>2. p[i] \in Ids /\ ~(i > Len(p))
  BY <1>1
<1> QED
  BY <1>1, <1>2, IdOrder

LEMMA PreTransitive ==
    ASSUME NEW p \in Seq(Ids), NEW q \in Seq(Ids), NEW r \in Seq(Ids), PreLess(p, q), PreLess(q, r)
    PROVE  PreLess(p, r)
<1>1. p # <<>> /\ q # <<>>
  BY DEF PreLess
<1>2. CASE r = <<>>
  BY <1>1, <1>2 DEF PreLess
<1>3. CASE r # <<>>
  <2>1. PICK i \in 1..Len(q) : /\ i <= Len(p) + 1
                               /\ \A j \in 1..(i - 1) : p[j] = q[j]
                               /\ i > Len(p) \/ IdLess(p[i], q[i])
    BY <1>1 DEF PreLess
  <2>2. PICK k \in 1..Len(r) : /\ k <= Len(q) + 1
                               /\ \A j \in 1..(k - 1) : q[j] = r[j]
                               /\ k > Len(q) \/ IdLess(q[k], r[k])
    BY <1>3 DEF PreLess
  <2>3. /\ Len(p) \in Nat /\ Len(q) \in Nat /\ Len(r) \in Nat
        /\ \A j \in 1..Len(p) : p[j] \in Ids
        /\ \A j \in 1..Len(q) : q[j] \in Ids
        /\ \A j \in 1..Len(r) : r[j] \in Ids
    OBVIOUS
  <2>4. SUFFICES \E m \in 1..Len(r) : /\ m <= Len(p) + 1
                                      /\ \A j \in 1..(m - 1) : p[j] = r[j]
                                      /\ m > Len(p) \/ IdLess(p[m], r[m])
    BY <1>1 DEF PreLess
  <2>5. CASE i < k
    <3>1. i \in 1..Len(r) /\ \A j \in 1..(i - 1) : p[j] = r[j]
      BY <2>1, <2>2, <2>3, <2>5
    <3>2. q[i] = r[i]
      BY <2>2, <2>3, <2>5
    <3> QED BY <2>1, <3>1, <3>2
  <2>6. CASE k < i
    <3>1. k <= Len(p) + 1 /\ \A j \in 1..(k - 1) : p[j] = r[j]
      BY <2>1, <2>2, <2>3, <2>6
    <3>2. p[k] = q[k] /\ IdLess(q[k], r[k])
      BY <2>1, <2>2, <2>3, <2>6
    <3>3. IdLess(p[k], r[k])
      BY <3>2, Zenon
    <3> QED BY <3>1, <3>3
  <2>7. CASE i = k
    <3>1. \A j \in 1..(k - 1) : p[j] = r[j]
      BY <2>1, <2>2, <2>3, <2>7
    <3>2. IdLess(q[k], r[k]) /\ q[k] \in Ids /\ r[k] \in Ids
      BY <2>1, <2>2, <2>3, <2>7
    <3>3. CASE k > Len(p)
      BY <2>1, <2>7, <3>1, <3>3
    <3>4. CASE ~(k > Len(p))
      <4>1. p[k] \in Ids
        BY <2>3, <3>4
      <4>2. IdLess(p[k], q[k])
        BY <2>1, <2>7, <3>4
      <4>3. IdLess(p[k], r[k])
        BY <3>2, <4>1, <4>2, IdOrder
      <4> QED BY <2>1, <2>7, <3>1, <4>3
    <3> QED BY <3>3, <3>4
  <2> QED BY <2>3, <2>5, <2>6, <2>7
<1> QED
  BY <1>2, <1>3

LEMMA PreTotal ==
    ASSUME NEW p \in Seq(Ids), NEW q \in Seq(Ids)
    PROVE  p = q \/ PreLess(p, q) \/ PreLess(q, p)
<1>1. SUFFICES ASSUME p # q, p # <<>>, q # <<>> PROVE PreLess(p, q) \/ PreLess(q, p)
  BY DEF PreLess
<1>2. /\ Len(p) \in Nat /\ Len(q) \in Nat /\ Len(p) > 0 /\ Len(q) > 0
      /\ DOMAIN p = 1..Len(p) /\ DOMAIN q = 1..Len(q)
      /\ \A j \in 1..Len(p) : p[j] \in Ids
      /\ \A j \in 1..Len(q) : q[j] \in Ids
  BY <1>1
<1> DEFINE T == {n \in Nat : n > 0 /\ ~(n <= Len(p) /\ n <= Len(q) /\ p[n] = q[n])}
<1>3. Len(p) + 1 \in T
  BY <1>2
<1>4. PICK i \in T : \A k \in T : i <= k
  <2>1. T \in SUBSET Nat /\ T # {}
    BY <1>3
  <2> HIDE DEF T
  <2> QED BY <2>1, LeastNatural
<1>5. i \in Nat /\ i > 0 /\ i <= Len(p) + 1
  BY <1>2, <1>3, <1>4
<1>6. \A j \in 1..(i - 1) : j <= Len(p) /\ j <= Len(q) /\ p[j] = q[j]
  <2>1. ASSUME NEW j \in 1..(i - 1) PROVE j \notin T
    BY <1>4, <1>5
  <2> QED BY <1>5, <2>1
<1>7. i <= Len(q) + 1
  <2>1. Len(q) + 1 \in T
    BY <1>2
  <2> QED BY <1>4, <2>1
<1>8. CASE i > Len(p) /\ i > Len(q)
  <2>1. Len(p) = Len(q) /\ i = Len(p) + 1
    <3>1. ASSUME NEW m \in Nat, NEW n \in Nat, NEW k \in Nat, k <= m + 1, k <= n + 1, k > m, k > n
          PROVE  m = n /\ k = m + 1
      BY <3>1
    <3> HIDE DEF T
    <3> QED BY <1>2, <1>5, <1>7, <1>8, <3>1
  <2>2. \A j \in 1..Len(p) : p[j] = q[j]
    BY <1>2, <1>6, <2>1
  <2>3. p = q
    BY <2>1, <2>2, SeqEqual
  <2> QED BY <1>1, <2>3
<1>9. CASE i > Len(p) /\ i <= Len(q)
  BY <1>1, <1>2, <1>5, <1>6, <1>9 DEF PreLess
<1>10. CASE i <= Len(p) /\ i > Len(q)
  BY <1>1, <1>2, <1>5, <1>6, <1>7, <1>10 DEF PreLess
<1>11. CASE i <= Len(p) /\ i <= Len(q)
  <2>1. p[i] # q[i] /\ p[i] \in Ids /\ q[i] \in Ids
    BY <1>2, <1>4, <1>5, <1>11
  <2>2. IdLess(p[i], q[i]) \/ IdLess(q[i], p[i])
    BY <2>1, IdOrder
  <2>3. i \in 1..Len(p) /\ i \in 1..Len(q) /\ i <= Len(p) + 1 /\ i <= Len(q) + 1
    BY <1>2, <1>5, <1>11
  <2>4. (\A j \in 1..(i - 1) : p[j] = q[j]) /\ (\A j \in 1..(i - 1) : q[j] = p[j])
    BY <1>6
  <2> QED BY <1>1, <2>2, <2>3, <2>4, Zenon DEF PreLess
<1> QED
  BY <1>2, <1>5, <1>8, <1>9, <1>10, <1>11

(* Semantic versions are strictly and totally ordered, pre-releases included *)
(* (the comparisons of Migrate and upgradeVersion).                          *)
THEOREM VersionOrder ==
    ASSUME NEW u \in Versions, NEW v \in Versions, NEW w \in Versions
    PROVE  /\ ~Less(u, u)
           /\ Less(u, v) /\ Less(v, w) => Less(u, w)
           /\ u = v \/ Less(u, v) \/ Less(v, u)
<1>1. /\ u.core \in Nat /\ u.pre \in Seq(Ids) /\ v.core \in Nat /\ v.pre \in Seq(Ids)
      /\ w.core \in Nat /\ w.pre \in Seq(Ids)
      /\ u.core = v.core /\ u.pre = v.pre => u = v
  BY DEF Versions
<1> DEFINE uc == u.core vc == v.core wc == w.core up == u.pre vp == v.pre wp == w.pre
<1> HIDE DEF uc, vc, wc, up, vp, wp
<1>2. /\ ~(uc < uc) /\ (uc < vc /\ vc < wc => uc < wc) /\ (uc = vc \/ uc < vc \/ vc < uc)
  BY <1>1 DEF uc, vc, wc
<1>3. up \in Seq(Ids) /\ vp \in Seq(Ids) /\ wp \in Seq(Ids)
  BY <1>1 DEF up, vp, wp
<1>4. /\ ~PreLess(up, up) /\ (PreLess(up, vp) /\ PreLess(vp, wp) => PreLess(up, wp))
      /\ up = vp \/ PreLess(up, vp) \/ PreLess(vp, up)
  BY <1>3, PreIrreflexive, PreTransitive, PreTotal
<1>5. /\ Less(u, u) <=> uc < uc \/ (uc = uc /\ PreLess(up, up))
      /\ Less(u, v) <=> uc < vc \/ (uc = vc /\ PreLess(up, vp))
      /\ Less(v, u) <=> vc < uc \/ (vc = uc /\ PreLess(vp, up))
      /\ Less(v, w) <=> vc < wc \/ (vc = wc /\ PreLess(vp, wp))
      /\ Less(u, w) <=> uc < wc \/ (uc = wc /\ PreLess(up, wp))
  BY Zenon DEF Less, uc, vc, wc, up, vp, wp
<1>6. uc = vc /\ up = vp => u = v
  BY <1>1 DEF uc, vc, up, vp
<1> QED
  BY <1>2, <1>4, <1>5, <1>6, Zenon

-----------------------------------------------------------------------------
(* The lists of scripts.                                                     *)

LEMMA FunctionIsSeq ==
    ASSUME NEW n \in Nat, NEW S, NEW f \in [1..n -> S]
    PROVE  f \in Seq(S) /\ Len(f) = n
<1>1. f \in Seq(S)
  BY SeqDef, Zenon
<1>2. DOMAIN f = 1..n /\ DOMAIN f = 1..Len(f) /\ Len(f) \in Nat
  BY <1>1, LenProperties
<1> QED
  BY <1>1, <1>2

(* A finite set in the order of a strict total order has each member once,   *)
(* and every one before those it precedes.                                   *)
LEMMA InOrderLists ==
    ASSUME NEW S, IsFiniteSet(S), NEW before,
           \A x \in S : <<x, x>> \notin before,
           \A x, y, z \in S : <<x, y>> \in before /\ <<y, z>> \in before => <<x, z>> \in before,
           \A x, y \in S : x = y \/ <<x, y>> \in before \/ <<y, x>> \in before
    PROVE  LET o == InOrder(S, before)
               n == Cardinality(S) IN
           /\ n \in Nat /\ o \in [1..n -> S]
           /\ \A x \in S : \E k \in 1..n : o[k] = x
           /\ \A k, l \in 1..n : k < l => <<o[k], o[l]>> \in before
<1> DEFINE Below(x) == {y \in S : <<y, x>> \in before}
           n == Cardinality(S)
           rank == [x \in S |-> Cardinality(Below(x)) + 1]
           o == InOrder(S, before)
<1>1. n \in Nat
  BY FS_CardinalityType
<1>2. ASSUME NEW x \in S
      PROVE  IsFiniteSet(Below(x)) /\ Cardinality(Below(x)) \in Nat /\ Cardinality(Below(x)) < n
  <2>1. Below(x) \in SUBSET S /\ x \notin Below(x)
    OBVIOUS
  <2> HIDE DEF Below
  <2>2. /\ IsFiniteSet(Below(x)) /\ Cardinality(Below(x)) <= n
        /\ Cardinality(S) = Cardinality(Below(x)) => S = Below(x)
    BY <2>1, FS_Subset
  <2>3. Cardinality(Below(x)) \in Nat
    BY <2>2, FS_CardinalityType
  <2> QED
    BY <1>1, <2>1, <2>2, <2>3
<1>3. ASSUME NEW x \in S, NEW y \in S, <<y, x>> \in before
      PROVE  Cardinality(Below(y)) < Cardinality(Below(x))
  <2>1. Below(y) \in SUBSET Below(x) /\ y \in Below(x) /\ y \notin Below(y)
    BY <1>3, Zenon
  <2>2. /\ IsFiniteSet(Below(x)) /\ Cardinality(Below(x)) \in Nat /\ Cardinality(Below(y)) \in Nat
    BY <1>2
  <2> HIDE DEF Below
  <2>3. /\ Cardinality(Below(y)) <= Cardinality(Below(x))
        /\ Cardinality(Below(x)) = Cardinality(Below(y)) => Below(x) = Below(y)
    BY <2>1, <2>2, FS_Subset
  <2> QED
    BY <2>1, <2>2, <2>3
<1>4. ASSUME NEW x \in S, NEW y \in S, Cardinality(Below(y)) = Cardinality(Below(x))
      PROVE  x = y
  <2>1. Cardinality(Below(x)) \in Nat /\ Cardinality(Below(y)) \in Nat
    BY <1>2
  <2> HIDE DEF Below
  <2>2. <<x, y>> \notin before /\ <<y, x>> \notin before
    BY <1>3, <1>4, <2>1
  <2> QED BY <2>2
<1>5. rank \in [S -> 1..n]
  <2>1. \A x \in S : Cardinality(Below(x)) + 1 \in 1..n
    BY <1>1, <1>2
  <2> QED BY <2>1, Zenon
<1>6. \A x, y \in S : rank[x] = rank[y] => x = y
  <2>1. SUFFICES ASSUME NEW x \in S, NEW y \in S, rank[x] = rank[y] PROVE x = y
    OBVIOUS
  <2>2. Cardinality(Below(x)) + 1 = Cardinality(Below(y)) + 1
    BY <2>1
  <2>3. Cardinality(Below(x)) \in Nat /\ Cardinality(Below(y)) \in Nat
    BY <1>2
  <2> HIDE DEF Below
  <2>4. Cardinality(Below(x)) = Cardinality(Below(y))
    BY <2>2, <2>3
  <2> QED BY <1>4, <2>4
<1>7. rank \in Injection(S, 1..n)
  BY <1>5, <1>6, Zenon DEF Injection, IsInjective
<1>8. IsFiniteSet(1..n) /\ Cardinality(1..n) = n
  <2>1. 1 \in Int /\ n \in Int
    BY <1>1
  <2>2. IsFiniteSet(1..n) /\ Cardinality(1..n) = IF 1 > n THEN 0 ELSE n - 1 + 1
    BY <2>1, FS_Interval
  <2> QED BY <1>1, <2>2
<1>9. rank \in Surjection(S, 1..n)
  <2> HIDE DEF rank
  <2> QED BY <1>7, <1>8, FS_Injection
<1>10. \A k \in 1..n : \E x \in S : Cardinality(Below(x)) = k - 1
  <2>1. SUFFICES ASSUME NEW k \in 1..n PROVE \E x \in S : Cardinality(Below(x)) = k - 1
    OBVIOUS
  <2>2. PICK x \in S : rank[x] = k
    BY <1>9, Zenon DEF Surjection
  <2>3. Cardinality(Below(x)) + 1 = k
    BY <2>2
  <2> HIDE DEF Below
  <2>4. Cardinality(Below(x)) = k - 1
    BY <1>2, <2>3
  <2> QED BY <2>4
<1>11. o = [k \in 1..n |-> CHOOSE x \in S : Cardinality(Below(x)) = k - 1]
  BY DEF InOrder
<1> HIDE DEF o
<1>12. \A k \in 1..n : o[k] \in S /\ Cardinality(Below(o[k])) = k - 1
  <2> HIDE DEF Below
  <2> QED BY <1>10, <1>11
<1>13. o \in [1..n -> S]
  BY <1>11, <1>12, Zenon
<1>14. ASSUME NEW x \in S PROVE \E k \in 1..n : o[k] = x
  <2> DEFINE k == Cardinality(Below(x)) + 1
  <2>1. k \in 1..n /\ Cardinality(Below(x)) = k - 1
    <3>1. Cardinality(Below(x)) \in Nat /\ Cardinality(Below(x)) < n
      BY <1>2
    <3> HIDE DEF Below
    <3> QED BY <1>1, <3>1
  <2>2. o[k] \in S /\ Cardinality(Below(o[k])) = Cardinality(Below(x))
    <3> HIDE DEF Below, k
    <3> QED BY <1>12, <2>1
  <2> HIDE DEF k, Below
  <2>3. o[k] = x
    BY <1>4, <2>2, Zenon
  <2> QED BY <2>1, <2>3
<1>15. ASSUME NEW k \in 1..n, NEW l \in 1..n, k < l PROVE <<o[k], o[l]>> \in before
  <2>1. /\ o[k] \in S /\ Cardinality(Below(o[k])) = k - 1
        /\ o[l] \in S /\ Cardinality(Below(o[l])) = l - 1
    BY <1>12
  <2> HIDE DEF Below
  <2>2. o[k] # o[l]
    BY <1>1, <1>15, <2>1
  <2>3. <<o[l], o[k]>> \notin before
    BY <1>1, <1>3, <1>15, <2>1
  <2> QED BY <2>1, <2>2, <2>3
<1> QED
  BY <1>1, <1>13, <1>14, <1>15 DEF o

(* A strict total order on S; a list of all of S, in that order, with the    *)
(* members each once; a list of the entries at the places S.                 *)
Orders(before, S) ==
    /\ \A x \in S : <<x, x>> \notin before
    /\ \A x, y, z \in S : <<x, y>> \in before /\ <<y, z>> \in before => <<x, z>> \in before
    /\ \A x, y \in S : x = y \/ <<x, y>> \in before \/ <<y, x>> \in before

Arranges(o, S, before) ==
    /\ Cardinality(S) \in Nat /\ o \in [1..Cardinality(S) -> S]
    /\ \A x \in S : \E k \in 1..Cardinality(S) : o[k] = x
    /\ \A k, l \in 1..Cardinality(S) : k < l => <<o[k], o[l]>> \in before

Distinct(f) == \A k, l \in DOMAIN f : k < l => f[k] # f[l]

Lists(f, T) == f \in Seq(T) /\ \A x \in T : \E k \in DOMAIN f : f[k] = x

ListsPlaces(f, list, S, before) ==
    \A k, l \in DOMAIN f : k < l =>
        \E i, j \in S : <<i, j>> \in before /\ f[k] = list[i] /\ f[l] = list[j]

LEMMA InOrderArranges ==
    ASSUME NEW S, IsFiniteSet(S), NEW before, Orders(before, S)
    PROVE  Arranges(InOrder(S, before), S, before)
<1> SUFFICES /\ Cardinality(S) \in Nat /\ InOrder(S, before) \in [1..Cardinality(S) -> S]
             /\ \A x \in S : \E k \in 1..Cardinality(S) : InOrder(S, before)[k] = x
             /\ \A k, l \in 1..Cardinality(S) :
                   k < l => <<InOrder(S, before)[k], InOrder(S, before)[l]>> \in before
  BY Zenon DEF Arranges
<1>1. /\ \A x \in S : <<x, x>> \notin before
      /\ \A x, y, z \in S : <<x, y>> \in before /\ <<y, z>> \in before => <<x, z>> \in before
      /\ \A x, y \in S : x = y \/ <<x, y>> \in before \/ <<y, x>> \in before
  BY DEF Orders
<1> QED BY <1>1, InOrderLists

(* The entries at some places of a listing, in the order of a relation       *)
(* between the places.                                                       *)
LEMMA EntriesInOrder ==
    ASSUME NEW E, NEW list \in Seq(E), NEW S \in SUBSET (DOMAIN list), NEW before,
           Orders(before, S), NEW o, o = InOrder(S, before),
           NEW f, f = [k \in DOMAIN o |-> list[o[k]]],
           NEW T, T = {list[i] : i \in S}
    PROVE  Lists(f, T) /\ ListsPlaces(f, list, S, before)
<1> DEFINE n == Cardinality(S)
<1>1. IsFiniteSet(S)
  <2>1. DOMAIN list = 1..Len(list) /\ Len(list) \in Nat
    OBVIOUS
  <2>2. IsFiniteSet(1..Len(list))
    BY <2>1, FS_Interval
  <2> QED BY <2>1, <2>2, FS_Subset
<1>2. Arranges(o, S, before)
  BY <1>1, InOrderArranges, Zenon
<1>3. /\ n \in Nat /\ o \in [1..n -> S]
      /\ \A x \in S : \E k \in 1..n : o[k] = x
      /\ \A k, l \in 1..n : k < l => <<o[k], o[l]>> \in before
  BY <1>2, Zenon DEF Arranges
<1>4. f \in [1..n -> T] /\ \A k \in 1..n : f[k] = list[o[k]]
  BY <1>3, Zenon
<1> HIDE DEF n
<1>5. f \in Seq(T) /\ Len(f) = n /\ DOMAIN f = 1..n
  BY <1>3, <1>4, FunctionIsSeq
<1>6. ASSUME NEW x \in T PROVE \E k \in DOMAIN f : f[k] = x
  <2>1. PICK i \in S : x = list[i]
    OBVIOUS
  <2>2. PICK k \in 1..n : o[k] = i
    BY <1>3, Zenon
  <2> QED BY <1>4, <1>5, <2>1, <2>2, Zenon
<1>7. ASSUME NEW k \in DOMAIN f, NEW l \in DOMAIN f, k < l
      PROVE  \E i, j \in S : <<i, j>> \in before /\ f[k] = list[i] /\ f[l] = list[j]
  <2>1. k \in 1..n /\ l \in 1..n /\ o[k] \in S /\ o[l] \in S
    BY <1>3, <1>5
  <2> QED BY <1>3, <1>4, <1>7, <2>1, Zenon
<1> QED
  BY <1>5, <1>6, <1>7, Zenon DEF Lists, ListsPlaces, n

(* The preinstall scripts are listed, each before those with a higher number *)
(* (orderFilesNaturally).                                                    *)
LEMMA PreinstallListed ==
    /\ Lists(preinstallScripts, PreFiles)
    /\ \A k, l \in DOMAIN preinstallScripts : k < l => Before(preinstallScripts[k], preinstallScripts[l])
<1> DEFINE S == Named(Preinstall)
           before == {p \in S \X S : Preinstall[p[1]].prefix < Preinstall[p[2]].prefix}
           E == {Preinstall[i] : i \in DOMAIN Preinstall}
           o == InOrder(S, before)
<1>1. Preinstall \in Seq(E) /\ S \in SUBSET (DOMAIN Preinstall)
  BY MigrationAssumption DEF Named
<1>2. \A x, y \in S : <<x, y>> \in before <=> Preinstall[x].prefix < Preinstall[y].prefix
  OBVIOUS
<1>3. \A x \in S : Preinstall[x].prefix \in Nat
  BY MigrationAssumption, Zenon
<1>4. \A x, y \in S : Preinstall[x].prefix = Preinstall[y].prefix => x = y
  BY MigrationAssumption, Zenon
<1>5. preinstallScripts = [k \in DOMAIN o |-> Preinstall[o[k]]]
  BY Zenon DEF preinstallScripts, execMigrationDir, orderFilesNaturally
<1>6. PreFiles = {Preinstall[i] : i \in S}
  BY DEF PreFiles
<1> HIDE DEF S, before, E
<1>7. Orders(before, S)
  BY <1>2, <1>3, <1>4 DEF Orders
<1>8. Lists(preinstallScripts, PreFiles) /\ ListsPlaces(preinstallScripts, Preinstall, S, before)
  BY <1>1, <1>5, <1>6, <1>7, EntriesInOrder, Zenon
<1>9. ASSUME NEW k \in DOMAIN preinstallScripts, NEW l \in DOMAIN preinstallScripts, k < l
      PROVE  Before(preinstallScripts[k], preinstallScripts[l])
  <2>1. PICK i \in S, j \in S : /\ <<i, j>> \in before
                                /\ preinstallScripts[k] = Preinstall[i] /\ preinstallScripts[l] = Preinstall[j]
    BY <1>8, <1>9, ZenonT(60) DEF ListsPlaces
  <2>2. Preinstall[i].prefix < Preinstall[j].prefix /\ Preinstall[i] \in PreFiles /\ Preinstall[j] \in PreFiles
    BY <1>2, <1>6, <2>1
  <2> QED BY <2>1, <2>2, Zenon DEF Before
<1> QED
  BY <1>8, <1>9, Zenon

(* A list without repetition is as long as the set it lists.                 *)
LEMMA ListedOnce ==
    ASSUME NEW T, NEW f, Lists(f, T), Distinct(f)
    PROVE  IsFiniteSet(T) /\ Cardinality(T) = Len(f)
<1>1. f \in Seq(T) /\ Len(f) \in Nat /\ DOMAIN f = 1..Len(f) /\ f \in [1..Len(f) -> T]
  BY DEF Lists
<1>2. \A x \in T : \E k \in 1..Len(f) : f[k] = x
  BY <1>1, Zenon DEF Lists
<1>3. \A k, l \in 1..Len(f) : f[k] = f[l] => k = l
  <2>1. \A k, l \in 1..Len(f) : k < l => f[k] # f[l]
    BY <1>1, Zenon DEF Distinct
  <2>2. \A k, l \in 1..Len(f) : k < l \/ l < k \/ k = l
    BY <1>1
  <2> QED BY <2>1, <2>2, Zenon
<1>4. f \in Bijection(1..Len(f), T)
  <2>1. f \in Injection(1..Len(f), T)
    BY <1>1, <1>3, Zenon DEF Injection, IsInjective
  <2>2. f \in Surjection(1..Len(f), T)
    BY <1>1, <1>2, Zenon DEF Surjection
  <2> QED BY <2>1, <2>2 DEF Bijection
<1>5. ExistsBijection(1..Len(f), T)
  BY <1>4, Zenon DEF ExistsBijection
<1>6. IsFiniteSet(1..Len(f)) /\ Cardinality(1..Len(f)) = Len(f)
  <2>1. Len(f) \in Int /\ 1 \in Int /\ (IF 1 > Len(f) THEN 0 ELSE Len(f) - 1 + 1) = Len(f)
    BY <1>1
  <2> QED BY <2>1, FS_Interval
<1> QED
  BY <1>5, <1>6, FS_Bijection

(* The idempotent scripts are listed in the order of their contents          *)
(* (execMigrationDir).                                                       *)
ContentsBefore(f, g) ==
    \E i, j \in DOMAIN IdempotentToc : i < j /\ f = IdempotentToc[i] /\ g = IdempotentToc[j]

LEMMA IdempotentListed ==
    /\ Lists(idempotentScripts, TocFiles)
    /\ \A k, l \in DOMAIN idempotentScripts :
          k < l => ContentsBefore(idempotentScripts[k], idempotentScripts[l])
    /\ Distinct(idempotentScripts)
    /\ Len(idempotentScripts) = Cardinality(TocFiles)
<1> DEFINE S == NotDirs(IdempotentToc)
           before == {p \in S \X S : p[1] < p[2]}
           E == {IdempotentToc[i] : i \in DOMAIN IdempotentToc}
           o == InOrder(S, before)
<1>1. IdempotentToc \in Seq(E) /\ S \in SUBSET (DOMAIN IdempotentToc)
  BY MigrationAssumption DEF NotDirs
<1>2. S \in SUBSET Nat
  BY <1>1
<1>3. \A x, y \in S : <<x, y>> \in before <=> x < y
  OBVIOUS
<1>4. TocFiles = {IdempotentToc[i] : i \in S}
  BY DEF TocFiles
<1>5. Lists(idempotentScripts, TocFiles) /\ ListsPlaces(idempotentScripts, IdempotentToc, S, before)
  <2>1. CASE IdempotentToc # <<>>
    <3>1. idempotentScripts = [k \in DOMAIN o |-> IdempotentToc[o[k]]]
      BY <2>1, Zenon DEF idempotentScripts, execMigrationDir, inContentsOrder
    <3> HIDE DEF before, E, S
    <3>2. Orders(before, S)
      BY <1>2, <1>3 DEF Orders
    <3> QED BY <1>1, <1>4, <3>1, <3>2, EntriesInOrder, Zenon
  <2>2. CASE IdempotentToc = <<>>
    <3> DEFINE N == Named(<<>>)
               b == {p \in N \X N : <<>>[p[1]].prefix < <<>>[p[2]].prefix}
               m == InOrder(N, b)
    <3>1. N = {} /\ S = {} /\ TocFiles = {}
      BY <2>2 DEF Named, NotDirs, TocFiles
    <3>2. idempotentScripts = [k \in DOMAIN m |-> <<>>[m[k]]]
      BY <2>2, Zenon DEF idempotentScripts, execMigrationDir, orderFilesNaturally
    <3> HIDE DEF b
    <3>3. DOMAIN m = {}
      BY <3>1, FS_EmptySet DEF InOrder
    <3> HIDE DEF m
    <3>4. idempotentScripts = <<>>
      BY <3>2, <3>3
    <3> HIDE DEF S, N
    <3> QED BY <3>1, <3>4 DEF Lists, ListsPlaces
  <2> QED BY <2>1, <2>2
<1>6. \A i, j \in S : IdempotentToc[i] = IdempotentToc[j] => i = j
  BY MigrationAssumption, Zenon
<1> HIDE DEF S, before, o, E
<1>7. ASSUME NEW k \in DOMAIN idempotentScripts, NEW l \in DOMAIN idempotentScripts, k < l
      PROVE  /\ idempotentScripts[k] # idempotentScripts[l]
             /\ ContentsBefore(idempotentScripts[k], idempotentScripts[l])
  <2>1. PICK i \in S, j \in S : /\ <<i, j>> \in before
                                /\ idempotentScripts[k] = IdempotentToc[i] /\ idempotentScripts[l] = IdempotentToc[j]
    BY <1>5, <1>7, ZenonT(60) DEF ListsPlaces
  <2>2. i < j /\ i # j
    BY <1>2, <1>3, <2>1
  <2>3. i \in DOMAIN IdempotentToc /\ j \in DOMAIN IdempotentToc
    BY <1>1
  <2> QED BY <1>6, <2>1, <2>2, <2>3, Zenon DEF ContentsBefore
<1>8. Distinct(idempotentScripts)
  BY <1>7, Zenon DEF Distinct
<1>9. Len(idempotentScripts) = Cardinality(TocFiles)
  BY <1>5, <1>8, ListedOnce
<1> QED
  BY <1>5, <1>7, <1>8, <1>9, Zenon

(* The version scripts between two versions, oldest first (upgradeVersion).  *)
Due(from, to) == {f \in VersionFiles : InRange(from, getMigrationFileVersion(f), to)}

LEMMA VersionOfFile ==
    ASSUME NEW f \in VersionFiles
    PROVE  getMigrationFileVersion(f) \in Versions
<1>1. f.dir \in Versions /\ f.prefix \in Nat
  BY MigrationAssumption, Zenon
<1>2. f.dir.core \in Nat /\ f.dir.pre \in Seq(Ids)
  BY <1>1 DEF Versions
<1>3. Num(f.prefix) \in Ids
  BY <1>1 DEF Num, Ids
<1>4. Append(f.dir.pre, Num(f.prefix)) \in Seq(Ids)
  BY <1>2, <1>3, AppendProperties, Zenon
<1> QED
  BY <1>2, <1>4 DEF getMigrationFileVersion, Version, Versions

LEMMA VersionsListed ==
    ASSUME NEW from \in Releases, NEW to \in Releases, ~AmbiguousVersions(VersionFiles),
           NEW s, s = versionScripts(from, to)
    PROVE  /\ Lists(s, Due(from, to))
           /\ \A k, l \in DOMAIN s : k < l => Before(s[k], s[l])
<1> DEFINE V(f) == getMigrationFileVersion(f)
           D == Due(from, to)
           before == {p \in D \X D : Less(V(p[1]), V(p[2]))}
<1>1. s = InOrder(D, before)
  <2>1. s = upgradeVersion(VersionFiles, from, to)
    BY Zenon DEF versionScripts
  <2> QED BY <2>1, Zenon DEF upgradeVersion, Due
<1>2. \A f, g \in D : <<f, g>> \in before <=> Less(V(f), V(g))
  OBVIOUS
<1>3. \A f \in VersionFiles : V(f) \in Versions
  BY VersionOfFile
<1>4. \A f, g \in VersionFiles : V(f) = V(g) => f = g
  BY Zenon DEF AmbiguousVersions
<1>5. D \in SUBSET VersionFiles /\ IsFiniteSet(D)
  <2>1. D \in SUBSET VersionFiles
    BY DEF Due
  <2> QED BY <2>1, MigrationAssumption, FS_Subset
<1> HIDE DEF before, D, V
<1>6. Orders(before, D)
  <2>1. \A f \in D : V(f) \in Versions
    BY <1>3, <1>5
  <2>2. \A f \in D : ~Less(V(f), V(f))
    BY <2>1, VersionOrder, Zenon
  <2>3. \A f, g, h \in D : Less(V(f), V(g)) /\ Less(V(g), V(h)) => Less(V(f), V(h))
    BY <2>1, VersionOrder, Zenon
  <2>4. \A f, g \in D : f = g \/ Less(V(f), V(g)) \/ Less(V(g), V(f))
    BY <1>4, <1>5, <2>1, VersionOrder, Zenon
  <2> QED BY <1>2, <2>2, <2>3, <2>4, Zenon DEF Orders
<1>7. Arranges(s, D, before)
  BY <1>1, <1>5, <1>6, InOrderArranges, Zenon
<1>8. /\ Cardinality(D) \in Nat /\ s \in [1..Cardinality(D) -> D]
      /\ \A f \in D : \E k \in 1..Cardinality(D) : s[k] = f
      /\ \A k, l \in 1..Cardinality(D) : k < l => <<s[k], s[l]>> \in before
  BY <1>7, Zenon DEF Arranges
<1>9. s \in Seq(D) /\ DOMAIN s = 1..Cardinality(D)
  BY <1>8, FunctionIsSeq
<1>10. ASSUME NEW k \in DOMAIN s, NEW l \in DOMAIN s, k < l PROVE Before(s[k], s[l])
  <2>1. <<s[k], s[l]>> \in before /\ s[k] \in D /\ s[l] \in D
    BY <1>8, <1>9, <1>10, Zenon
  <2> QED BY <1>2, <1>5, <2>1, Zenon DEF Before, V
<1> QED
  BY <1>8, <1>9, <1>10, Zenon DEF Lists, D
-----------------------------------------------------------------------------
(* The texts of the scripts.                                                 *)

Name(n) == Replacements[n].name
Target(n) == Replacements[n].schema

LEMMA Table ==
    /\ Len(Replacements) = 8
    /\ Replacements[1] = Catalogs[1] /\ Replacements[2] = Catalogs[2] /\ Replacements[3] = Catalogs[3]
    /\ Replacements[4] = Catalogs[4] /\ Replacements[5] = Catalogs[5]
    /\ Replacements[6] = SeriesOfData /\ Replacements[7] = Data /\ Replacements[8] = Info
<1> DEFINE S == {Catalogs[1], Catalogs[2], Catalogs[3], Catalogs[4], Catalogs[5], SeriesOfData, Data, Info}
           t == <<SeriesOfData, Data, Info>>
<1>1. Catalogs \in Seq(S) /\ Len(Catalogs) = 5
  BY DEF Catalogs
<1>2. t \in Seq(S) /\ Len(t) = 3 /\ t[1] = SeriesOfData /\ t[2] = Data /\ t[3] = Info
  OBVIOUS
<1>3. Replacements = Catalogs \o t
  BY DEF Replacements
<1> HIDE DEF S, t
<1>4. /\ Len(Catalogs \o t) = Len(Catalogs) + Len(t)
      /\ \A i \in 1..(Len(Catalogs) + Len(t)) :
            (Catalogs \o t)[i] = IF i <= Len(Catalogs) THEN Catalogs[i] ELSE t[i - Len(Catalogs)]
  BY <1>1, <1>2, ConcatProperties
<1>5. Len(Replacements) = 8 /\ \A i \in 1..8 : Replacements[i] = IF i <= 5 THEN Catalogs[i] ELSE t[i - 5]
  <2>1. Len(Catalogs) + Len(t) = 8
    BY <1>1, <1>2
  <2> QED BY <1>1, <1>3, <1>4, <2>1, Zenon
<1> QED
  BY <1>2, <1>5

LEMMA Names ==
    /\ Name(1) = <<"CATALOG">> /\ Name(2) = <<"EXT">> /\ Name(3) = <<"PROM">> /\ Name(4) = <<"SERIES">>
    /\ Name(5) = <<"METRIC">> /\ Name(6) = <<"DATA", "SERIES">> /\ Name(7) = <<"DATA">> /\ Name(8) = <<"INFO">>
    /\ Target(1) = "_prom_catalog" /\ Target(2) = "_prom_ext" /\ Target(3) = "prom_api"
    /\ Target(4) = "prom_series" /\ Target(5) = "prom_metric" /\ Target(6) = "prom_data_series"
    /\ Target(7) = "prom_data" /\ Target(8) = "prom_info"
  BY Table DEF Name, Target, Catalogs, SeriesOfData, Data, Info, Schema

Words == {"CATALOG", "EXT", "PROM", "SERIES", "METRIC", "DATA", "INFO"}

(* No placeholder begins one that is replaced later, or a schema's name:     *)
(* SCHEMA_DATA begins SCHEMA_DATA_SERIES, which is replaced before it.       *)
LEMMA NoPrefix ==
    /\ \A n \in 1..8 : Len(Name(n)) \in 1..2 /\ Name(n) \in Seq(Words) /\ Begins(Name(n), Name(n))
    /\ \A n, r \in 1..8 : n < r => ~Begins(Name(n), Name(r))
    /\ \A n, r \in 1..8 : ~Begins(Name(n), <<Target(r)>>)
    /\ \A n, r \in 1..8 : Name(n) = Name(r) => n = r
<1>1. \A n \in 1..8 : n = 1 \/ n = 2 \/ n = 3 \/ n = 4 \/ n = 5 \/ n = 6 \/ n = 7 \/ n = 8
  OBVIOUS
<1>2. ASSUME NEW n \in 1..8
      PROVE  /\ Name(n) \in Seq(Words) /\ Name(n)[1] \in Words /\ Target(n) \notin Words
             /\ (n = 6 => Len(Name(n)) = 2) /\ (n # 6 => Len(Name(n)) = 1)
             /\ n = 1 => Name(n)[1] = "CATALOG"
             /\ n = 2 => Name(n)[1] = "EXT"
             /\ n = 3 => Name(n)[1] = "PROM"
             /\ n = 4 => Name(n)[1] = "SERIES"
             /\ n = 5 => Name(n)[1] = "METRIC"
             /\ n \in {6, 7} => Name(n)[1] = "DATA"
             /\ n = 8 => Name(n)[1] = "INFO"
  <2>9. \A w \in Words : <<w>> \in Seq(Words) /\ Len(<<w>>) = 1 /\ <<w>>[1] = w
    OBVIOUS
  <2>10. \A v, w \in Words : <<v, w>> \in Seq(Words) /\ Len(<<v, w>>) = 2 /\ <<v, w>>[1] = v
    OBVIOUS
  <2>1. CASE n = 1
    BY <2>1, <2>9, Names DEF Words
  <2>2. CASE n = 2
    BY <2>2, <2>9, Names DEF Words
  <2>3. CASE n = 3
    BY <2>3, <2>9, Names DEF Words
  <2>4. CASE n = 4
    BY <2>4, <2>9, Names DEF Words
  <2>5. CASE n = 5
    BY <2>5, <2>9, Names DEF Words
  <2>6. CASE n = 6
    BY <2>6, <2>10, Names, ZenonT(60) DEF Words
  <2>7. CASE n = 7
    BY <2>7, <2>9, Names DEF Words
  <2>8. CASE n = 8
    BY <2>8, <2>9, Names DEF Words
  <2> QED BY <1>1, <2>1, <2>2, <2>3, <2>4, <2>5, <2>6, <2>7, <2>8
<1>8. \A n \in 1..8 : Name(n) \in Seq(Words) /\ (Len(Name(n)) = 1 \/ Len(Name(n)) = 2)
  BY <1>2, Zenon
<1>9. /\ Name(1)[1] = "CATALOG" /\ Name(2)[1] = "EXT" /\ Name(3)[1] = "PROM" /\ Name(4)[1] = "SERIES"
      /\ Name(5)[1] = "METRIC" /\ Name(6)[1] = "DATA" /\ Name(7)[1] = "DATA" /\ Name(8)[1] = "INFO"
  <2>1. /\ 1 \in 1..8 /\ 2 \in 1..8 /\ 3 \in 1..8 /\ 4 \in 1..8
        /\ 5 \in 1..8 /\ 6 \in 1..8 /\ 7 \in 1..8 /\ 8 \in 1..8
    OBVIOUS
  <2> QED BY <1>2, <2>1, Zenon
<1>3. \A n \in 1..8 : Len(Name(n)) \in 1..2 /\ Name(n) \in Seq(Words) /\ Begins(Name(n), Name(n))
  <2>1. ASSUME NEW s, Len(s) = 1 \/ Len(s) = 2 PROVE Len(s) \in 1..2 /\ Begins(s, s)
    BY <2>1 DEF Begins
  <2> QED BY <1>8, <2>1, Zenon
<1>4. ASSUME NEW n \in 1..8, NEW r \in 1..8, Begins(Name(n), Name(r))
      PROVE  Name(n)[1] = Name(r)[1] /\ Len(Name(n)) <= Len(Name(r))
  <2>1. ASSUME NEW s, NEW u, Len(s) = 1 \/ Len(s) = 2, Begins(s, u)
        PROVE  s[1] = u[1] /\ Len(s) <= Len(u)
    <3>1. 1 \in 1..Len(s)
      BY <2>1
    <3> QED BY <2>1, <3>1, Zenon DEF Begins
  <2> QED BY <1>4, <1>8, <2>1, Zenon
<1>5. \A n, r \in 1..8 : n < r => ~Begins(Name(n), Name(r))
  <2> SUFFICES ASSUME NEW n \in 1..8, NEW r \in 1..8, n < r, Begins(Name(n), Name(r)) PROVE FALSE
    OBVIOUS
  <2>1. Name(n)[1] = Name(r)[1] /\ Len(Name(n)) <= Len(Name(r))
    BY <1>4
  <2>2. n = 6 /\ r = 7
    <3>1. \A k \in 1..8 : k = 6 \/ k = 7 \/ Name(k)[1] # "DATA"
      BY <1>1, <1>9
    <3>2. \A k, l \in 1..8 : k # l /\ Name(k)[1] = Name(l)[1] => Name(k)[1] = "DATA"
      BY <1>1, <1>9
    <3>3. n # r
      OBVIOUS
    <3>4. (n = 6 \/ n = 7) /\ (r = 6 \/ r = 7)
      BY <2>1, <3>1, <3>2, <3>3, Zenon
    <3> QED BY <3>4
  <2>3. Len(Name(6)) = 2 /\ Len(Name(7)) = 1
    BY <1>2
  <2>4. 2 <= 1
    BY <2>1, <2>2, <2>3, Zenon
  <2> QED BY <2>4
<1>6. ASSUME NEW n \in 1..8, NEW r \in 1..8, Begins(Name(n), <<Target(r)>>) PROVE FALSE
  <2>1. Name(n)[1] = Target(r)
    BY <1>2, <1>6 DEF Begins
  <2> QED BY <1>2, <2>1, ZenonT(60)
<1>7. \A n, r \in 1..8 : Name(n) = Name(r) => n = r
  <2>1. \A n, r \in 1..8 : n = r \/ n < r \/ r < n
    OBVIOUS
  <2> QED BY <1>3, <1>5, <2>1, Zenon
<1> QED
  BY <1>3, <1>5, <1>6, <1>7

(* Which placeholder a word is, and what the first n replacements make of it. *)
Which(w) == CHOOSE r \in 1..8 : Name(r) = w
Replaced(text, n) ==
    [i \in 1..Len(text) |-> IF Which(text[i]) <= n THEN <<Target(Which(text[i]))>> ELSE text[i]]

LEMMA ReplaceStep ==
    ASSUME NEW text \in Seq(Placeholders), NEW n \in 1..8
    PROVE  ReplaceText(Replaced(text, n - 1), Name(n), Target(n)) = Replaced(text, n)
<1> DEFINE R == Replaced(text, n - 1)
<1>1. Len(text) \in Nat /\ DOMAIN R = 1..Len(text) /\ Len(R) = Len(text)
  <2>1. DOMAIN R = 1..Len(text) /\ Len(text) \in Nat
    BY DEF Replaced
  <2>2. R \in [1..Len(text) -> {R[i] : i \in 1..Len(text)}]
    BY DEF Replaced
  <2> HIDE DEF R
  <2> QED BY <2>1, <2>2, FunctionIsSeq
<1>2. ASSUME NEW i \in 1..Len(text)
      PROVE  (IF Begins(Name(n), R[i])
              THEN <<Target(n)>> \o SubSeq(R[i], Len(Name(n)) + 1, Len(R[i])) ELSE R[i])
             = IF Which(text[i]) <= n THEN <<Target(Which(text[i]))>> ELSE text[i]
  <2> DEFINE r == Which(text[i])
  <2>1. text[i] \in Placeholders
    OBVIOUS
  <2>2. \E k \in 1..8 : Name(k) = text[i]
    BY <2>1, Table DEF Placeholders, Name
  <2>3. r \in 1..8 /\ Name(r) = text[i]
    BY <2>2, Zenon DEF Which
  <2>4. R[i] = IF r <= n - 1 THEN <<Target(r)>> ELSE text[i]
    BY DEF Replaced
  <2> HIDE DEF r, R
  <2>5. CASE r < n
    <3>1. R[i] = <<Target(r)>> /\ r <= n
      BY <2>3, <2>4, <2>5
    <3>2. ~Begins(Name(n), <<Target(r)>>)
      BY <2>3, NoPrefix, Zenon
    <3> QED BY <3>1, <3>2, Zenon DEF r
  <2>6. CASE r = n
    <3>1. R[i] = Name(n) /\ r <= n
      BY <2>3, <2>4, <2>6
    <3>2. Begins(Name(n), Name(n)) /\ Name(n) \in Seq(Words)
      BY NoPrefix, Zenon
    <3>3. ASSUME NEW u, NEW w \in Seq(Words) PROVE <<u>> \o SubSeq(w, Len(w) + 1, Len(w)) = <<u>>
      <4>1. Len(w) + 1 \in Int /\ Len(w) \in Int /\ Len(w) < Len(w) + 1
        OBVIOUS
      <4>2. SubSeq(w, Len(w) + 1, Len(w)) = <<>>
        BY <4>1, SubSeqEmpty
      <4>3. <<u>> \in Seq({u})
        OBVIOUS
      <4> QED BY <4>2, <4>3, ConcatEmptySeq
    <3>4. <<Target(n)>> \o SubSeq(Name(n), Len(Name(n)) + 1, Len(Name(n))) = <<Target(n)>>
      BY <3>2, <3>3, Zenon
    <3> QED BY <2>6, <3>1, <3>2, <3>4, Zenon DEF r
  <2>7. CASE n < r
    <3>1. R[i] = Name(r) /\ ~(r <= n) /\ Name(r) = text[i]
      BY <2>3, <2>4, <2>7
    <3>2. ~Begins(Name(n), Name(r))
      BY <2>3, <2>7, NoPrefix, Zenon
    <3> QED BY <3>1, <3>2, Zenon DEF r
  <2>8. r < n \/ r = n \/ n < r
    BY <2>3
  <2> QED BY <2>5, <2>6, <2>7, <2>8
<1> HIDE DEF R
<1>3. ReplaceText(R, Name(n), Target(n)) =
        [i \in 1..Len(text) |->
            IF Begins(Name(n), R[i])
            THEN <<Target(n)>> \o SubSeq(R[i], Len(Name(n)) + 1, Len(R[i])) ELSE R[i]]
  BY <1>1, Zenon DEF ReplaceText
<1> QED
  BY <1>2, <1>3, Zenon DEF Replaced, R

(* Every placeholder becomes the schema it names (replaceSchemaNames).       *)
LEMMA TextsResolved ==
    ASSUME NEW text \in Seq(Placeholders)
    PROVE  Resolved(text)
<1> DEFINE D == [n \in 0..8 |-> Replaced(text, n)]
           f == ReplacedUpTo(text)
<1>1. ASSUME NEW i \in 1..Len(text)
      PROVE  Which(text[i]) \in 1..8 /\ Name(Which(text[i])) = text[i]
  <2>1. text[i] \in Placeholders
    OBVIOUS
  <2>2. \E k \in 1..8 : Name(k) = text[i]
    BY <2>1, Table DEF Placeholders, Name
  <2> QED BY <2>2, Zenon DEF Which
<1>2. Replaced(text, 0) = text
  <2>1. \A i \in 1..Len(text) : ~(Which(text[i]) <= 0)
    BY <1>1
  <2>2. text = [i \in 1..Len(text) |-> text[i]]
    OBVIOUS
  <2> QED BY <2>1, <2>2, Zenon DEF Replaced
<1>3. D = [n \in 0..8 |-> IF n = 0 THEN text ELSE ReplaceText(D[n - 1], Name(n), Target(n))]
  <2>1. ASSUME NEW n \in 0..8
        PROVE  D[n] = IF n = 0 THEN text ELSE ReplaceText(D[n - 1], Name(n), Target(n))
    <3>1. CASE n = 0
      BY <1>2, <3>1
    <3>2. CASE n # 0
      <4>1. n \in 1..8 /\ n - 1 \in 0..8
        BY <3>2
      <4>2. D[n - 1] = Replaced(text, n - 1) /\ D[n] = Replaced(text, n)
        BY <4>1
      <4> HIDE DEF D
      <4> QED BY <3>2, <4>1, <4>2, ReplaceStep
    <3> QED BY <3>1, <3>2
  <2> QED BY <2>1, Zenon
<1>4. f = [n \in 0..8 |-> IF n = 0 THEN text ELSE ReplaceText(f[n - 1], Name(n), Target(n))]
  <2> HIDE DEF D
  <2>1. Len(Replacements) = 8
    BY Table
  <2> QED BY <1>3, <2>1, Zenon DEF ReplacedUpTo, Name, Target
<1> HIDE DEF f, D
<1>5. f[0] = Replaced(text, 0) /\ \A n \in 1..8 : f[n] = ReplaceText(f[n - 1], Name(n), Target(n))
  BY <1>2, <1>4
<1>6. \A n \in 1..8 : f[n - 1] = Replaced(text, n - 1) => f[n] = Replaced(text, n)
  BY <1>5, ReplaceStep
<1>7. f[8] = Replaced(text, 8)
  BY <1>5, <1>6
<1>8. replaceSchemaNames(text) = Replaced(text, 8)
  BY <1>7, Table DEF replaceSchemaNames, f
<1>9. ASSUME NEW i \in 1..Len(text)
      PROVE  \E r \in 1..Len(Replacements) :
                /\ Replacements[r].name = text[i]
                /\ replaceSchemaNames(text)[i] = <<Replacements[r].schema>>
  <2> DEFINE r == Which(text[i])
  <2>1. r \in 1..8 /\ Name(r) = text[i] /\ r <= 8
    BY <1>1
  <2>2. Replaced(text, 8)[i] = <<Target(r)>>
    BY <2>1, Zenon DEF Replaced
  <2>3. r \in 1..Len(Replacements)
    BY <2>1, Table
  <2> QED BY <1>8, <2>1, <2>2, <2>3, Zenon DEF Name, Target
<1> QED
  BY <1>9, Zenon DEF Resolved

(* Nothing that is shipped keeps a placeholder.                              *)
LEMMA NoneUnresolved == Unresolved = {}
<1>1. \A f \in AllFiles : f.text \in Seq(Placeholders)
  BY MigrationAssumption, Zenon
<1>2. \A f \in AllFiles : Resolved(f.text)
  BY <1>1, TextsResolved, Zenon
<1> QED
  BY <1>2, Zenon DEF Unresolved
-----------------------------------------------------------------------------
(* The scripts of a transaction.                                             *)

Scripts == AllFiles \cup {Timescale}
Once == PreFiles \cup VersionFiles

Upgrading(X) == <<Timescale>> \o X \o idempotentScripts
Planned(C) ==
    IF ~C.sets THEN idempotentScripts
    ELSE Upgrading(IF C.read = ZeroVersion THEN preinstallScripts ELSE versionScripts(C.read, C.app))

(* What comes before another script is another script.                       *)
LEMMA BeforeIsStrict ==
    ASSUME NEW f, NEW g, Before(f, g)
    PROVE  f # g /\ f \in Once /\ g \in Once
<1>1. \A h \in PreFiles : h.prefix \in Nat
  BY MigrationAssumption DEF PreFiles
<1>2. \A h \in VersionFiles : ~Less(getMigrationFileVersion(h), getMigrationFileVersion(h))
  BY VersionOfFile, VersionOrder, Zenon
<1>3. PreFiles \cap VersionFiles = {}
  BY MigrationAssumption
<1>4. CASE f \in PreFiles /\ g \in VersionFiles
  BY <1>3, <1>4 DEF Once
<1>5. CASE f \in PreFiles /\ g \in PreFiles /\ f.prefix < g.prefix
  <2>1. f.prefix \in Nat /\ f.prefix < g.prefix
    BY <1>1, <1>5
  <2>2. \A n \in Nat : ~(n < n)
    OBVIOUS
  <2> QED BY <1>5, <2>1, <2>2, Zenon DEF Once
<1>6. CASE /\ f \in VersionFiles /\ g \in VersionFiles
           /\ Less(getMigrationFileVersion(f), getMigrationFileVersion(g))
  BY <1>2, <1>6, Zenon DEF Once
<1> QED
  BY <1>4, <1>5, <1>6, Zenon DEF Before

(* Two lists in one: where the entries of either are. *)
Joins(c, a, b) ==
    /\ Len(a) \in Nat /\ Len(b) \in Nat /\ Len(c) = Len(a) + Len(b)
    /\ DOMAIN a = 1..Len(a) /\ DOMAIN b = 1..Len(b) /\ DOMAIN c = 1..Len(c)
    /\ \A i \in 1..Len(a) : c[i] = a[i]
    /\ \A i \in 1..Len(b) : c[Len(a) + i] = b[i]

LEMMA JoinedLists ==
    ASSUME NEW S, NEW a \in Seq(S), NEW b \in Seq(S)
    PROVE  a \o b \in Seq(S) /\ Joins(a \o b, a, b)
<1> DEFINE c == a \o b
<1>1. c \in Seq(S) /\ Len(c) = Len(a) + Len(b)
  OBVIOUS
<1>2. \A i \in 1..(Len(a) + Len(b)) : c[i] = IF i <= Len(a) THEN a[i] ELSE b[i - Len(a)]
  BY ConcatProperties
<1> HIDE DEF c
<1>3. /\ Len(a) \in Nat /\ Len(b) \in Nat /\ DOMAIN a = 1..Len(a) /\ DOMAIN b = 1..Len(b)
      /\ DOMAIN c = 1..Len(c)
  BY <1>1
<1>4. (\A i \in 1..Len(a) : c[i] = a[i]) /\ (\A i \in 1..Len(b) : c[Len(a) + i] = b[i])
  BY <1>2, <1>3
<1>5. Joins(c, a, b)
  BY <1>1, <1>3, <1>4, Zenon DEF Joins
<1> QED
  BY <1>1, <1>5 DEF c

LEMMA WiderSeq ==
    ASSUME NEW A, NEW B, A \subseteq B, NEW s \in Seq(A)
    PROVE  s \in Seq(B)
<1>1. Len(s) \in Nat /\ s \in [1..Len(s) -> A]
  OBVIOUS
<1>2. s \in [1..Len(s) -> B]
  BY <1>1
<1> QED
  BY <1>1, <1>2, FunctionIsSeq, Zenon

(* The places of an upgrade's scripts: timescaledb, the scripts that run     *)
(* once, the idempotent ones.                                                *)
LEMMA UpgradePlaces ==
    ASSUME NEW X \in Seq(Once), NEW U, U = Upgrading(X)
    PROVE  /\ U \in Seq(Scripts) /\ Len(U) = 1 + Len(X) + Len(idempotentScripts)
           /\ U[1] = Timescale
           /\ \A i \in DOMAIN U : \/ i = 1
                                  \/ i \in 2..(1 + Len(X)) /\ i - 1 \in DOMAIN X /\ U[i] = X[i - 1]
                                  \/ /\ i > 1 + Len(X) /\ i - 1 - Len(X) \in DOMAIN idempotentScripts
                                     /\ U[i] = idempotentScripts[i - 1 - Len(X)]
           /\ \A i \in DOMAIN X : U[i + 1] = X[i]
           /\ \A i \in DOMAIN idempotentScripts : U[i + 1 + Len(X)] = idempotentScripts[i]
<1> DEFINE I == idempotentScripts
           T == <<Timescale>>
           TX == T \o X
<1>1. I \in Seq(TocFiles)
  BY IdempotentListed, Zenon DEF Lists
<1>2. I \in Seq(Scripts) /\ X \in Seq(Scripts) /\ T \in Seq(Scripts) /\ Len(T) = 1 /\ T[1] = Timescale
  <2>1. TocFiles \subseteq Scripts /\ Once \subseteq Scripts /\ Timescale \in Scripts
    BY DEF Scripts, AllFiles, Once
  <2>3. ASSUME NEW x, NEW B, x \in B PROVE <<x>> \in Seq(B) /\ Len(<<x>>) = 1 /\ <<x>>[1] = x
    BY <2>3
  <2> QED BY <1>1, <2>1, <2>3, WiderSeq, Zenon
<1>3. U = TX \o I
  BY DEF Upgrading
<1> HIDE DEF T, I
<1>4. /\ TX \in Seq(Scripts) /\ Len(TX) = 1 + Len(X)
      /\ \A i \in 1..(1 + Len(X)) : TX[i] = IF i <= 1 THEN T[i] ELSE X[i - 1]
  <2>1. TX \in Seq(Scripts) /\ Joins(TX, T, X)
    BY <1>2, JoinedLists, Zenon
  <2> HIDE DEF TX
  <2>2. /\ Len(X) \in Nat /\ Len(TX) = 1 + Len(X)
        /\ \A i \in 1..1 : TX[i] = T[i]
        /\ \A i \in 1..Len(X) : TX[1 + i] = X[i]
    BY <1>2, <2>1, Zenon DEF Joins
  <2> QED BY <2>1, <2>2
<1> HIDE DEF TX
<1>5. /\ U \in Seq(Scripts) /\ Len(U) = Len(TX) + Len(I)
      /\ \A i \in 1..(Len(TX) + Len(I)) : U[i] = IF i <= Len(TX) THEN TX[i] ELSE I[i - Len(TX)]
  <2>1. U \in Seq(Scripts) /\ Joins(U, TX, I)
    BY <1>2, <1>3, <1>4, JoinedLists, Zenon
  <2>2. /\ Len(TX) \in Nat /\ Len(I) \in Nat /\ Len(U) = Len(TX) + Len(I)
        /\ \A i \in 1..Len(TX) : U[i] = TX[i]
        /\ \A i \in 1..Len(I) : U[Len(TX) + i] = I[i]
    BY <2>1, Zenon DEF Joins
  <2> QED BY <2>1, <2>2
<1>6. /\ Len(X) \in Nat /\ Len(I) \in Nat /\ DOMAIN X = 1..Len(X) /\ DOMAIN I = 1..Len(I)
      /\ DOMAIN U = 1..Len(U)
  BY <1>1, <1>5 DEF I
<1>7. U[1] = Timescale /\ Len(U) = 1 + Len(X) + Len(I)
  BY <1>2, <1>4, <1>5, <1>6
<1>8. ASSUME NEW i \in DOMAIN U
      PROVE  \/ i = 1
             \/ i \in 2..(1 + Len(X)) /\ i - 1 \in DOMAIN X /\ U[i] = X[i - 1]
             \/ i > 1 + Len(X) /\ i - 1 - Len(X) \in DOMAIN I /\ U[i] = I[i - 1 - Len(X)]
  <2>1. CASE i <= 1 + Len(X)
    BY <1>4, <1>5, <1>6, <2>1, SMTT(60)
  <2>2. CASE i > 1 + Len(X)
    BY <1>4, <1>5, <1>6, <2>2
  <2>3. i \in Nat
    BY <1>6
  <2> QED BY <1>6, <2>1, <2>2, <2>3
<1>9. \A i \in DOMAIN X : U[i + 1] = X[i]
  BY <1>4, <1>5, <1>6
<1>10. \A i \in DOMAIN I : U[i + 1 + Len(X)] = I[i]
  BY <1>4, <1>5, <1>6
<1> QED
  BY <1>5, <1>7, <1>8, <1>9, <1>10 DEF I

(* A list of scripts that run once, each before the next. *)
Ascends(X) == X \in Seq(Once) /\ \A k, l \in DOMAIN X : k < l => Before(X[k], X[l])

(* No transaction runs a script twice.                                       *)
LEMMA UpgradeDistinct ==
    ASSUME NEW X, Ascends(X), NEW U, U = Upgrading(X)
    PROVE  U \in Seq(Scripts) /\ Distinct(U)
<1> DEFINE I == idempotentScripts
<1>1. X \in Seq(Once)
  BY DEF Ascends
<1>2. /\ U \in Seq(Scripts) /\ Len(U) = 1 + Len(X) + Len(I) /\ U[1] = Timescale
      /\ \A i \in DOMAIN U : \/ i = 1
                             \/ i \in 2..(1 + Len(X)) /\ i - 1 \in DOMAIN X /\ U[i] = X[i - 1]
                             \/ i > 1 + Len(X) /\ i - 1 - Len(X) \in DOMAIN I /\ U[i] = I[i - 1 - Len(X)]
  BY <1>1, UpgradePlaces
<1>3. I \in Seq(TocFiles) /\ Distinct(I)
  BY IdempotentListed, Zenon DEF Lists
<1>4. Timescale \notin Once /\ Timescale \notin TocFiles /\ Once \cap TocFiles = {}
  BY MigrationAssumption DEF Once, AllFiles
<1> HIDE DEF I
<1>5. (\A k \in DOMAIN X : k \in Nat /\ X[k] \in Once) /\ (\A k \in DOMAIN I : k \in Nat /\ I[k] \in TocFiles)
  BY <1>1, <1>3
<1>6. Len(X) \in Nat /\ DOMAIN U \subseteq Nat \ {0}
  BY <1>1, <1>2
<1>7. ASSUME NEW i \in DOMAIN U, NEW j \in DOMAIN U, i < j PROVE U[i] # U[j]
  <2>1. CASE i = 1
    BY <1>2, <1>4, <1>5, <1>6, <1>7, <2>1
  <2>2. CASE i \in 2..(1 + Len(X)) /\ i - 1 \in DOMAIN X /\ U[i] = X[i - 1]
    <3>1. CASE j \in 2..(1 + Len(X)) /\ j - 1 \in DOMAIN X /\ U[j] = X[j - 1]
      <4>1. i - 1 < j - 1
        BY <1>6, <1>7
      <4>2. Before(X[i - 1], X[j - 1])
        BY <2>2, <3>1, <4>1, Zenon DEF Ascends
      <4> QED BY <2>2, <3>1, <4>2, BeforeIsStrict, Zenon
    <3>2. CASE j > 1 + Len(X) /\ j - 1 - Len(X) \in DOMAIN I /\ U[j] = I[j - 1 - Len(X)]
      BY <1>4, <1>5, <2>2, <3>2
    <3>3. j # 1
      BY <1>6, <1>7
    <3> QED BY <1>2, <3>1, <3>2, <3>3, Zenon
  <2>3. CASE i > 1 + Len(X) /\ i - 1 - Len(X) \in DOMAIN I /\ U[i] = I[i - 1 - Len(X)]
    <3>1. j > 1 + Len(X) /\ i - 1 - Len(X) < j - 1 - Len(X)
      BY <1>6, <1>7, <2>3
    <3>2. j - 1 - Len(X) \in DOMAIN I /\ U[j] = I[j - 1 - Len(X)]
      BY <1>2, <1>6, <3>1
    <3> QED BY <1>3, <2>3, <3>1, <3>2, Zenon DEF Distinct
  <2> QED BY <1>2, <2>1, <2>2, <2>3, Zenon
<1> QED
  BY <1>2, <1>7, Zenon DEF Distinct

(* The scripts between the versions of an upgrade that may go on, and those  *)
(* of an installation.                                                       *)
LEMMA MiddleAscends ==
    /\ Ascends(preinstallScripts) /\ Lists(preinstallScripts, PreFiles)
    /\ \A from, to \in Releases : ~AmbiguousVersions(VersionFiles) =>
          Ascends(versionScripts(from, to)) /\ Lists(versionScripts(from, to), Due(from, to))
<1>1. PreFiles \subseteq Once /\ \A from, to : Due(from, to) \subseteq Once
  BY DEF Once, Due
<1>2. Ascends(preinstallScripts) /\ Lists(preinstallScripts, PreFiles)
  <2>1. preinstallScripts \in Seq(Once)
    BY <1>1, PreinstallListed, WiderSeq, Zenon DEF Lists
  <2> QED BY <2>1, PreinstallListed, Zenon DEF Ascends
<1>3. ASSUME NEW from \in Releases, NEW to \in Releases, ~AmbiguousVersions(VersionFiles)
      PROVE  Ascends(versionScripts(from, to)) /\ Lists(versionScripts(from, to), Due(from, to))
  <2> DEFINE s == versionScripts(from, to)
  <2>1. Lists(s, Due(from, to)) /\ \A k, l \in DOMAIN s : k < l => Before(s[k], s[l])
    BY <1>3, VersionsListed
  <2> HIDE DEF s
  <2>2. s \in Seq(Once)
    BY <1>1, <2>1, WiderSeq, Zenon DEF Lists
  <2>3. Ascends(s)
    BY <2>1, <2>2, Zenon DEF Ascends
  <2> QED BY <2>1, <2>3 DEF s
<1> QED
  BY <1>2, <1>3
-----------------------------------------------------------------------------
(* What a transaction makes of the schema.                                   *)

OnceAt(a) == {i \in DOMAIN a : a[i] # Timescale /\ a[i] \notin TocFiles}
OnceIn(a) == {a[i] : i \in OnceAt(a)}
OnceInOrder(a) == \A i, j \in OnceAt(a) : i < j => Before(a[i], a[j])
FirstAt(a) == {i \in OnceAt(a) : \A k \in DOMAIN a : k < i => a[k] # a[i]}
FirstInOrder(a) == \A i, j \in FirstAt(a) : i < j => Before(a[i], a[j])
OnlyRepeats(a, R) == \A i \in OnceAt(a) : i \in FirstAt(a) \/ a[i] \in R
LastAt(a) == (Len(a) - Cardinality(TocFiles) + 1)..Len(a)
Installed(o, v) ==
    PreFiles \cup {f \in VersionFiles : /\ Less(o, getMigrationFileVersion(f))
                                       /\ ~Less(v, getMigrationFileVersion(f))}
EndsInContents(a) ==
    /\ {a[i] : i \in LastAt(a)} = TocFiles
    /\ \A i, j \in LastAt(a) : i < j => ContentsBefore(a[i], a[j])
IsSchema(a, o, v, R) ==
    OnceIn(a) = Installed(o, v) /\ FirstInOrder(a) /\ OnlyRepeats(a, R) /\ EndsInContents(a)

(* The list ends with the idempotent scripts. *)
Refreshed(a) ==
    /\ Len(a) >= Len(idempotentScripts)
    /\ \A i \in DOMAIN idempotentScripts : a[Len(a) - Len(idempotentScripts) + i] = idempotentScripts[i]

LEMMA RefreshedEnds ==
    ASSUME NEW a \in Seq(Scripts), Refreshed(a)
    PROVE  EndsInContents(a)
<1> DEFINE I == idempotentScripts
           n == Len(I)
           m == Len(a)
<1>1. /\ I \in Seq(TocFiles) /\ (\A x \in TocFiles : \E k \in DOMAIN I : I[k] = x)
      /\ \A k, l \in DOMAIN I : k < l => ContentsBefore(I[k], I[l])
      /\ Len(I) = Cardinality(TocFiles)
  BY IdempotentListed, Zenon DEF Lists
<1>2. n \in Nat /\ m \in Nat /\ DOMAIN I = 1..n /\ DOMAIN a = 1..m /\ \A i \in 1..n : I[i] \in TocFiles
  BY <1>1
<1>3. m >= n /\ \A i \in 1..n : a[m - n + i] = I[i]
  BY <1>2, Zenon DEF Refreshed
<1>4. LastAt(a) = (m - n + 1)..m
  BY <1>1, Zenon DEF LastAt
<1> HIDE DEF n, m
<1>5. ASSUME NEW i \in LastAt(a) PROVE i - (m - n) \in 1..n /\ a[i] = I[i - (m - n)]
  <2>1. i \in Int /\ i - (m - n) \in 1..n /\ m - n + (i - (m - n)) = i
    BY <1>2, <1>3, <1>4
  <2>2. \A k \in 1..n : m - n + k = i => a[i] = I[k]
    BY <1>3
  <2> QED BY <2>1, <2>2
<1>6. ASSUME NEW k \in 1..n PROVE m - n + k \in LastAt(a)
  BY <1>2, <1>3, <1>4
<1>7. {a[i] : i \in LastAt(a)} = TocFiles
  <2>1. \A i \in LastAt(a) : a[i] \in TocFiles
    BY <1>2, <1>5, Zenon
  <2>2. ASSUME NEW x \in TocFiles PROVE x \in {a[i] : i \in LastAt(a)}
    <3>1. PICK k \in 1..n : I[k] = x
      BY <1>1, <1>2, Zenon
    <3> QED BY <1>3, <1>6, <3>1, Zenon
  <2> QED BY <2>1, <2>2, Zenon
<1>8. ASSUME NEW i \in LastAt(a), NEW j \in LastAt(a), i < j PROVE ContentsBefore(a[i], a[j])
  <2>1. i \in Int /\ j \in Int
    BY <1>2, <1>4
  <2>2. i - (m - n) < j - (m - n)
    BY <1>2, <1>8, <2>1
  <2> QED BY <1>1, <1>2, <1>5, <2>2, Zenon
<1> QED
  BY <1>7, <1>8, Zenon DEF EndsInContents

(* A transaction appends scripts: new ones that belong after the others, and *)
(* repeated ones that can be repeated.                                       *)
LEMMA Appended ==
    ASSUME NEW a \in Seq(Scripts), NEW L \in Seq(Scripts), NEW b, b = a \o L, NEW R,
           FirstInOrder(a), OnlyRepeats(a, R), OnceInOrder(L), Refreshed(L),
           \A f \in OnceIn(a), g \in OnceIn(L) : Before(f, g) \/ (g \in OnceIn(a) /\ g \in R)
    PROVE  /\ b \in Seq(Scripts) /\ OnceIn(b) = OnceIn(a) \cup OnceIn(L)
           /\ FirstInOrder(b) /\ OnlyRepeats(b, R) /\ EndsInContents(b)
<1> DEFINE I == idempotentScripts
           n == Len(a)
           m == Len(L)
<1>1. b \in Seq(Scripts) /\ Joins(b, a, L)
  BY JoinedLists, Zenon
<1>2. /\ n \in Nat /\ m \in Nat /\ Len(b) = n + m
      /\ DOMAIN a = 1..n /\ DOMAIN L = 1..m /\ DOMAIN b = 1..Len(b)
      /\ \A i \in 1..n : b[i] = a[i]
      /\ \A i \in 1..m : b[n + i] = L[i]
  BY <1>1, Zenon DEF Joins
<1> HIDE DEF n, m
<1>3. ASSUME NEW i \in DOMAIN b
      PROVE  \/ i \in DOMAIN a /\ b[i] = a[i]
             \/ i > n /\ i - n \in DOMAIN L /\ b[i] = L[i - n]
  <2>1. CASE i <= n
    BY <1>2, <2>1
  <2>2. CASE i > n
    <3>1. i - n \in 1..m /\ n + (i - n) = i
      BY <1>2, <2>2
    <3>2. \A k \in 1..m : n + k = i => b[i] = L[k]
      BY <1>2
    <3> QED BY <1>2, <2>2, <3>1, <3>2
  <2> QED BY <1>2, <2>1, <2>2
<1>4. ASSUME NEW i \in OnceAt(b)
      PROVE  \/ i \in OnceAt(a) /\ b[i] = a[i]
             \/ i > n /\ i - n \in OnceAt(L) /\ b[i] = L[i - n]
  BY <1>3, Zenon DEF OnceAt
<1>5. \A i \in OnceAt(a) : i \in OnceAt(b) /\ b[i] = a[i]
  <2>1. \A i \in DOMAIN a : i \in DOMAIN b /\ b[i] = a[i]
    BY <1>2
  <2> QED BY <2>1, Zenon DEF OnceAt
<1>6. \A i \in OnceAt(L) : n + i \in OnceAt(b) /\ b[n + i] = L[i]
  <2>1. \A i \in DOMAIN L : n + i \in DOMAIN b /\ b[n + i] = L[i]
    BY <1>2
  <2> QED BY <2>1, Zenon DEF OnceAt
<1>7. OnceIn(b) = OnceIn(a) \cup OnceIn(L)
  <2>1. ASSUME NEW i \in OnceAt(b) PROVE b[i] \in OnceIn(a) \cup OnceIn(L)
    BY <1>4, Zenon DEF OnceIn
  <2>2. ASSUME NEW i \in OnceAt(a) PROVE a[i] \in OnceIn(b)
    BY <1>5, Zenon DEF OnceIn
  <2>3. ASSUME NEW i \in OnceAt(L) PROVE L[i] \in OnceIn(b)
    BY <1>6, Zenon DEF OnceIn
  <2>4. \A x \in OnceIn(b) : x \in OnceIn(a) \cup OnceIn(L)
    BY <2>1, Zenon DEF OnceIn
  <2>5. \A x \in OnceIn(a) : x \in OnceIn(b)
    BY <2>2, Zenon DEF OnceIn
  <2>6. \A x \in OnceIn(L) : x \in OnceIn(b)
    BY <2>3, Zenon DEF OnceIn
  <2> QED BY <2>4, <2>5, <2>6
<1>8. \A i \in OnceAt(b) : i \in Nat /\ i \in DOMAIN b
  BY <1>2 DEF OnceAt
<1>11. ASSUME NEW i \in OnceAt(b), i > n, i - n \in OnceAt(L), b[i] = L[i - n],
              NEW j \in OnceAt(b), i < j
       PROVE  Before(b[i], b[j])
  <2>1. j > n /\ j \notin 1..n
    BY <1>2, <1>8, <1>11
  <2>2. j - n \in OnceAt(L) /\ b[j] = L[j - n]
    BY <1>2, <1>4, <2>1, Zenon DEF OnceAt
  <2>3. i - n < j - n
    BY <1>2, <1>8, <1>11
  <2> QED BY <1>11, <2>2, <2>3, Zenon DEF OnceInOrder
<1>12. ASSUME NEW i \in FirstAt(b)
       PROVE  \/ i \in FirstAt(a) /\ b[i] = a[i]
              \/ i > n /\ i - n \in OnceAt(L) /\ b[i] = L[i - n] /\ b[i] \notin OnceIn(a)
  <2>1. i \in OnceAt(b) /\ \A k \in DOMAIN b : k < i => b[k] # b[i]
    BY DEF FirstAt
  <2>2. \A k \in DOMAIN a : k \in DOMAIN b /\ b[k] = a[k]
    BY <1>2
  <2>3. CASE i \in OnceAt(a) /\ b[i] = a[i]
    BY <2>1, <2>2, <2>3, Zenon DEF FirstAt
  <2>4. CASE i > n /\ i - n \in OnceAt(L) /\ b[i] = L[i - n]
    <3>1. \A k \in DOMAIN a : k < i
      BY <1>2, <1>8, <2>1, <2>4
    <3>2. \A k \in OnceAt(a) : a[k] # b[i]
      BY <2>1, <2>2, <3>1, Zenon DEF OnceAt
    <3> QED BY <2>4, <3>2, Zenon DEF OnceIn
  <2> QED BY <1>4, <2>1, <2>3, <2>4, Zenon
<1>13. ASSUME NEW i \in FirstAt(b), NEW j \in FirstAt(b), i < j PROVE Before(b[i], b[j])
  <2>0. i \in OnceAt(b) /\ j \in OnceAt(b)
    BY DEF FirstAt
  <2>1. CASE i \in FirstAt(a) /\ b[i] = a[i]
    <3>1. CASE j \in FirstAt(a) /\ b[j] = a[j]
      BY <1>13, <2>1, <3>1, Zenon DEF FirstInOrder
    <3>2. CASE j > n /\ j - n \in OnceAt(L) /\ b[j] = L[j - n] /\ b[j] \notin OnceIn(a)
      BY <2>1, <3>2, Zenon DEF OnceIn, FirstAt
    <3> QED BY <1>12, <3>1, <3>2, Zenon
  <2>2. CASE i > n /\ i - n \in OnceAt(L) /\ b[i] = L[i - n]
    BY <1>11, <1>13, <2>0, <2>2, Zenon
  <2> QED BY <1>12, <2>1, <2>2, Zenon
<1>14. ASSUME NEW i \in OnceAt(b) PROVE i \in FirstAt(b) \/ b[i] \in R
  <2>1. CASE i \in OnceAt(a) /\ b[i] = a[i]
    <3>1. i \in FirstAt(a) \/ a[i] \in R
      BY <2>1, Zenon DEF OnlyRepeats
    <3>2. ASSUME i \in FirstAt(a), NEW k \in DOMAIN b, k < i PROVE b[k] # b[i]
      <4>1. i \in DOMAIN a /\ \A l \in DOMAIN a : l < i => a[l] # a[i]
        BY <3>2, Zenon DEF FirstAt, OnceAt
      <4>2. k \in DOMAIN a /\ b[k] = a[k]
        <5>1. ASSUME NEW x \in 1..(n + m), NEW y \in 1..n, x < y, n \in Nat, m \in Nat PROVE x \in 1..n
          BY <5>1
        <5> QED BY <1>2, <3>2, <4>1, <5>1, Zenon
      <4> QED BY <2>1, <3>2, <4>1, <4>2, Zenon
    <3> QED BY <2>1, <3>1, <3>2, Zenon DEF FirstAt
  <2>2. CASE i > n /\ i - n \in OnceAt(L) /\ b[i] = L[i - n]
    <3>1. b[i] \in OnceIn(L)
      BY <2>2, Zenon DEF OnceIn
    <3>2. ASSUME b[i] \in OnceIn(a) PROVE b[i] \in R
      BY <3>1, <3>2, BeforeIsStrict, Zenon
    <3>3. ASSUME b[i] \notin OnceIn(a), NEW k \in DOMAIN b, k < i PROVE b[k] # b[i]
      <4> SUFFICES ASSUME b[k] = b[i] PROVE FALSE
        OBVIOUS
      <4>1. k \in OnceAt(b)
        BY Zenon DEF OnceAt
      <4>2. CASE k \in OnceAt(a) /\ b[k] = a[k]
        BY <3>3, <4>2, Zenon DEF OnceIn
      <4>3. CASE k > n /\ k - n \in OnceAt(L) /\ b[k] = L[k - n]
        <5>1. Before(b[k], b[i])
          BY <1>11, <3>3, <4>1, <4>3, Zenon
        <5> QED BY <5>1, BeforeIsStrict, Zenon
      <4> QED BY <1>4, <4>1, <4>2, <4>3, Zenon
    <3> QED BY <3>2, <3>3, Zenon DEF FirstAt
  <2> QED BY <1>4, <2>1, <2>2, Zenon
<1>9. Refreshed(b)
  <2> DEFINE r == Len(I)
  <2>1. I \in Seq(TocFiles)
    BY IdempotentListed, Zenon DEF Lists
  <2>2. r \in Nat /\ DOMAIN I = 1..r
    BY <2>1
  <2>3. m >= r /\ \A i \in DOMAIN I : L[m - r + i] = I[i]
    BY Zenon DEF Refreshed, m
  <2> HIDE DEF r
  <2>4. ASSUME NEW i \in DOMAIN I PROVE b[Len(b) - r + i] = I[i]
    <3>1. m - r + i \in 1..m /\ n + (m - r + i) = Len(b) - r + i
      BY <1>2, <2>2, <2>3
    <3>2. \A k \in 1..m : n + k = Len(b) - r + i => b[Len(b) - r + i] = L[k]
      BY <1>2, Zenon
    <3> QED BY <2>3, <3>1, <3>2, Zenon
  <2>5. Len(b) >= r
    BY <1>2, <2>2, <2>3
  <2> QED BY <2>4, <2>5, Zenon DEF Refreshed, r
<1> QED
  BY <1>1, <1>7, <1>9, <1>13, <1>14, RefreshedEnds, Zenon DEF FirstInOrder, OnlyRepeats

(* The scripts of an upgrade that run once are those between the idempotent  *)
(* ones and timescaledb.                                                     *)
LEMMA UpgradeOnce ==
    ASSUME NEW X, Ascends(X), NEW M, Lists(X, M), NEW U, U = Upgrading(X)
    PROVE  OnceIn(U) = M /\ OnceInOrder(U) /\ Refreshed(U)
<1> DEFINE I == idempotentScripts
           n == Len(X)
<1>1. X \in Seq(Once)
  BY DEF Ascends
<1>2. /\ U \in Seq(Scripts) /\ Len(U) = 1 + n + Len(I) /\ U[1] = Timescale
      /\ \A i \in DOMAIN U : \/ i = 1
                             \/ i \in 2..(1 + n) /\ i - 1 \in DOMAIN X /\ U[i] = X[i - 1]
                             \/ i > 1 + n /\ i - 1 - n \in DOMAIN I /\ U[i] = I[i - 1 - n]
      /\ \A i \in DOMAIN X : U[i + 1] = X[i]
      /\ \A i \in DOMAIN I : U[i + 1 + n] = I[i]
  BY <1>1, UpgradePlaces
<1>3. I \in Seq(TocFiles)
  BY IdempotentListed, Zenon DEF Lists
<1>4. Timescale \notin Once /\ Once \cap TocFiles = {}
  BY MigrationAssumption DEF Once, AllFiles
<1> HIDE DEF I
<1>5. (\A k \in DOMAIN X : k \in Nat /\ X[k] \in Once) /\ (\A k \in DOMAIN I : k \in Nat /\ I[k] \in TocFiles)
  BY <1>1, <1>3
<1>6. /\ n \in Nat /\ Len(I) \in Nat /\ DOMAIN U = 1..(1 + n + Len(I)) /\ DOMAIN X = 1..n
      /\ DOMAIN I = 1..Len(I)
  <2>1. U \in Seq(Scripts) /\ Len(U) = 1 + n + Len(I)
    BY <1>2, Zenon
  <2> QED BY <1>1, <1>3, <2>1
<1> HIDE DEF n
<1>7. ASSUME NEW i \in OnceAt(U) PROVE i - 1 \in DOMAIN X /\ U[i] = X[i - 1] /\ i \in Nat
  <2>1. i \in DOMAIN U /\ U[i] # Timescale /\ U[i] \notin TocFiles
    BY DEF OnceAt
  <2>2. i # 1 /\ ~(i - 1 - n \in DOMAIN I /\ U[i] = I[i - 1 - n])
    BY <1>2, <1>5, <2>1, Zenon
  <2>3. i \in Nat
    BY <1>6, <2>1
  <2> QED BY <1>2, <2>1, <2>2, <2>3, Zenon
<1>8. ASSUME NEW k \in DOMAIN X PROVE k + 1 \in OnceAt(U) /\ U[k + 1] = X[k]
  <2>1. k + 1 \in DOMAIN U
    BY <1>6
  <2>2. U[k + 1] = X[k] /\ X[k] \in Once
    BY <1>2, <1>5, Zenon
  <2> QED BY <1>4, <2>1, <2>2 DEF OnceAt
<1>9. OnceIn(U) = M
  <2>1. (\A k \in DOMAIN X : X[k] \in M) /\ (\A x \in M : \E k \in DOMAIN X : X[k] = x)
    BY DEF Lists
  <2>4. ASSUME NEW i \in OnceAt(U) PROVE U[i] \in M
    BY <1>7, <2>1, Zenon
  <2>2. \A x \in OnceIn(U) : x \in M
    BY <2>4, Zenon DEF OnceIn
  <2>3. \A x \in M : x \in OnceIn(U)
    BY <1>8, <2>1, Zenon DEF OnceIn
  <2> QED BY <2>2, <2>3, Zenon
<1>10. ASSUME NEW i \in OnceAt(U), NEW j \in OnceAt(U), i < j PROVE Before(U[i], U[j])
  <2>1. i \in Nat /\ j \in Nat
    BY <1>7
  <2>2. i - 1 < j - 1
    BY <1>10, <2>1
  <2> QED BY <1>7, <2>2, Zenon DEF Ascends
<1>11. Refreshed(U)
  <2>3. Len(U) = 1 + n + Len(I) /\ \A i \in DOMAIN I : U[i + 1 + n] = I[i]
    BY <1>2, Zenon
  <2>1. Len(U) >= Len(I)
    BY <1>6, <2>3
  <2>2. ASSUME NEW i \in DOMAIN I PROVE U[Len(U) - Len(I) + i] = I[i]
    <3>1. Len(U) - Len(I) + i = i + 1 + n
      BY <1>6, <2>3
    <3> QED BY <2>3, <3>1, Zenon
  <2> QED BY <2>1, <2>2, Zenon DEF Refreshed, I
<1> QED
  BY <1>9, <1>10, <1>11, Zenon DEF OnceInOrder

LEMMA IdempotentOnce ==
    OnceIn(idempotentScripts) = {} /\ OnceInOrder(idempotentScripts) /\ Refreshed(idempotentScripts)
<1> DEFINE I == idempotentScripts
<1>1. I \in Seq(TocFiles)
  BY IdempotentListed, Zenon DEF Lists
<1> HIDE DEF I
<1>2. OnceAt(I) = {}
  BY <1>1 DEF OnceAt
<1>3. Len(I) \in Nat /\ DOMAIN I \subseteq Nat
  BY <1>1
<1>4. Len(I) >= Len(I) /\ \A i \in DOMAIN I : Len(I) - Len(I) + i = i
  BY <1>3
<1>5. OnceIn(I) = {} /\ OnceInOrder(I)
  BY <1>2, Zenon DEF OnceIn, OnceInOrder
<1> QED
  BY <1>4, <1>5, Zenon DEF Refreshed, I

(* Starting the idempotent scripts again changes nothing that runs once.     *)
LEMMA RefreshKeeps ==
    ASSUME NEW a \in Seq(Scripts), NEW o, NEW v, NEW R, IsSchema(a, o, v, R)
    PROVE  IsSchema(a \o idempotentScripts, o, v, R)
<1>1. idempotentScripts \in Seq(Scripts)
  <2>1. TocFiles \subseteq Scripts
    BY DEF Scripts, AllFiles
  <2> QED BY <2>1, IdempotentListed, WiderSeq, Zenon DEF Lists
<1>2. FirstInOrder(a) /\ OnlyRepeats(a, R) /\ OnceIn(a) = Installed(o, v)
  BY DEF IsSchema
<1>3. \A f \in OnceIn(a), g \in OnceIn(idempotentScripts) : Before(f, g)
  BY IdempotentOnce, Zenon
<1> DEFINE b == a \o idempotentScripts
<1>4. /\ OnceIn(b) = OnceIn(a) \cup OnceIn(idempotentScripts)
      /\ FirstInOrder(b) /\ OnlyRepeats(b, R) /\ EndsInContents(b)
  BY <1>1, <1>2, <1>3, IdempotentOnce, Appended
<1>5. OnceIn(b) = Installed(o, v)
  BY <1>2, <1>4, IdempotentOnce
<1> QED
  BY <1>4, <1>5, Zenon DEF IsSchema

(* An installation on an empty database.                                     *)
LEMMA InstallationBuilds ==
    ASSUME NEW v, NEW R
    PROVE  IsSchema(<<>> \o Upgrading(preinstallScripts), v, v, R)
<1> DEFINE U == Upgrading(preinstallScripts)
           b == <<>> \o U
<1>1. OnceIn(U) = PreFiles /\ OnceInOrder(U) /\ Refreshed(U)
  BY MiddleAscends, UpgradeOnce
<1>2. U \in Seq(Scripts)
  BY MiddleAscends, UpgradeDistinct
<1> HIDE DEF U
<1>3. <<>> \in Seq(Scripts) /\ DOMAIN <<>> = {}
  OBVIOUS
<1>4. OnceIn(<<>>) = {} /\ FirstInOrder(<<>>) /\ OnlyRepeats(<<>>, R)
  BY <1>3 DEF OnceIn, OnceAt, FirstAt, FirstInOrder, OnlyRepeats
<1>5. \A f \in OnceIn(<<>>), g \in OnceIn(U) : Before(f, g)
  BY <1>4
<1>6. OnceIn(b) = {} \cup PreFiles /\ FirstInOrder(b) /\ OnlyRepeats(b, R) /\ EndsInContents(b)
  BY <1>1, <1>2, <1>3, <1>4, <1>5, Appended
<1>7. Installed(v, v) = PreFiles
  BY DEF Installed
<1>8. OnceIn(b) = Installed(v, v)
  BY <1>6, <1>7
<1> QED
  BY <1>6, <1>8, Zenon DEF IsSchema, U

(* What is installed after an upgrade is what was, and what was due.         *)
LEMMA UpgradeCovers ==
    ASSUME NEW o \in Versions, NEW read \in Versions, NEW app \in Versions,
           ~Less(read, o), Less(read, app)
    PROVE  /\ Installed(o, app) = Installed(o, read) \cup Due(read, app)
           /\ \A f \in Installed(o, read), g \in Due(read, app) : Before(f, g)
<1> DEFINE V(f) == getMigrationFileVersion(f)
<1>1. \A u, v, w \in Versions : /\ ~Less(u, u)
                                /\ Less(u, v) /\ Less(v, w) => Less(u, w)
                                /\ u = v \/ Less(u, v) \/ Less(v, u)
  BY VersionOrder, Zenon
<1>2. o = read \/ Less(o, read)
  BY <1>1, Zenon
<1>3. ASSUME NEW v \in Versions
      PROVE  (Less(o, v) /\ ~Less(app, v)) <=>
             \/ Less(o, v) /\ ~Less(read, v)
             \/ Less(read, v) /\ (v = app \/ Less(v, app))
  <2>1. ASSUME Less(o, v), ~Less(app, v), Less(read, v) PROVE v = app \/ Less(v, app)
    BY <1>1, <2>1, Zenon
  <2>2. ASSUME Less(o, v), ~Less(read, v) PROVE ~Less(app, v)
    BY <1>1, <2>2, Zenon
  <2>3. ASSUME Less(read, v) PROVE Less(o, v)
    BY <1>1, <1>2, <2>3, Zenon
  <2>4. ASSUME v = app \/ Less(v, app) PROVE ~Less(app, v)
    BY <1>1, <2>4, Zenon
  <2> QED BY <2>1, <2>2, <2>3, <2>4, Zenon
<1>4. \A f \in VersionFiles : V(f) \in Versions
  BY VersionOfFile
<1>5. \A f \in VersionFiles : f \in Due(read, app) <=> Less(read, V(f)) /\ (V(f) = app \/ Less(V(f), app))
  BY Zenon DEF Due, InRange, LessEq
<1>6. Due(read, app) \subseteq VersionFiles
  BY DEF Due
<1>7. \A v : \A f \in VersionFiles : f \in Installed(o, v) <=> f \in PreFiles \/ (Less(o, V(f)) /\ ~Less(v, V(f)))
  BY Zenon DEF Installed
<1>8. \A v : PreFiles \subseteq Installed(o, v) /\ Installed(o, v) \subseteq PreFiles \cup VersionFiles
  BY DEF Installed
<1> HIDE DEF V
<1>9. Installed(o, app) = Installed(o, read) \cup Due(read, app)
  <2>1. \A f \in VersionFiles : f \in Installed(o, app) <=> f \in Installed(o, read) \cup Due(read, app)
    BY <1>3, <1>4, <1>5, <1>7, Zenon
  <2> QED BY <1>6, <1>8, <2>1
<1>10. ASSUME NEW f \in Installed(o, read), NEW g \in Due(read, app) PROVE Before(f, g)
  <2>1. g \in VersionFiles /\ Less(read, V(g)) /\ V(g) \in Versions
    BY <1>4, <1>5, <1>6, Zenon
  <2>2. CASE f \in PreFiles
    BY <2>1, <2>2, Zenon DEF Before
  <2>3. CASE f \in VersionFiles /\ ~Less(read, V(f))
    <3>1. V(f) = read \/ Less(V(f), read)
      BY <1>1, <1>4, <2>3, Zenon
    <3>2. Less(V(f), V(g))
      BY <1>1, <1>4, <2>1, <2>3, <3>1, Zenon
    <3> QED BY <2>1, <2>3, <3>2, Zenon DEF Before, V
  <2> QED BY <1>7, <1>8, <2>2, <2>3
<1> QED
  BY <1>9, <1>10

(* An upgrade from the version the schema has, or from one that it had,      *)
(* where what was due can be repeated.                                       *)
LEMMA UpgradeBuilds ==
    ASSUME NEW o \in Versions, NEW read \in Releases, NEW app \in Releases, NEW a \in Seq(Scripts),
           NEW v \in {read, app}, NEW R, IsSchema(a, o, v, R), ~Less(read, o), Less(read, app),
           ~AmbiguousVersions(VersionFiles),
           \A f \in Due(read, app) : f \in R \/ \A j \in DOMAIN a : a[j] # f
    PROVE  IsSchema(a \o Upgrading(versionScripts(read, app)), o, app, R)
<1> DEFINE X == versionScripts(read, app)
           U == Upgrading(X)
           D == Due(read, app)
           b == a \o U
<1>0. read \in Versions /\ app \in Versions
  BY MigrationAssumption
<1>1. /\ Installed(o, app) = Installed(o, read) \cup D
      /\ \A f \in Installed(o, read), g \in D : Before(f, g)
  BY <1>0, UpgradeCovers
<1>2. Ascends(X) /\ Lists(X, D)
  BY MiddleAscends
<1> HIDE DEF X, D
<1>3. OnceIn(U) = D /\ OnceInOrder(U) /\ Refreshed(U) /\ U \in Seq(Scripts)
  BY <1>2, UpgradeOnce, UpgradeDistinct
<1>4. OnceIn(a) = Installed(o, v) /\ FirstInOrder(a) /\ OnlyRepeats(a, R)
  BY DEF IsSchema
<1>5. \A f \in OnceIn(a) : \E j \in DOMAIN a : a[j] = f
  BY DEF OnceIn, OnceAt
<1>6. v = read \/ \A g \in D : g \in OnceIn(a) /\ g \in R
  <2>1. v = app => D \subseteq OnceIn(a)
    BY <1>1, <1>4
  <2> QED BY <1>5, <2>1, Zenon DEF D
<1>7. /\ \A f \in OnceIn(a), g \in D : Before(f, g) \/ (g \in OnceIn(a) /\ g \in R)
      /\ OnceIn(a) \cup D = Installed(o, app)
  BY <1>1, <1>4, <1>6
<1> HIDE DEF U
<1>8. OnceIn(b) = OnceIn(a) \cup D /\ FirstInOrder(b) /\ OnlyRepeats(b, R) /\ EndsInContents(b)
  BY <1>3, <1>4, <1>7, Appended
<1> QED
  BY <1>7, <1>8, Zenon DEF IsSchema, U, X
-----------------------------------------------------------------------------
(* The invariant of the schema.                                              *)

InDatabase ==
    /\ rerunnable \in Rerunnables
    /\ applied \in Seq(Scripts)
    /\ dbVersion \in Releases \cup {ZeroVersion}
    /\ dbVersion # ZeroVersion => origin \in Releases /\ ~Less(dbVersion, origin)

(* A call works off its scripts. *)
WorksOff(C) ==
    /\ C.pc # "tx" => C.log = <<>>
    /\ C.pc \in {"ensure", "read"} => ~C.sets
    /\ C.pc = "tx" => /\ C.log \in Seq(Scripts) /\ C.todo \in Seq(Scripts)
                      /\ C.log \o C.todo = Planned(C)

(* The version an upgrade starts from is still there, unless another         *)
(* connector was faster.                                                     *)
StartsFrom(C, version, first) ==
    C.pc = "tx" /\ C.sets /\ C.read # ZeroVersion =>
        /\ C.read \in Releases /\ Less(C.read, C.app)
        /\ version \in {C.read, C.app} /\ ~Less(C.read, first)
        /\ ~AmbiguousVersions(VersionFiles)

(* Whoever has changed the schema is alone, and what it did is new, unless   *)
(* it can be repeated.                                                       *)
Alone(C, c, lock, done, R) ==
    \A i \in DOMAIN C.log :
        /\ C.log[i] # Timescale => lock = c
        /\ C.log[i] \in Once \ R => \A j \in DOMAIN done : done[j] # C.log[i]

Excused(C, done) == C.refused # NoOne => InSeq(C.refused, done)

CallInv(c) ==
    /\ WorksOff(conn[c]) /\ StartsFrom(conn[c], dbVersion, origin)
    /\ Alone(conn[c], c, schemaLock, applied, rerunnable) /\ Excused(conn[c], applied)

SInv == InDatabase /\ SchemaMatchesVersion /\ \A c \in Connectors : CallInv(c)

(* The property in terms of the lists.                                       *)
LEMMA SchemaAsList ==
    SchemaMatchesVersion <=>
        IF dbVersion = ZeroVersion THEN applied = <<>> ELSE IsSchema(applied, origin, dbVersion, rerunnable)
  BY Zenon DEF SchemaMatchesVersion, IsSchema, OnceIn, OnceAt, FirstAt, FirstInOrder, OnlyRepeats,
               Installed, EndsInContents, LastAt, ContentsBefore

LEMMA SchemaAsListNext ==
    SchemaMatchesVersion' <=>
        IF dbVersion' = ZeroVersion THEN applied' = <<>> ELSE IsSchema(applied', origin', dbVersion', rerunnable')
  BY Zenon DEF SchemaMatchesVersion, IsSchema, OnceIn, OnceAt, FirstAt, FirstInOrder, OnlyRepeats,
               Installed, EndsInContents, LastAt, ContentsBefore

(* The step of one connector that leaves the database alone, and the lock to *)
(* another that has it.                                                      *)
LEMMA SchemaStep ==
    ASSUME MInv, SInv, NEW c \in Connectors, NEW C, conn' = [conn EXCEPT ![c] = C],
           UNCHANGED dbVars, \A d \in Connectors \ {c} : schemaLock = d => schemaLock' = d,
           WorksOff(C), StartsFrom(C, dbVersion, origin), Alone(C, c, schemaLock', applied, rerunnable),
           Excused(C, applied)
    PROVE  SInv'
<1>1. conn'[c] = C /\ \A d \in Connectors \ {c} : conn'[d] = conn[d]
  BY DEF MInv, Calls
<1>2. rerunnable' = rerunnable /\ dbVersion' = dbVersion /\ applied' = applied /\ origin' = origin
  BY DEF dbVars
<1>3. InDatabase' /\ SchemaMatchesVersion'
  <2>1. InDatabase'
    BY <1>2, Zenon DEF SInv, InDatabase
  <2>2. SchemaMatchesVersion
    BY DEF SInv
  <2>3. SchemaMatchesVersion'
    BY <1>2, <2>2, SchemaAsList, SchemaAsListNext, Zenon
  <2> QED BY <2>1, <2>3
<1>4. CallInv(c)'
  BY <1>1, <1>2, Zenon DEF CallInv
<1>5. ASSUME NEW d \in Connectors \ {c} PROVE CallInv(d)'
  <2>1. CallInv(d)
    BY DEF SInv
  <2>2. Alone(conn[d], d, schemaLock', applied, rerunnable)
    BY <2>1, Zenon DEF CallInv, Alone
  <2> QED BY <1>1, <1>2, <2>1, <2>2, Zenon DEF CallInv
<1> QED
  BY <1>3, <1>4, <1>5, Zenon DEF SInv

(* A call that has no transaction, or none yet, disturbs nothing.            *)
LEMMA QuietStep ==
    ASSUME MInv, SInv, NEW c \in Connectors, NEW C, conn' = [conn EXCEPT ![c] = C],
           UNCHANGED dbVars, \A d \in Connectors \ {c} : schemaLock = d => schemaLock' = d,
           C.pc # "tx", C.log = <<>>, C.pc \in {"ensure", "read"} => ~C.sets, Excused(C, applied)
    PROVE  SInv'
<1>1. WorksOff(C) /\ StartsFrom(C, dbVersion, origin)
  BY Zenon DEF WorksOff, StartsFrom
<1>2. DOMAIN <<>> = {}
  OBVIOUS
<1>3. Alone(C, c, schemaLock', applied, rerunnable)
  BY <1>2, Zenon DEF Alone
<1> QED
  BY <1>1, <1>3, SchemaStep, Zenon

(* The scripts of a transaction, once planned.                               *)
LEMMA PlannedScripts ==
    ASSUME NEW C, C.app \in Releases, C.sets => C.read = ZeroVersion \/ C.read \in Releases,
           C.sets /\ C.read # ZeroVersion => ~AmbiguousVersions(VersionFiles)
    PROVE  Planned(C) \in Seq(Scripts) /\ Distinct(Planned(C))
<1>1. CASE ~C.sets
  <2>1. Planned(C) = idempotentScripts
    BY <1>1, Zenon DEF Planned
  <2>2. TocFiles \subseteq Scripts
    BY DEF Scripts, AllFiles
  <2> QED BY <2>1, <2>2, IdempotentListed, WiderSeq, Zenon DEF Lists
<1>2. CASE C.sets
  <2> DEFINE X == IF C.read = ZeroVersion THEN preinstallScripts ELSE versionScripts(C.read, C.app)
  <2>1. Planned(C) = Upgrading(X)
    BY <1>2, Zenon DEF Planned
  <2>2. Ascends(X)
    BY <1>2, MiddleAscends, Zenon
  <2> HIDE DEF X
  <2> QED BY <2>1, <2>2, UpgradeDistinct, Zenon
<1> QED
  BY <1>1, <1>2

LEMMA PlanScripts ==
    ASSUME NEW C, IsCall(C), NEW v \in {dbVersion, ZeroVersion}, C.app \in Releases, C.log = <<>>,
           ~C.sets, InDatabase, NEW P, P = Plan(C, v)
    PROVE  /\ P.log = <<>> /\ P.refused \in {C.refused, NoOne} /\ P.pc \in {"tx", "extension", "failed"}
           /\ P.pc = "tx" => P.todo = Planned(P) /\ P.todo \in Seq(Scripts)
           /\ StartsFrom(P, dbVersion, origin)
<1> DEFINE Read == [C EXCEPT !.read = v]
           Upgrade(scripts) == [Read EXCEPT !.pc = "tx", !.sets = TRUE,
                                            !.todo = <<Timescale>> \o scripts \o idempotentScripts]
           Again == [Read EXCEPT !.pc = "tx", !.todo = idempotentScripts]
           Nothing == [Read EXCEPT !.pc = "extension"]
<1>1. Read \in Call(C.pc, C.app, v, C.todo, C.log, C.sets, C.refused)
  BY DEF Call, IsCall
<1>2. P = CASE v = C.app /\ IsDevRelease(C.app) -> Again
            [] v = C.app /\ ~IsDevRelease(C.app) -> Nothing
            [] Less(C.app, v) -> Idle("failed")
            [] v = ZeroVersion -> Upgrade(preinstallScripts)
            [] v # ZeroVersion /\ (Malformed(VersionFiles) \/ AmbiguousVersions(VersionFiles)) -> Idle("failed")
            [] OTHER -> Upgrade(versionScripts(v, C.app))
  BY Zenon DEF Plan
<1> HIDE DEF Read
<1>3. /\ Again.pc = "tx" /\ Again.app = C.app /\ Again.read = v /\ Again.todo = idempotentScripts
      /\ Again.log = <<>> /\ ~Again.sets /\ Again.refused = C.refused
  <2>1. Again \in Call("tx", C.app, v, idempotentScripts, C.log, C.sets, C.refused)
    BY <1>1, Zenon DEF Call
  <2> HIDE DEF Again
  <2> QED BY <2>1, Zenon DEF Call
<1>4. Nothing.pc = "extension" /\ Nothing.log = <<>> /\ Nothing.refused = C.refused
  <2>1. Nothing \in Call("extension", C.app, v, C.todo, C.log, C.sets, C.refused)
    BY <1>1, Zenon DEF Call
  <2> HIDE DEF Nothing
  <2> QED BY <2>1, Zenon DEF Call
<1>5. ASSUME NEW s
      PROVE  /\ Upgrade(s).pc = "tx" /\ Upgrade(s).app = C.app /\ Upgrade(s).read = v
             /\ Upgrade(s).todo = Upgrading(s) /\ Upgrade(s).log = <<>> /\ Upgrade(s).sets = TRUE
             /\ Upgrade(s).refused = C.refused
  <2> DEFINE todo == <<Timescale>> \o s \o idempotentScripts
             U == [Read EXCEPT !.pc = "tx", !.sets = TRUE, !.todo = todo]
  <2>0. Upgrade(s) = U /\ todo = Upgrading(s)
    BY DEF Upgrading
  <2> HIDE DEF todo, Upgrade
  <2>1. U \in Call("tx", C.app, v, todo, C.log, TRUE, C.refused)
    BY <1>1, Zenon DEF Call
  <2> HIDE DEF U
  <2>2. /\ U.pc = "tx" /\ U.app = C.app /\ U.read = v /\ U.todo = todo
        /\ U.log = <<>> /\ U.sets = TRUE /\ U.refused = C.refused
    BY <2>1, Zenon DEF Call
  <2> QED BY <2>0, <2>2, Zenon
<1> HIDE DEF Upgrade, Again, Nothing
<1>6. CASE P = Again
  <2>1. Planned(P) = idempotentScripts
    BY <1>3, <1>6, Zenon DEF Planned
  <2>2. P.app \in Releases /\ ~P.sets
    BY <1>3, <1>6, Zenon
  <2>3. Planned(P) \in Seq(Scripts)
    BY <2>2, PlannedScripts, Zenon
  <2>4. StartsFrom(P, dbVersion, origin)
    BY <2>2, Zenon DEF StartsFrom
  <2> QED BY <1>3, <1>6, <2>1, <2>3, <2>4, Zenon
<1>7. CASE P = Nothing
  BY <1>4, <1>7, Zenon DEF StartsFrom
<1>8. CASE P = Idle("failed")
  BY <1>8, IdleCall, Zenon DEF StartsFrom
<1>9. CASE v = ZeroVersion /\ P = Upgrade(preinstallScripts)
  <2>1. P.todo = Planned(P) /\ P.app \in Releases /\ P.read = ZeroVersion
    BY <1>5, <1>9, Zenon DEF Planned
  <2>2. Planned(P) \in Seq(Scripts)
    BY <2>1, PlannedScripts, Zenon
  <2>3. StartsFrom(P, dbVersion, origin)
    BY <2>1, Zenon DEF StartsFrom
  <2> QED BY <1>5, <1>9, <2>1, <2>2, <2>3, Zenon
<1>10. CASE /\ v # C.app /\ ~Less(C.app, v) /\ v # ZeroVersion /\ ~AmbiguousVersions(VersionFiles)
            /\ P = Upgrade(versionScripts(v, C.app))
  <2>1. v = dbVersion /\ v \in Releases /\ ~Less(v, origin)
    BY <1>10, Zenon DEF InDatabase
  <2>2. Less(v, C.app)
    <3>1. v \in Versions /\ C.app \in Versions
      BY <2>1, MigrationAssumption, Zenon
    <3> QED BY <1>10, <3>1, VersionOrder, Zenon
  <2>3. P.todo = Planned(P) /\ P.app = C.app /\ P.read = v
    BY <1>5, <1>10, Zenon DEF Planned
  <2>4. Planned(P) \in Seq(Scripts)
    BY <1>10, <2>1, <2>3, PlannedScripts, Zenon
  <2>5. StartsFrom(P, dbVersion, origin)
    BY <1>10, <2>1, <2>2, <2>3, Zenon DEF StartsFrom
  <2> QED BY <1>5, <1>10, <2>3, <2>4, <2>5, Zenon
<1> QED
  BY <1>2, <1>6, <1>7, <1>8, <1>9, <1>10, Zenon

(* One script goes from those to do to those that are done.                  *)
LEMMA WorkMoves ==
    ASSUME NEW S, NEW log \in Seq(S), NEW todo \in Seq(S), todo # <<>>
    PROVE  /\ Head(todo) \in S /\ Tail(todo) \in Seq(S) /\ Append(log, Head(todo)) \in Seq(S)
           /\ Append(log, Head(todo)) \o Tail(todo) = log \o todo
           /\ Distinct(log \o todo) => \A i \in DOMAIN log : log[i] # Head(todo)
           /\ \A i \in DOMAIN Append(log, Head(todo)) :
                 \/ i \in DOMAIN log /\ Append(log, Head(todo))[i] = log[i]
                 \/ Append(log, Head(todo))[i] = Head(todo)
<1> DEFINE f == Head(todo)
           r == Tail(todo)
           l == Append(log, f)
           whole == log \o todo
           moved == l \o r
<1>1. /\ f \in S /\ r \in Seq(S) /\ f = todo[1] /\ Len(todo) \in Nat /\ Len(todo) >= 1
      /\ Len(r) = Len(todo) - 1 /\ \A i \in 1..(Len(todo) - 1) : r[i] = todo[i + 1]
  BY HeadTailProperties
<1>2. /\ l \in Seq(S) /\ Len(log) \in Nat /\ Len(l) = Len(log) + 1 /\ l[Len(log) + 1] = f
      /\ \A i \in 1..Len(log) : l[i] = log[i]
  BY <1>1
<1> HIDE DEF f, r, l
<1>3. whole \in Seq(S) /\ Joins(whole, log, todo)
  BY JoinedLists, Zenon
<1>4. moved \in Seq(S) /\ Joins(moved, l, r)
  BY <1>1, <1>2, JoinedLists, Zenon
<1>5. /\ Len(whole) = Len(log) + Len(todo) /\ DOMAIN whole = 1..Len(whole)
      /\ \A i \in 1..Len(log) : whole[i] = log[i]
      /\ \A i \in 1..Len(todo) : whole[Len(log) + i] = todo[i]
      /\ DOMAIN log = 1..Len(log)
  BY <1>3, Zenon DEF Joins
<1>6. /\ Len(moved) = Len(l) + Len(r) /\ DOMAIN moved = 1..Len(moved)
      /\ \A i \in 1..Len(l) : moved[i] = l[i]
      /\ \A i \in 1..Len(r) : moved[Len(l) + i] = r[i]
      /\ DOMAIN l = 1..Len(l)
  BY <1>4, Zenon DEF Joins
<1> HIDE DEF whole, moved
<1>7. moved = whole
  <2>1. Len(moved) = Len(whole)
    BY <1>1, <1>2, <1>5, <1>6
  <2>2. ASSUME NEW i \in 1..Len(whole) PROVE moved[i] = whole[i]
    <3>1. CASE i <= Len(log)
      BY <1>2, <1>5, <1>6, <3>1
    <3>2. CASE i = Len(log) + 1
      BY <1>1, <1>2, <1>5, <1>6, <3>2
    <3>3. CASE i > Len(log) + 1
      <4>1. /\ i - Len(log) - 1 \in 1..(Len(todo) - 1) /\ i - Len(log) \in 1..Len(todo)
            /\ i = Len(l) + (i - Len(log) - 1) /\ i = Len(log) + (i - Len(log))
            /\ (i - Len(log) - 1) + 1 = i - Len(log) /\ i - Len(log) - 1 \in 1..Len(r)
        BY <1>1, <1>2, <1>5, <3>3
      <4>2. moved[i] = r[i - Len(log) - 1]
        BY <1>6, <4>1, Zenon
      <4>3. whole[i] = todo[i - Len(log)]
        BY <1>5, <4>1, Zenon
      <4>4. r[i - Len(log) - 1] = todo[i - Len(log)]
        BY <1>1, <4>1, Zenon
      <4> QED BY <4>2, <4>3, <4>4
    <3> QED BY <1>2, <3>1, <3>2, <3>3
  <2> QED BY <1>3, <1>4, <2>1, <2>2, SeqEqual
<1>8. ASSUME Distinct(whole), NEW i \in DOMAIN log PROVE log[i] # f
  <2>1. i \in DOMAIN whole /\ Len(log) + 1 \in DOMAIN whole /\ i < Len(log) + 1
    BY <1>1, <1>2, <1>5
  <2>2. whole[i] = log[i] /\ whole[Len(log) + 1] = f
    BY <1>1, <1>5
  <2> QED BY <1>8, <2>1, <2>2, Zenon DEF Distinct
<1>9. ASSUME NEW i \in DOMAIN l PROVE (i \in DOMAIN log /\ l[i] = log[i]) \/ l[i] = f
  BY <1>2, <1>5, <1>6
<1> QED
  BY <1>1, <1>2, <1>7, <1>8, <1>9 DEF f, r, l, whole, moved

(* What holds of a connector in its transaction.                             *)
LEMMA InTransaction ==
    ASSUME MInv, SInv, NEW c \in Connectors, conn[c].pc = "tx"
    PROVE  /\ IsCall(conn[c]) /\ conn[c].app \in Releases
           /\ conn[c].log \in Seq(Scripts) /\ conn[c].todo \in Seq(Scripts)
           /\ conn[c].log \o conn[c].todo = Planned(conn[c])
           /\ Distinct(Planned(conn[c]))
<1>1. CallInv(c) /\ IsCall(conn[c]) /\ Running(c)
  BY Zenon DEF SInv, MInv, Calls, Running
<1>2. conn[c].app \in Releases
  BY <1>1, Zenon DEF MInv, Calls
<1>3. WorksOff(conn[c]) /\ StartsFrom(conn[c], dbVersion, origin)
  BY <1>1, Zenon DEF CallInv
<1>4. /\ conn[c].sets => conn[c].read = ZeroVersion \/ conn[c].read \in Releases
      /\ conn[c].sets /\ conn[c].read # ZeroVersion => ~AmbiguousVersions(VersionFiles)
  BY <1>3, Zenon DEF StartsFrom
<1>5. Distinct(Planned(conn[c]))
  BY <1>2, <1>4, PlannedScripts, Zenon
<1> QED
  BY <1>1, <1>2, <1>3, <1>5, Zenon DEF WorksOff

(* A script is refused because it was applied, or it is done.                *)
LEMMA ExecStep ==
    ASSUME MInv, SInv, NEW c \in Connectors, ExecMigrationFile(c)
    PROVE  SInv'
<1> DEFINE C == conn[c]
           f == Head(C.todo)
<1>1. /\ C.pc = "tx" /\ C.todo # <<>> /\ schemaLock \in {NoOne, c} /\ UNCHANGED dbVars
      /\ \/ /\ Refuses(c, f) \/ f \in Unresolved
            /\ conn' = [conn EXCEPT ![c] = [Idle("failed") EXCEPT !.refused = f]]
            /\ schemaLock' = Rollback(c)
         \/ /\ ~Refuses(c, f)
            /\ conn' = [conn EXCEPT ![c] = [C EXCEPT !.todo = Tail(C.todo), !.log = Append(C.log, f)]]
            /\ schemaLock' = IF f = Timescale THEN schemaLock ELSE c
  BY Zenon DEF ExecMigrationFile
<1>2. /\ IsCall(C) /\ C.app \in Releases /\ C.log \in Seq(Scripts) /\ C.todo \in Seq(Scripts)
      /\ C.log \o C.todo = Planned(C) /\ Distinct(Planned(C))
  BY <1>1, InTransaction, Zenon
<1>3. CallInv(c)
  BY DEF SInv
<1>4. /\ f \in Scripts /\ Tail(C.todo) \in Seq(Scripts) /\ Append(C.log, f) \in Seq(Scripts)
      /\ Append(C.log, f) \o Tail(C.todo) = Planned(C)
      /\ \A i \in DOMAIN C.log : C.log[i] # f
      /\ \A i \in DOMAIN Append(C.log, f) :
            (i \in DOMAIN C.log /\ Append(C.log, f)[i] = C.log[i]) \/ Append(C.log, f)[i] = f
  <2>1. ASSUME NEW todo, NEW log, todo \in Seq(Scripts), log \in Seq(Scripts), todo # <<>>,
               NEW P, log \o todo = P, Distinct(P)
        PROVE  /\ Head(todo) \in Scripts /\ Tail(todo) \in Seq(Scripts) /\ Append(log, Head(todo)) \in Seq(Scripts)
               /\ Append(log, Head(todo)) \o Tail(todo) = P
               /\ \A i \in DOMAIN log : log[i] # Head(todo)
               /\ \A i \in DOMAIN Append(log, Head(todo)) :
                     \/ i \in DOMAIN log /\ Append(log, Head(todo))[i] = log[i]
                     \/ Append(log, Head(todo))[i] = Head(todo)
    BY <2>1, WorkMoves, ZenonT(60)
  <2> QED BY <1>1, <1>2, <2>1, Zenon
<1> HIDE DEF f
<1>5. CASE /\ Refuses(c, f) \/ f \in Unresolved
           /\ conn' = [conn EXCEPT ![c] = [Idle("failed") EXCEPT !.refused = f]]
           /\ schemaLock' = Rollback(c)
  <2> DEFINE P == [Idle("failed") EXCEPT !.refused = f]
  <2>1. DOMAIN C.log = 1..Len(C.log)
    BY <1>2
  <2>2. ~InSeq(f, C.log)
    BY <1>4, <2>1, Zenon DEF InSeq
  <2>3. InSeq(f, applied)
    BY <1>5, <2>2, NoneUnresolved, Zenon DEF Refuses
  <2>4. P.pc = "failed" /\ P.log = <<>> /\ P.refused = f
    BY EndedCall, Zenon
  <2>5. conn' = [conn EXCEPT ![c] = P]
    BY <1>5
  <2> HIDE DEF P
  <2>6. Excused(P, applied)
    BY <2>3, <2>4, Zenon DEF Excused
  <2>7. \A d \in Connectors \ {c} : schemaLock = d => schemaLock' = d
    BY <1>5 DEF Rollback
  <2> QED BY <1>1, <2>4, <2>5, <2>6, <2>7, QuietStep, Zenon
<1>6. CASE /\ ~Refuses(c, f)
           /\ conn' = [conn EXCEPT ![c] = [C EXCEPT !.todo = Tail(C.todo), !.log = Append(C.log, f)]]
           /\ schemaLock' = IF f = Timescale THEN schemaLock ELSE c
  <2> DEFINE r == Tail(C.todo)
             l == Append(C.log, f)
             P == [C EXCEPT !.todo = r, !.log = l]
  <2>1. P \in Call(C.pc, C.app, C.read, r, l, C.sets, C.refused)
    <3> HIDE DEF r, l
    <3> QED BY <1>2, Zenon DEF IsCall, Call
  <2>2. conn' = [conn EXCEPT ![c] = P]
    BY <1>6
  <2> HIDE DEF P
  <2>3. /\ P.pc = "tx" /\ P.app = C.app /\ P.read = C.read /\ P.todo = r /\ P.log = l
        /\ P.sets = C.sets /\ P.refused = C.refused
    BY <1>1, <2>1, Zenon DEF Call
  <2>4. Planned(P) = Planned(C)
    BY <2>3, Zenon DEF Planned
  <2>5. WorksOff(P)
    BY <1>4, <2>3, <2>4, Zenon DEF WorksOff
  <2>6. StartsFrom(P, dbVersion, origin)
    BY <1>1, <1>3, <2>3, Zenon DEF CallInv, StartsFrom
  <2>7. Excused(P, applied)
    BY <1>3, <2>3, Zenon DEF CallInv, Excused
  <2>8. f \in Once \ rerunnable => \A j \in DOMAIN applied : applied[j] # f
    <3>1. applied \in Seq(Scripts)
      BY DEF SInv, InDatabase
    <3>2. DOMAIN applied = 1..Len(applied)
      BY <3>1
    <3> QED BY <1>6, <3>2, Zenon DEF Refuses, InSeq
  <2>9. ASSUME NEW i \in DOMAIN P.log
        PROVE  /\ P.log[i] # Timescale => schemaLock' = c
               /\ P.log[i] \in Once \ rerunnable => \A j \in DOMAIN applied : applied[j] # P.log[i]
    <3>1. (i \in DOMAIN C.log /\ P.log[i] = C.log[i]) \/ P.log[i] = f
      BY <1>4, <2>3, Zenon
    <3>2. CASE i \in DOMAIN C.log /\ P.log[i] = C.log[i]
      BY <1>3, <1>6, <3>2, Zenon DEF CallInv, Alone
    <3>3. CASE P.log[i] = f
      BY <1>6, <2>8, <3>3, Zenon
    <3> QED BY <3>1, <3>2, <3>3
  <2>10. Alone(P, c, schemaLock', applied, rerunnable)
    BY <2>9, Zenon DEF Alone
  <2>11. \A d \in Connectors \ {c} : schemaLock = d => schemaLock' = d
    BY <1>1, MigrationAssumption
  <2> QED BY <1>1, <2>2, <2>5, <2>6, <2>7, <2>10, <2>11, SchemaStep, Zenon
<1> QED
  BY <1>1, <1>5, <1>6, Zenon

(* A transaction leaves the schema of its version, which is new where it     *)
(* installs it.                                                              *)
LEMMA CommitSchema ==
    ASSUME MInv, SInv, NEW c \in Connectors, conn[c].pc = "tx", conn[c].todo = <<>>, CommitEffect(c)
    PROVE  /\ InDatabase' /\ SchemaMatchesVersion'
           /\ dbVersion' = conn[c].app
           /\ origin' = origin \/ dbVersion = ZeroVersion
<1> DEFINE K == conn[c]
           L == K.log
<1>1. /\ rerunnable' = rerunnable /\ applied' = applied \o L
      /\ dbVersion' = IF K.sets THEN K.app ELSE dbVersion
      /\ origin' = IF K.sets /\ K.read = ZeroVersion THEN K.app ELSE origin
  BY Zenon DEF CommitEffect, SetDBVersion
<1>2. K.app \in Releases /\ L \in Seq(Scripts) /\ L \o K.todo = Planned(K)
  BY InTransaction, Zenon
<1>3. L = Planned(K)
  BY <1>2, ConcatEmptySeq
<1>4. CallInv(c) /\ InDatabase /\ SchemaMatchesVersion
  BY DEF SInv
<1>5. \A i \in DOMAIN L : L[i] \in Once \ rerunnable => \A j \in DOMAIN applied : applied[j] # L[i]
  BY <1>4, Zenon DEF CallInv, Alone
<1>6. dbVersion' = K.app
  BY <1>1, Zenon DEF MInv, FoundItsOwn
<1>7. K.app # ZeroVersion /\ \A v \in Releases : v # ZeroVersion /\ v \in Versions
  BY <1>2, ReleaseIsInstalled, MigrationAssumption, Zenon
<1>8. applied' \in Seq(Scripts)
  <2>1. applied \in Seq(Scripts)
    BY <1>4 DEF InDatabase
  <2> QED BY <1>1, <1>2, <2>1, JoinedLists, Zenon
<1>9. applied \in Seq(Scripts) /\ (dbVersion # ZeroVersion => origin \in Releases /\ ~Less(dbVersion, origin))
  BY <1>4, Zenon DEF InDatabase
<1>10. \A v \in Releases : ~Less(v, v)
  BY <1>7, VersionOrder, Zenon
<1> HIDE DEF L, K
<1>11. SUFFICES /\ IsSchema(applied', origin', K.app, rerunnable) /\ origin' \in Releases /\ ~Less(K.app, origin')
                /\ origin' = origin \/ dbVersion = ZeroVersion
  <2>1. InDatabase'
    BY <1>1, <1>2, <1>4, <1>6, <1>8, <1>11, Zenon DEF InDatabase
  <2>2. SchemaMatchesVersion'
    BY <1>1, <1>6, <1>7, <1>11, SchemaAsListNext, Zenon
  <2> QED BY <1>6, <1>11, <2>1, <2>2, Zenon DEF K
<1>12. dbVersion # ZeroVersion => IsSchema(applied, origin, dbVersion, rerunnable)
  BY <1>4, SchemaAsList, Zenon
<1>13. dbVersion = ZeroVersion => applied = <<>>
  BY <1>4, SchemaAsList, Zenon
<1>14. CASE ~K.sets
  <2>1. L = idempotentScripts
    BY <1>3, <1>14, Zenon DEF Planned
  <2>2. dbVersion = K.app /\ origin' = origin
    BY <1>1, <1>6, <1>14, Zenon
  <2>3. IsSchema(applied \o idempotentScripts, origin, K.app, rerunnable)
    BY <1>7, <1>9, <1>12, <2>2, RefreshKeeps, Zenon
  <2> QED BY <1>1, <1>7, <1>9, <2>1, <2>2, <2>3, Zenon
<1>15. CASE K.sets /\ K.read = ZeroVersion
  <2>1. L = Upgrading(preinstallScripts)
    BY <1>3, <1>15, Zenon DEF Planned
  <2>2. Ascends(preinstallScripts) /\ Lists(preinstallScripts, PreFiles)
    BY MiddleAscends
  <2>3. OnceIn(L) = PreFiles
    BY <2>1, <2>2, UpgradeOnce, Zenon
  <2>4. PICK p \in PreFiles : p \notin rerunnable
    BY <1>4, MigrationAssumption DEF InDatabase
  <2>5. PICK i \in DOMAIN L : L[i] = p
    BY <2>3, <2>4 DEF OnceIn, OnceAt
  <2>6. \A j \in DOMAIN applied : applied[j] # p
    BY <1>5, <2>4, <2>5 DEF Once
  <2>7. ASSUME dbVersion # ZeroVersion PROVE FALSE
    <3>1. OnceIn(applied) = Installed(origin, dbVersion)
      BY <1>12, <2>7, Zenon DEF IsSchema
    <3>2. p \in OnceIn(applied)
      BY <2>4, <3>1 DEF Installed
    <3> QED BY <2>6, <3>2, Zenon DEF OnceIn, OnceAt
  <2>8. applied' = <<>> \o Upgrading(preinstallScripts) /\ origin' = K.app
    BY <1>1, <1>13, <1>15, <2>1, <2>7, Zenon
  <2> QED BY <1>2, <1>10, <2>7, <2>8, InstallationBuilds, Zenon
<1>16. CASE K.sets /\ K.read # ZeroVersion
  <2> DEFINE X == versionScripts(K.read, K.app)
             D == Due(K.read, K.app)
  <2>1. L = Upgrading(X) /\ origin' = origin
    BY <1>1, <1>3, <1>16, Zenon DEF Planned
  <2>2. /\ K.read \in Releases /\ Less(K.read, K.app) /\ dbVersion \in {K.read, K.app}
        /\ ~Less(K.read, origin) /\ ~AmbiguousVersions(VersionFiles)
    BY <1>4, <1>16, Zenon DEF CallInv, StartsFrom, K
  <2>3. dbVersion # ZeroVersion /\ origin \in Releases
    BY <1>2, <1>7, <1>9, <2>2
  <2>4. IsSchema(applied, origin, dbVersion, rerunnable)
    BY <1>12, <2>3
  <2>5. Ascends(X) /\ Lists(X, D)
    BY <1>2, <2>2, MiddleAscends, Zenon
  <2>6. OnceIn(L) = D
    BY <2>1, <2>5, UpgradeOnce, Zenon
  <2>7. ASSUME NEW f \in D, f \notin rerunnable, NEW j \in DOMAIN applied PROVE applied[j] # f
    <3>1. PICK i \in DOMAIN L : L[i] = f
      BY <2>6 DEF OnceIn, OnceAt
    <3>2. f \in Once
      BY DEF Due, Once
    <3> QED BY <1>5, <2>7, <3>1, <3>2, Zenon
  <2>8. IsSchema(applied \o Upgrading(X), origin, K.app, rerunnable)
    <3>1. origin \in Versions
      BY <1>7, <2>3
    <3> QED BY <1>2, <1>9, <2>2, <2>4, <2>7, <3>1, UpgradeBuilds, Zenon
  <2>9. ~Less(K.app, origin)
    <3>1. K.read \in Versions /\ K.app \in Versions /\ origin \in Versions
      BY <1>2, <1>7, <2>2, <2>3
    <3> QED BY <2>2, <3>1, VersionOrder, Zenon
  <2> QED BY <1>1, <2>1, <2>3, <2>8, <2>9, Zenon
<1> QED
  BY <1>14, <1>15, <1>16, Zenon

(* The end of a transaction, as it is seen by everybody.                     *)
LEMMA CommitStep ==
    ASSUME MInv, SInv, NEW c \in Connectors, conn[c].pc = "tx", conn[c].todo = <<>>, CommitEffect(c),
           NEW C, conn' = [conn EXCEPT ![c] = C], C.pc \in {"extension", "failed"}, C.log = <<>>,
           C.refused \in {conn[c].refused, NoOne}
    PROVE  SInv'
<1> DEFINE L == conn[c].log
<1>1. conn'[c] = C /\ \A d \in Connectors \ {c} : conn'[d] = conn[d]
  BY DEF MInv, Calls
<1>2. /\ InDatabase' /\ SchemaMatchesVersion'
      /\ dbVersion' = conn[c].app /\ (origin' = origin \/ dbVersion = ZeroVersion)
  BY CommitSchema, Zenon
<1>3. applied' = applied \o L /\ schemaLock' = Rollback(c) /\ rerunnable' = rerunnable
  BY DEF CommitEffect
<1>4. L \in Seq(Scripts) /\ applied \in Seq(Scripts) /\ CallInv(c)
  BY InTransaction, Zenon DEF SInv, InDatabase
<1>5. Joins(applied', applied, L)
  BY <1>3, <1>4, JoinedLists, Zenon
<1>6. /\ Len(applied) \in Nat /\ Len(L) \in Nat /\ Len(applied') = Len(applied) + Len(L)
      /\ DOMAIN applied' = 1..Len(applied') /\ DOMAIN applied = 1..Len(applied) /\ DOMAIN L = 1..Len(L)
      /\ \A i \in 1..Len(applied) : applied'[i] = applied[i]
      /\ \A i \in 1..Len(L) : applied'[Len(applied) + i] = L[i]
  BY <1>5, Zenon DEF Joins
<1> HIDE DEF L
<1>7. ASSUME NEW f, InSeq(f, applied) PROVE InSeq(f, applied')
  <2>1. PICK i \in 1..Len(applied) : applied[i] = f
    BY <1>7, Zenon DEF InSeq
  <2>2. i \in 1..Len(applied') /\ applied'[i] = f
    BY <1>6, <2>1
  <2> QED BY <2>2, Zenon DEF InSeq
<1>8. ASSUME NEW j \in DOMAIN applied'
      PROVE  (j \in DOMAIN applied /\ applied'[j] = applied[j]) \/ \E i \in DOMAIN L : applied'[j] = L[i]
  <2>1. CASE j <= Len(applied)
    BY <1>6, <2>1
  <2>2. CASE j > Len(applied)
    <3>1. j - Len(applied) \in 1..Len(L) /\ Len(applied) + (j - Len(applied)) = j
      BY <1>6, <2>2
    <3>2. \A i \in 1..Len(L) : Len(applied) + i = j => applied'[j] = L[i]
      BY <1>6, Zenon
    <3> QED BY <1>6, <3>1, <3>2, Zenon
  <2> QED BY <1>6, <2>1, <2>2
<1>9. CallInv(c)'
  <2>1. DOMAIN <<>> = {}
    OBVIOUS
  <2>2. WorksOff(C) /\ StartsFrom(C, dbVersion', origin') /\ Alone(C, c, schemaLock', applied', rerunnable')
    BY <2>1, Zenon DEF WorksOff, StartsFrom, Alone
  <2>3. Excused(C, applied')
    BY <1>4, <1>7, Zenon DEF CallInv, Excused
  <2> QED BY <1>1, <2>2, <2>3, Zenon DEF CallInv
<1>10. ASSUME NEW d \in Connectors \ {c} PROVE CallInv(d)'
  <2>1. CallInv(d) /\ IsCall(conn[d])
    BY DEF SInv, MInv, Calls
  <2>2. StartsFrom(conn[d], dbVersion', origin')
    <3> SUFFICES ASSUME conn[d].pc = "tx" /\ conn[d].sets /\ conn[d].read # ZeroVersion
                 PROVE  /\ conn[d].read \in Releases /\ Less(conn[d].read, conn[d].app)
                        /\ dbVersion' \in {conn[d].read, conn[d].app} /\ ~Less(conn[d].read, origin')
                        /\ ~AmbiguousVersions(VersionFiles)
      BY Zenon DEF StartsFrom
    <3>1. /\ conn[d].read \in Releases /\ Less(conn[d].read, conn[d].app)
          /\ dbVersion \in {conn[d].read, conn[d].app} /\ ~Less(conn[d].read, origin)
          /\ ~AmbiguousVersions(VersionFiles)
      BY <2>1, Zenon DEF CallInv, StartsFrom
    <3>2. Running(c) /\ Running(d)
      BY Zenon DEF Running
    <3>3. conn[d].app = conn[c].app /\ conn[d].app \in Releases
      BY <3>2, Zenon DEF MInv, OneRelease, Calls
    <3>4. dbVersion # ZeroVersion
      BY <3>1, <3>3, ReleaseIsInstalled
    <3> QED BY <1>2, <3>1, <3>3, <3>4
  <2>3. Alone(conn[d], d, schemaLock', applied', rerunnable)
    <3> SUFFICES ASSUME NEW i \in DOMAIN conn[d].log
                 PROVE  /\ conn[d].log[i] # Timescale => schemaLock' = d
                        /\ conn[d].log[i] \in Once \ rerunnable => \A j \in DOMAIN applied' : applied'[j] # conn[d].log[i]
      BY Zenon DEF Alone
    <3>1. /\ conn[d].log[i] # Timescale => schemaLock = d
          /\ conn[d].log[i] \in Once \ rerunnable => \A j \in DOMAIN applied : applied[j] # conn[d].log[i]
      BY <2>1, Zenon DEF CallInv, Alone
    <3>2. conn[d].log[i] # Timescale => schemaLock' = d
      BY <1>3, <3>1 DEF Rollback
    <3>3. Timescale \notin Once
      BY MigrationAssumption DEF Once, AllFiles
    <3>4. ASSUME conn[d].log[i] \in Once \ rerunnable, NEW k \in DOMAIN L PROVE L[k] = Timescale
      <4>1. schemaLock # c
        BY <3>1, <3>3, <3>4
      <4> QED BY <1>4, <4>1, Zenon DEF CallInv, Alone, L
    <3>5. ASSUME conn[d].log[i] \in Once \ rerunnable, NEW j \in DOMAIN applied' PROVE applied'[j] # conn[d].log[i]
      BY <1>8, <3>1, <3>3, <3>4, <3>5, Zenon
    <3> QED BY <3>2, <3>5
  <2>4. Excused(conn[d], applied')
    BY <1>7, <2>1, Zenon DEF CallInv, Excused
  <2> QED BY <1>1, <1>3, <2>1, <2>2, <2>3, <2>4, Zenon DEF CallInv
<1> QED
  BY <1>2, <1>9, <1>10, Zenon DEF SInv

(* Whatever a connector does keeps the schema in order.                      *)
LEMMA SchemaInv ==
    ASSUME MInv, SInv, NEW c \in Connectors, Start(c) \/ Step(c) \/ CommitLost(c) \/ Fail(c)
    PROVE  SInv'
<1>0. CallInv(c) /\ IsCall(conn[c]) /\ (Running(c) => conn[c].app \in Releases)
  BY Zenon DEF SInv, MInv, Calls
<1>1. WorksOff(conn[c]) /\ Excused(conn[c], applied)
  BY <1>0, Zenon DEF CallInv
<1>2. CASE Start(c)
  <2>1. PICK v \in Releases : conn' = [conn EXCEPT ![c] = [Idle("ensure") EXCEPT !.app = v]]
    BY <1>2, Zenon DEF Start
  <2> DEFINE C == [Idle("ensure") EXCEPT !.app = v]
  <2>2. Idle("ensure") \in Call("ensure", ZeroVersion, ZeroVersion, <<>>, <<>>, FALSE, NoOne)
    BY Zenon DEF Idle, Call
  <2>3. C \in Call("ensure", v, ZeroVersion, <<>>, <<>>, FALSE, NoOne)
    BY <2>2, Zenon DEF Call
  <2>4. conn' = [conn EXCEPT ![c] = C]
    BY <2>1
  <2> HIDE DEF C
  <2>5. C.pc = "ensure" /\ C.log = <<>> /\ C.sets = FALSE /\ C.refused = NoOne
    BY <2>3, Zenon DEF Call
  <2>6. UNCHANGED dbVars /\ schemaLock' = schemaLock
    BY <1>2, Zenon DEF Start
  <2> QED BY <2>4, <2>5, <2>6, QuietStep, Zenon DEF Excused
<1>3. CASE EnsureVersionTable(c)
  <2>1. conn' = [conn EXCEPT ![c] = [conn[c] EXCEPT !.pc = "read"]] /\ conn[c].pc = "ensure"
    BY <1>3, Zenon DEF EnsureVersionTable
  <2>2. UNCHANGED dbVars /\ schemaLock' = schemaLock
    BY <1>3, Zenon DEF EnsureVersionTable
  <2>3. conn[c].log = <<>> /\ ~conn[c].sets
    BY <1>1, <2>1, Zenon DEF WorksOff
  <2> DEFINE C == [conn[c] EXCEPT !.pc = "read"]
  <2>4. C.pc = "read" /\ C.log = <<>> /\ ~C.sets /\ C.refused = conn[c].refused
    BY <1>0, <2>3, NextPc, ZenonT(60)
  <2> HIDE DEF C
  <2> QED BY <1>1, <2>1, <2>2, <2>4, QuietStep, Zenon DEF Excused, C
<1>4. CASE GetDBVersion(c)
  <2>1. Running(c) /\ UNCHANGED dbVars /\ schemaLock' = schemaLock /\ conn[c].pc = "read"
    BY <1>4, Zenon DEF GetDBVersion, Running
  <2>2. PICK v \in {dbVersion, ZeroVersion} : conn' = [conn EXCEPT ![c] = Plan(conn[c], v)]
    BY <1>4, Zenon DEF GetDBVersion
  <2>3. conn[c].log = <<>> /\ ~conn[c].sets
    BY <1>1, <2>1, Zenon DEF WorksOff
  <2> DEFINE P == Plan(conn[c], v)
  <2>4. InDatabase
    BY DEF SInv
  <2>5. /\ P.log = <<>> /\ P.refused \in {conn[c].refused, NoOne} /\ P.pc \in {"tx", "extension", "failed"}
        /\ P.pc = "tx" => P.todo = Planned(P) /\ P.todo \in Seq(Scripts)
        /\ StartsFrom(P, dbVersion, origin)
    BY <1>0, <2>1, <2>3, <2>4, PlanScripts, Zenon
  <2>6. conn' = [conn EXCEPT ![c] = P]
    BY <2>2
  <2> HIDE DEF P
  <2>7. WorksOff(P)
    <3>1. \A s \in Seq(Scripts) : <<>> \in Seq(Scripts) /\ <<>> \o s = s
      BY ConcatEmptySeq, EmptySeq
    <3> QED BY <2>5, <3>1, Zenon DEF WorksOff
  <2>8. Excused(P, applied)
    BY <1>1, <2>5, Zenon DEF Excused
  <2>9. Alone(P, c, schemaLock', applied, rerunnable)
    <3>1. DOMAIN <<>> = {}
      OBVIOUS
    <3> QED BY <2>5, <3>1, Zenon DEF Alone
  <2> QED BY <2>1, <2>5, <2>6, <2>7, <2>8, <2>9, SchemaStep, Zenon
<1>5. CASE ExecMigrationFile(c)
  BY <1>5, ExecStep
<1>6. CASE Commit(c)
  <2>1. conn[c].pc = "tx" /\ conn[c].todo = <<>> /\ CommitEffect(c)
    BY <1>6, Zenon DEF Commit
  <2> DEFINE Q == [conn[c] EXCEPT !.pc = "extension", !.log = <<>>]
  <2>2. conn' = [conn EXCEPT ![c] = Q]
    BY <1>6, Zenon DEF Commit
  <2>3. Q \in Call("extension", conn[c].app, conn[c].read, conn[c].todo, <<>>,
                    conn[c].sets, conn[c].refused)
    BY <1>0, Zenon DEF IsCall, Call
  <2> HIDE DEF Q
  <2>4. Q.pc = "extension" /\ Q.log = <<>> /\ Q.refused = conn[c].refused
    BY <2>3, Zenon DEF Call
  <2> QED BY <2>1, <2>2, <2>4, CommitStep, Zenon
<1>7. CASE CommitLost(c)
  <2>1. /\ conn[c].pc = "tx" /\ conn[c].todo = <<>> /\ CommitEffect(c)
        /\ conn' = [conn EXCEPT ![c] = Idle("failed")]
    BY <1>7, Zenon DEF CommitLost
  <2>2. Idle("failed").pc = "failed" /\ Idle("failed").log = <<>> /\ Idle("failed").refused = NoOne
    BY IdleCall, Zenon
  <2> QED BY <2>1, <2>2, CommitStep, Zenon
<1>8. CASE InstallExtension(c)
  <2>1. conn' = [conn EXCEPT ![c] = [conn[c] EXCEPT !.pc = "done"]] /\ conn[c].pc = "extension"
    BY <1>8, Zenon DEF InstallExtension
  <2>2. UNCHANGED dbVars /\ schemaLock' = schemaLock
    BY <1>8, Zenon DEF InstallExtension
  <2>3. conn[c].log = <<>>
    BY <1>1, <2>1, Zenon DEF WorksOff
  <2> DEFINE C == [conn[c] EXCEPT !.pc = "done"]
  <2>4. C.pc = "done" /\ C.log = <<>> /\ C.refused = conn[c].refused
    BY <1>0, <2>3, NextPc, ZenonT(60)
  <2> HIDE DEF C
  <2> QED BY <1>1, <2>1, <2>2, <2>4, QuietStep, Zenon DEF Excused, C
<1>9. CASE Fail(c)
  <2>1. PICK pc \in {"off", "failed"} : conn' = [conn EXCEPT ![c] = Idle(pc)]
    BY <1>9, Zenon DEF Fail
  <2>2. UNCHANGED dbVars /\ schemaLock' = Rollback(c)
    BY <1>9, Zenon DEF Fail
  <2>3. \A d \in Connectors \ {c} : schemaLock = d => schemaLock' = d
    BY <2>2 DEF Rollback
  <2>4. Idle(pc).pc = pc /\ Idle(pc).log = <<>> /\ Idle(pc).refused = NoOne
    BY IdleCall, Zenon
  <2> QED BY <2>1, <2>2, <2>3, <2>4, QuietStep, Zenon DEF Excused
<1> QED
  BY <1>2, <1>3, <1>4, <1>5, <1>6, <1>7, <1>8, <1>9, Zenon DEF Step

LEMMA SchemaInit == Init => SInv
<1> SUFFICES ASSUME Init PROVE SInv
  OBVIOUS
<1>1. rerunnable \in Rerunnables /\ dbVersion = ZeroVersion /\ applied = <<>>
  BY DEF Init
<1>2. InDatabase
  BY <1>1, EmptySeq DEF InDatabase
<1>3. SchemaMatchesVersion
  BY <1>1, SchemaAsList, Zenon
<1>4. ASSUME NEW c \in Connectors PROVE CallInv(c)
  <2>1. conn[c] = Idle("off")
    BY DEF Init
  <2>2. /\ conn[c].pc = "off" /\ conn[c].log = <<>> /\ conn[c].refused = NoOne
    BY <2>1, IdleCall, Zenon
  <2>3. DOMAIN <<>> = {}
    OBVIOUS
  <2> QED BY <2>2, <2>3, Zenon DEF CallInv, WorksOff, StartsFrom, Alone, Excused
<1> QED
  BY <1>2, <1>3, <1>4, Zenon DEF SInv

LEMMA SchemaNext ==
    ASSUME MInv, SInv, [Next]_vars
    PROVE  SInv'
<1>1. CASE Next
  BY <1>1, SchemaInv, Zenon DEF Next
<1>2. CASE UNCHANGED vars
  <2>1. /\ rerunnable' = rerunnable /\ dbVersion' = dbVersion /\ applied' = applied /\ origin' = origin
        /\ schemaLock' = schemaLock /\ conn' = conn
    BY <1>2 DEF vars
  <2>2. InDatabase' /\ \A c \in Connectors : CallInv(c)'
    BY <2>1, Zenon DEF SInv, InDatabase, CallInv
  <2>3. SchemaMatchesVersion
    BY DEF SInv
  <2>4. SchemaMatchesVersion'
    BY <2>1, <2>3, SchemaAsList, SchemaAsListNext, Zenon
  <2> QED BY <2>2, <2>4, Zenon DEF SInv
<1> QED
  BY <1>1, <1>2

(* With connectors of one release at a time, whoever crashes, races or loses *)
(* an answer, the schema is what its version says: the preinstall scripts    *)
(* by their numbers, every version script above the version of the           *)
(* installation up to the present one, oldest first, each once unless it can *)
(* be repeated, and the idempotent scripts last (Migrate, upgradeVersion,    *)
(* setDBVersion).                                                            *)
THEOREM SchemaIsAsVersioned ==
    ASSUME ~MixedReleases
    PROVE  Spec => []SchemaMatchesVersion
<1>1. MInv /\ SInv /\ [Next]_vars => (MInv /\ SInv)'
  BY MigrationNext, SchemaNext
<1>2. SInv => SchemaMatchesVersion
  BY DEF SInv
<1> QED
  BY <1>1, <1>2, MigrationInit, SchemaInit, PTL DEF Spec

(* A script that runs once is in a plan because it was due from the version  *)
(* that was read.                                                            *)
LEMMA PlannedOnce ==
    ASSUME MInv, SInv, NEW c \in Connectors, conn[c].pc = "tx", NEW f \in Once,
           NEW i \in DOMAIN Planned(conn[c]), Planned(conn[c])[i] = f
    PROVE  \/ conn[c].read = ZeroVersion
           \/ f \in VersionFiles /\ Less(conn[c].read, getMigrationFileVersion(f))
<1> DEFINE C == conn[c]
           X == versionScripts(C.read, C.app)
<1>1. C.app \in Releases /\ CallInv(c)
  BY InTransaction, Zenon DEF SInv
<1>2. f \notin TocFiles /\ f # Timescale
  BY MigrationAssumption DEF Once, AllFiles
<1>3. C.sets
  <2>1. SUFFICES ASSUME ~C.sets PROVE FALSE
    OBVIOUS
  <2>2. Planned(C) = idempotentScripts
    BY <2>1, Zenon DEF Planned
  <2>3. idempotentScripts \in Seq(TocFiles)
    BY IdempotentListed, Zenon DEF Lists
  <2>4. Planned(C)[i] \in TocFiles
    <3>1. ASSUME NEW T, NEW s \in Seq(T), NEW k \in DOMAIN s PROVE s[k] \in T
      OBVIOUS
    <3> QED BY <2>2, <2>3, <3>1, Zenon
  <2> QED BY <1>2, <2>4
<1>4. SUFFICES ASSUME C.read # ZeroVersion
               PROVE  f \in VersionFiles /\ Less(C.read, getMigrationFileVersion(f))
  OBVIOUS
<1>5. C.read \in Releases /\ ~AmbiguousVersions(VersionFiles)
  BY <1>1, <1>3, <1>4, Zenon DEF CallInv, StartsFrom
<1>6. Ascends(X) /\ Lists(X, Due(C.read, C.app)) /\ Planned(C) = Upgrading(X)
  BY <1>1, <1>3, <1>4, <1>5, MiddleAscends, Zenon DEF Planned
<1> HIDE DEF X
<1>7. OnceIn(Planned(C)) = Due(C.read, C.app)
  BY <1>6, UpgradeOnce, Zenon
<1>8. f \in OnceIn(Planned(C))
  BY <1>2, Zenon DEF OnceIn, OnceAt
<1> QED
  BY <1>7, <1>8 DEF Due, InRange

(* What is refused was applied, so the version that was read was not the     *)
(* present one: an installation needs an empty database, and what is due     *)
(* from a version is not in its schema.                                      *)
LEMMA RefusedIsStale ==
    ASSUME MInv, SInv, NEW c \in Connectors, conn[c].pc = "tx", NEW f \in Once,
           NEW i \in DOMAIN Planned(conn[c]), Planned(conn[c])[i] = f, InSeq(f, applied)
    PROVE  conn[c].read # dbVersion
<1>1. PICK k \in 1..Len(applied) : applied[k] = f
  BY Zenon DEF InSeq
<1>2. applied \in Seq(Scripts) /\ SchemaMatchesVersion
  BY DEF SInv, InDatabase
<1>3. k \in DOMAIN applied /\ applied # <<>>
  BY <1>1, <1>2
<1>4. dbVersion # ZeroVersion /\ IsSchema(applied, origin, dbVersion, rerunnable)
  BY <1>2, <1>3, SchemaAsList, Zenon
<1>5. f \notin TocFiles /\ f # Timescale
  BY MigrationAssumption DEF Once, AllFiles
<1>6. f \in Installed(origin, dbVersion)
  BY <1>1, <1>3, <1>4, <1>5, Zenon DEF IsSchema, OnceIn, OnceAt
<1>7. f \in VersionFiles => ~Less(dbVersion, getMigrationFileVersion(f))
  BY <1>6, MigrationAssumption DEF Installed
<1> QED
  BY <1>4, <1>7, PlannedOnce, Zenon

(* A connector is refused a script by the step that runs it.                 *)
LEMMA OnlyExecRefuses ==
    ASSUME MInv, SInv, NEW c \in Connectors, NEW d \in Connectors,
           Start(d) \/ Step(d) \/ CommitLost(d) \/ Fail(d),
           conn[c].refused = NoOne, conn'[c].refused # NoOne
    PROVE  c = d /\ ExecMigrationFile(c)
<1>0. /\ conn = [e \in Connectors |-> conn[e]] /\ IsCall(conn[d])
      /\ Running(d) => conn[d].app \in Releases
  BY Zenon DEF MInv, Calls
<1>1. SUFFICES ASSUME NEW C, conn' = [conn EXCEPT ![d] = C], C.refused \in {conn[d].refused, NoOne}
               PROVE  FALSE
  <2>1. SUFFICES ASSUME ~(c = d /\ ExecMigrationFile(c))
                 PROVE  \E C : conn' = [conn EXCEPT ![d] = C] /\ C.refused \in {conn[d].refused, NoOne}
    BY <1>1, Zenon
  <2>2. CASE Start(d)
    <3>1. PICK v \in Releases : conn' = [conn EXCEPT ![d] = [Idle("ensure") EXCEPT !.app = v]]
      BY <2>2, Zenon DEF Start
    <3>2. [Idle("ensure") EXCEPT !.app = v].refused = NoOne
      BY Zenon DEF Idle
    <3> QED BY <3>1, <3>2, Zenon
  <2>3. CASE EnsureVersionTable(d)
    <3>1. conn' = [conn EXCEPT ![d] = [conn[d] EXCEPT !.pc = "read"]]
      BY <2>3, Zenon DEF EnsureVersionTable
    <3>2. [conn[d] EXCEPT !.pc = "read"].refused = conn[d].refused
      BY <1>0, NextPc, ZenonT(60)
    <3> QED BY <3>1, <3>2, Zenon
  <2>4. CASE GetDBVersion(d)
    <3>1. PICK v \in {dbVersion, ZeroVersion} : conn' = [conn EXCEPT ![d] = Plan(conn[d], v)]
      BY <2>4, Zenon DEF GetDBVersion
    <3>2. Running(d) /\ conn[d].pc = "read" /\ CallInv(d) /\ InDatabase
      BY <2>4, Zenon DEF GetDBVersion, Running, SInv
    <3>3. conn[d].log = <<>> /\ ~conn[d].sets
      BY <3>2, Zenon DEF CallInv, WorksOff
    <3>4. Plan(conn[d], v).refused \in {conn[d].refused, NoOne}
      BY <1>0, <3>2, <3>3, PlanScripts, Zenon
    <3> QED BY <3>1, <3>4, Zenon
  <2>5. CASE ExecMigrationFile(d)
    <3> DEFINE f == Head(conn[d].todo)
    <3>1. \/ conn' = [conn EXCEPT ![d] = [Idle("failed") EXCEPT !.refused = f]]
          \/ conn' = [conn EXCEPT ![d] = [conn[d] EXCEPT !.todo = Tail(conn[d].todo), !.log = Append(conn[d].log, f)]]
      BY <2>5, Zenon DEF ExecMigrationFile
    <3>2. c # d
      BY <2>1, <2>5, Zenon
    <3>3. conn'[c] = conn[c]
      BY <1>0, <3>1, <3>2, Zenon
    <3> QED BY <3>3
  <2>6. CASE Commit(d)
    <3> DEFINE Q == [conn[d] EXCEPT !.pc = "extension", !.log = <<>>]
    <3>1. conn' = [conn EXCEPT ![d] = Q]
      BY <2>6, Zenon DEF Commit
    <3>2. Q \in Call("extension", conn[d].app, conn[d].read, conn[d].todo, <<>>,
                      conn[d].sets, conn[d].refused)
      BY <1>0, Zenon DEF IsCall, Call
    <3> HIDE DEF Q
    <3>3. Q.refused = conn[d].refused
      BY <3>2, Zenon DEF Call
    <3> QED BY <3>1, <3>3, Zenon
  <2>7. CASE CommitLost(d)
    BY <2>7, IdleCall, Zenon DEF CommitLost
  <2>8. CASE InstallExtension(d)
    <3>1. conn' = [conn EXCEPT ![d] = [conn[d] EXCEPT !.pc = "done"]]
      BY <2>8, Zenon DEF InstallExtension
    <3>2. [conn[d] EXCEPT !.pc = "done"].refused = conn[d].refused
      BY <1>0, NextPc, ZenonT(60)
    <3> QED BY <3>1, <3>2, Zenon
  <2>9. CASE Fail(d)
    <3>1. PICK pc \in {"off", "failed"} : conn' = [conn EXCEPT ![d] = Idle(pc)]
      BY <2>9, Zenon DEF Fail
    <3> QED BY <3>1, IdleCall, Zenon
  <2> QED
    BY <2>2, <2>3, <2>4, <2>5, <2>6, <2>7, <2>8, <2>9, Zenon DEF Step
<1>2. conn'[d] = C /\ (c # d => conn'[c] = conn[c])
  BY <1>0, <1>1, Zenon
<1> QED
  BY <1>1, <1>2

(* The script that is refused is the next one of the plan.                   *)
LEMMA RefusedNext ==
    ASSUME MInv, SInv, NEW c \in Connectors, ExecMigrationFile(c), conn'[c].refused # conn[c].refused
    PROVE  /\ conn[c].pc = "tx" /\ conn'[c].refused \in Scripts \ rerunnable
           /\ \E i \in DOMAIN Planned(conn[c]) : Planned(conn[c])[i] = conn'[c].refused
<1> DEFINE C == conn[c]
           f == Head(C.todo)
           r == Tail(C.todo)
           l == Append(C.log, f)
           moved == [C EXCEPT !.todo = r, !.log = l]
<1>0. conn = [e \in Connectors |-> conn[e]] /\ IsCall(C)
  BY Zenon DEF MInv, Calls
<1>1. /\ C.pc = "tx" /\ C.todo # <<>>
      /\ \/ /\ Refuses(c, f) \/ f \in Unresolved
            /\ conn' = [conn EXCEPT ![c] = [Idle("failed") EXCEPT !.refused = f]]
         \/ conn' = [conn EXCEPT ![c] = moved]
  BY Zenon DEF ExecMigrationFile
<1>2. moved.refused = C.refused
  <2>1. moved \in Call(C.pc, C.app, C.read, r, l, C.sets, C.refused)
    <3> HIDE DEF r, l
    <3> QED BY <1>0, Zenon DEF IsCall, Call
  <2> HIDE DEF moved
  <2> QED BY <2>1, Zenon DEF Call
<1> HIDE DEF moved
<1>3. conn'[c].refused = f /\ Refuses(c, f)
  <2>1. conn' # [conn EXCEPT ![c] = moved]
    BY <1>0, <1>2, Zenon
  <2>2. conn'[c] = [Idle("failed") EXCEPT !.refused = f] /\ (Refuses(c, f) \/ f \in Unresolved)
    BY <1>0, <1>1, <2>1, Zenon
  <2> QED BY <2>2, EndedCall, NoneUnresolved, Zenon
<1>4. /\ C.log \in Seq(Scripts) /\ C.todo \in Seq(Scripts) /\ C.log \o C.todo = Planned(C)
  BY <1>1, InTransaction, Zenon
<1>5. f \in Scripts /\ \E i \in DOMAIN Planned(C) : Planned(C)[i] = f
  <2>1. ASSUME NEW todo, NEW log, todo \in Seq(Scripts), log \in Seq(Scripts), todo # <<>>,
               NEW P, log \o todo = P
        PROVE  Head(todo) \in Scripts /\ \E i \in DOMAIN P : P[i] = Head(todo)
    <3>0. Joins(P, log, todo)
      BY <2>1, JoinedLists, Zenon
    <3>1. Joins(P, log, todo) /\ Head(todo) = todo[1] /\ Head(todo) \in Scripts
      BY <2>1, <3>0
    <3>2. 1 \in 1..Len(todo) /\ Len(log) + 1 \in DOMAIN P
      BY <2>1, <3>1 DEF Joins
    <3>3. P[Len(log) + 1] = todo[1]
      BY <3>1, <3>2, Zenon DEF Joins
    <3> QED BY <3>1, <3>2, <3>3, Zenon
  <2>2. C.todo # <<>>
    BY <1>1
  <2> QED BY <1>4, <2>1, <2>2, ZenonT(60)
<1> QED
  BY <1>1, <1>3, <1>5, Zenon DEF Refuses

(* With connectors of one release at a time, a script is refused to a        *)
(* connector only if the version it read is not the present one, or if it is *)
(* an idempotent script that cannot be repeated: none is due or planned      *)
(* twice (upgradeVersion, execMigrationDir) and no placeholder is left in    *)
(* one (replaceSchemaNames).                                                 *)
THEOREM RefusalsAreExplained ==
    ASSUME ~MixedReleases
    PROVE  Spec => OnlyStaleIsRefused
<1>1. MInv /\ SInv /\ [Next]_vars => (MInv /\ SInv)'
  BY MigrationNext, SchemaNext
<1>2. MInv /\ SInv /\ [Next]_vars => [RefusesTheStale]_vars
  <2> SUFFICES ASSUME MInv, SInv, Next, NEW c \in Connectors,
                      conn[c].refused = NoOne, conn'[c].refused # NoOne
               PROVE  conn[c].read # dbVersion \/ conn'[c].refused \in TocFiles \ rerunnable
    BY Zenon DEF RefusesTheStale
  <2> DEFINE f == conn'[c].refused
  <2>1. ExecMigrationFile(c)
    BY OnlyExecRefuses, Zenon DEF Next
  <2>2. conn[c].pc = "tx" /\ f \in Scripts \ rerunnable /\ \E i \in DOMAIN Planned(conn[c]) : Planned(conn[c])[i] = f
    BY <2>1, RefusedNext, Zenon
  <2>3. InSeq(f, applied)
    <3>1. SInv' /\ applied' = applied
      BY <2>1, ExecStep, Zenon DEF ExecMigrationFile, dbVars
    <3> QED BY <3>1, Zenon DEF SInv, CallInv, Excused
  <2> HIDE DEF f
  <2>4. f # Timescale
    <3>1. \A R \in Rerunnables : Timescale \in R
      BY MigrationAssumption
    <3> QED BY <2>2, <3>1 DEF SInv, InDatabase
  <2>5. f \in Once \/ f \in TocFiles
    BY <2>2, <2>4 DEF Scripts, Once, AllFiles
  <2>6. CASE f \in Once
    BY <2>2, <2>3, <2>6, RefusedIsStale, Zenon
  <2>7. CASE f \in TocFiles
    BY <2>2, <2>7 DEF f
  <2> QED BY <2>5, <2>6, <2>7
<1> QED
  BY <1>1, <1>2, MigrationInit, SchemaInit, PTL DEF Spec, OnlyStaleIsRefused

=============================================================================
