------------------------- MODULE DbLifecycleProofs -------------------------
(***************************************************************************)
(* For every number of DBs, children and threads: IInv is inductive, with  *)
(* it the safety properties of DbLifecycle hold, and DbLifecycle           *)
(* implements DbContract.  One lemma shows that a step preserves one part  *)
(* of IInv; it has one step for each kind of step of the system, split     *)
(* into the actions where that helps.                                      *)
(***************************************************************************)
EXTENDS DbLifecycleInv, FiniteSetTheorems, TLAPS

(* Before anything is opened no child exists and no lock is held. *)
LEMMA InitIInv == Init => IInv
  <1> SUFFICES ASSUME Init PROVE IInv
    OBVIOUS
  <1> USE ConstantsAssumption DEF Init
  <1>1. LeaseCount
    <2>1. \A d \in Dbs : LeaseHolders(d) = {}
      BY DEF LeaseHolders
    <2>2. QED
      BY <2>1, FS_EmptySet DEF LeaseCount
  <1>2. TypeOK
    BY DEF TypeOK, Labels, Answers
  <1>3. CallShape /\ Making /\ ChildShape /\ References /\ Anchored
    BY DEF CallShape, Making, ChildShape, References, Anchored, Created,
           Children, ReadOps, WriteOps, DataOps, SpawnOps, SnapOps, SnapCfOps,
           CfOps, DeriveOps
  <1>4. Guards /\ Protected /\ Closing
    BY DEF Guards, Protected, Closing, HoldsRead, HoldsWrite, HoldsMutex,
           UsesCf, Children
  <1>5. QED
    BY <1>1, <1>2, <1>3, <1>4 DEF IInv

(* A DB's lease holders are finite, and there is one if and only if the
   counter is not zero. *)
LEMMA LeaseHoldersCounted ==
  ASSUME IInv, NEW d \in Dbs
  PROVE  /\ IsFiniteSet(LeaseHolders(d))
         /\ leases[d] = 0 <=> LeaseHolders(d) = {}
  <1>1. IsFiniteSet(Children)
    BY ConstantsAssumption, FS_Union DEF Children
  <1>2. IsFiniteSet(LeaseHolders(d))
    BY <1>1, FS_Subset DEF LeaseHolders
  <1>3. QED
    BY <1>2, FS_EmptySet DEF IInv, LeaseCount

(* A set grows by one. *)
LEMMA OneMore ==
  ASSUME NEW S, IsFiniteSet(S), NEW x, x \notin S
  PROVE  Cardinality(S \cup {x}) = Cardinality(S) + 1
  BY FS_AddElement

(* The counter moves exactly when a child gets or gives back its lease. *)
LEMMA LeaseCountStep == IInv /\ [Next]_vars => LeaseCount'
  <1> SUFFICES ASSUME IInv, [Next]_vars, NEW e \in Dbs
               PROVE  leases'[e] = Cardinality(LeaseHolders(e)')
    BY DEF LeaseCount
  <1> USE ConstantsAssumption
      DEF IInv, TypeOK, CallShape, Making, Created, ChildShape, SpawnOps, DeriveOps,
          Children
  <1>1. /\ leases[e] = Cardinality(LeaseHolders(e))
        /\ IsFiniteSet(LeaseHolders(e))
    BY LeaseHoldersCounted DEF LeaseCount
  <1>2. CASE leases'[e] = leases[e] /\ LeaseHolders(e)' = LeaseHolders(e)
    BY <1>1, <1>2
  <1>3. CASE UNCHANGED <<leases, lease, of>>
    BY <1>2, <1>3 DEF LeaseHolders
  <1>4. ASSUME NEW t \in Threads, AcquireLease(t)
        PROVE  leases'[e] = Cardinality(LeaseHolders(e)')
    <2>1. PICK c \in Children : c = made[t] /\ of[c] = db[t] /\ ~lease[c]
      BY <1>4 DEF AcquireLease
    <2>2. CASE e = db[t]
      <3>1. LeaseHolders(e)' = LeaseHolders(e) \cup {c}
        BY <1>4, <2>1, <2>2 DEF AcquireLease, LeaseHolders
      <3>2. c \notin LeaseHolders(e)
        BY <2>1 DEF LeaseHolders
      <3>3. leases'[e] = leases[e] + 1
        BY <1>4, <2>2 DEF AcquireLease
      <3>4. Cardinality(LeaseHolders(e) \cup {c}) = Cardinality(LeaseHolders(e)) + 1
        BY <1>1, <3>2, OneMore
      <3>5. QED
        BY <1>1, <3>1, <3>3, <3>4
    <2>3. CASE e # db[t]
      BY <1>2, <1>4, <2>1, <2>3 DEF AcquireLease, LeaseHolders
    <2>4. QED
      BY <2>2, <2>3
  <1>5. ASSUME NEW t \in Threads, CreateNative(t) \/ CreateSnapIter(t)
        PROVE  leases'[e] = Cardinality(LeaseHolders(e)')
    <2>1. made[t] \in Children /\ ~lease[made[t]]
      BY <1>5 DEF CreateNative, CreateSnapIter, Ready
    <2>2. UNCHANGED <<leases, lease>> /\ of' = [of EXCEPT ![made[t]] = db[t]]
      BY <1>5 DEF CreateNative, CreateSnapIter, dbVars
    <2>3. LeaseHolders(e)' = LeaseHolders(e)
      BY <2>1, <2>2 DEF LeaseHolders
    <2>4. QED
      BY <1>2, <2>2, <2>3
  <1>6. ASSUME NEW c \in Children, DropLease(c)
        PROVE  leases'[e] = Cardinality(LeaseHolders(e)')
    <2>1. CASE lease[c] /\ of[c] = e
      <3>1. LeaseHolders(e)' = LeaseHolders(e) \ {c} /\ c \in LeaseHolders(e)
        BY <1>6, <2>1 DEF DropLease, LeaseHolders
      <3>2. leases'[e] = leases[e] - 1
        BY <1>6, <2>1 DEF DropLease, Released
      <3>3. Cardinality(LeaseHolders(e) \ {c}) = Cardinality(LeaseHolders(e)) - 1
        BY <1>1, <3>1, FS_RemoveElement
      <3>4. QED
        BY <1>1, <3>1, <3>2, <3>3
    <2>2. CASE ~(lease[c] /\ of[c] = e)
      <3>1. LeaseHolders(e)' = LeaseHolders(e)
        BY <1>6, <2>2 DEF DropLease, LeaseHolders
      <3>2. leases'[e] = leases[e]
        BY <1>6, <2>2 DEF DropLease, Released
      <3>3. QED
        BY <1>2, <3>1, <3>2
    <2>3. QED
      BY <2>1, <2>2
  <1>7. QED
    BY <1>3, <1>4, <1>5, <1>6
    DEF Next, vars, dbVars, kidVars, callVars, Call, ReadStep, ChildStep,
        WriteStep, OpenStep, Destruct, Begin, CallData, CallSpawn, CallWrite,
        CallSnap, CallNext, Return, AcquireRead, ReadClosed, LookupCf,
        FinishData, FinishSpawn, AcquireMutex, FinishUse, AcquireWrite,
        WriteClosed, CreateCf, DropCf, CloseReply, CloseNoop, CloseBusy,
        CloseTake, CloseDrop, Open, OpenReadOnly, NewDb, ReleaseDbTerm, FreeDb,
        ReleaseChildTerm, BeginDrop, DropNative, DropOwner, DropSnapOwner

(* Types; the counter is only decremented by a child that has a lease, so
   it is not zero then. *)
LEMMA TypeOKStep == IInv /\ [Next]_vars => TypeOK'
  <1> SUFFICES ASSUME IInv, [Next]_vars PROVE TypeOK'
    OBVIOUS
  <1> USE ConstantsAssumption DEF vars, dbVars, kidVars, callVars, IInv,
       TypeOK, CallShape, DataOps, SpawnOps, ReadOps, WriteOps, SnapCfOps,
       SnapOps, CfOps, DeriveOps, AllOps, Labels, Answers, Children
  <1>1. ASSUME NEW t \in Threads, Call(t) PROVE TypeOK'
    <2>1. ASSUME NEW d \in Dbs, NEW o \in DataOps, CallData(t, d, o)
           PROVE TypeOK'
      BY <2>1 DEF CallData, Begin, Goto
    <2>2. ASSUME NEW d \in Dbs, NEW o \in SpawnOps, NEW c \in Children, CallSpawn(t, d, o, c)
           PROVE TypeOK'
      BY <2>2 DEF CallSpawn, Begin, Goto, Fresh
    <2>3. ASSUME NEW d \in Dbs, NEW o \in WriteOps, CallWrite(t, d, o)
           PROVE TypeOK'
      BY <2>3 DEF CallWrite, Begin, Goto
    <2>4. ASSUME NEW s \in Snaps, NEW o \in SnapOps, NEW new \in Iters \cup {None}, CallSnap(t, s, o, new)
           PROVE TypeOK'
      BY <2>4 DEF CallSnap, Begin, Goto, Fresh
    <2>5. ASSUME NEW i \in Iters, CallNext(t, i) PROVE TypeOK'
      BY <2>5 DEF CallNext, Begin, Goto
    <2> HIDE DEF TypeOK
    <2>6. QED
      BY <1>1, <2>1, <2>2, <2>3, <2>4, <2>5 DEF Call
  <1>2. ASSUME NEW t \in Threads, Return(t) PROVE TypeOK'
    <2>1. CASE made[t] # None /\ res[t] = "ok"
      <3>1. phase' \in [Children -> {"none", "made", "live", "dropping"}]
        BY <1>2, <2>1 DEF Return
      <3>2. held' = [held EXCEPT ![made[t]] = TRUE]
        BY <1>2, <2>1 DEF Return
      <3>3. held' \in [Children -> BOOLEAN]
        BY <3>2, Zenon
      <3>4. QED
        BY <1>2, <3>1, <3>3 DEF Return
    <2>2. CASE ~(made[t] # None /\ res[t] = "ok")
      BY <1>2, <2>2 DEF Return
    <2>3. QED
      BY <2>1, <2>2
  <1>3. ASSUME NEW t \in Threads, ReadStep(t) PROVE TypeOK'
    <2>1. CASE AcquireRead(t)
      <3>1. db[t] \in Dbs
        BY <2>1 DEF AcquireRead, CanRead, References, ChildShape
      <3>2. readers' \in [Dbs -> SUBSET Threads]
        BY <2>1, <3>1 DEF AcquireRead, CanRead
      <3>3. QED
        BY <2>1, <3>1, <3>2 DEF AcquireRead, CanRead, Goto
    <2>2. CASE ReadClosed(t)
      BY <2>2 DEF ReadClosed, CanRead, Answer
    <2>3. CASE LookupCf(t)
      BY <2>3 DEF LookupCf, Goto, Answer, DropGuards, lockVars
    <2>4. CASE FinishData(t)
      BY <2>4 DEF FinishData, Ready, Answer, DropGuards
    <2>5. CASE CreateNative(t)
      BY <2>5 DEF CreateNative, Ready, Goto
    <2>6. CASE AcquireLease(t)
      BY <2>6 DEF AcquireLease, Goto
    <2>7. CASE FinishSpawn(t)
      BY <2>7 DEF FinishSpawn, Answer, DropGuards
    <2> HIDE DEF TypeOK
    <2>8. QED
      BY <1>3, <2>1, <2>2, <2>3, <2>4, <2>5, <2>6, <2>7 DEF ReadStep
  <1>4. ASSUME NEW t \in Threads, ChildStep(t) PROVE TypeOK'
    <2>1. CASE AcquireMutex(t)
      BY <2>1 DEF AcquireMutex, Ready, MutexFree, Goto
    <2>2. CASE FinishUse(t)
      BY <2>2 DEF FinishUse, Answer, DropGuards
    <2>3. CASE CreateSnapIter(t)
      BY <2>3 DEF CreateSnapIter, Goto
    <2> HIDE DEF TypeOK
    <2>4. QED
      BY <1>4, <2>1, <2>2, <2>3 DEF ChildStep
  <1>5. ASSUME NEW t \in Threads, WriteStep(t) PROVE TypeOK'
    <2>1. CASE AcquireWrite(t)
      BY <2>1 DEF AcquireWrite, CanWrite, Goto
    <2>2. CASE WriteClosed(t)
      BY <2>2 DEF WriteClosed, CanWrite, Answer
    <2>3. CASE CreateCf(t)
      BY <2>3 DEF CreateCf, Answer, DropGuards
    <2>4. CASE DropCf(t)
      BY <2>4 DEF DropCf, Answer, DropGuards
    <2>5. CASE CloseNoop(t)
      BY <2>5 DEF CloseNoop, CloseReply, Answer, DropGuards
    <2>6. CASE CloseBusy(t)
      BY <2>6 DEF CloseBusy, CloseReply, Answer, DropGuards
    <2>7. CASE CloseTake(t)
      BY <2>7 DEF CloseTake, Leased, Goto
    <2>8. CASE CloseDrop(t)
      BY <2>8 DEF CloseDrop, Unlocked, Answer, DropGuards
    <2> HIDE DEF TypeOK
    <2>9. QED
      BY <1>5, <2>1, <2>2, <2>3, <2>4, <2>5, <2>6, <2>7, <2>8 DEF WriteStep
  <1>6. ASSUME NEW d \in Dbs, OpenStep(d) PROVE TypeOK'
    <2>1. ASSUME NEW cf \in BOOLEAN, Open(d, cf) PROVE TypeOK'
      BY <2>1 DEF Open, NewDb
    <2>2. ASSUME NEW cf \in BOOLEAN, OpenReadOnly(d, cf) PROVE TypeOK'
      BY <2>2 DEF OpenReadOnly, NewDb
    <2> HIDE DEF TypeOK
    <2>3. QED
      BY <1>6, <2>1, <2>2 DEF OpenStep
  <1>7. ASSUME NEW d \in Dbs, ReleaseDbTerm(d) PROVE TypeOK'
    BY <1>7 DEF ReleaseDbTerm
  <1>8. ASSUME NEW d \in Dbs, FreeDb(d) PROVE TypeOK'
    BY <1>8 DEF FreeDb, DbReferenced, Reachable, Unlocked
  <1>9. ASSUME NEW c \in Children, ReleaseChildTerm(c) PROVE TypeOK'
    BY <1>9 DEF ReleaseChildTerm
  <1>10. ASSUME NEW c \in Children, Destruct(c) PROVE TypeOK'
    <2>1. CASE BeginDrop(c)
      BY <2>1 DEF BeginDrop, ChildReferenced
    <2>2. CASE DropNative(c)
      BY <2>2 DEF DropNative
    <2>3. CASE DropOwner(c)
      BY <2>3 DEF DropOwner
    <2>4. CASE DropSnapOwner(c)
      BY <2>4 DEF DropSnapOwner
    <2>5. CASE DropLease(c)
      <3>1. leases' \in [Dbs -> Nat]
        <4>1. CASE lease[c]
          <5>1. of[c] \in Dbs /\ c \in LeaseHolders(of[c])
            BY <4>1 DEF Protected, LeaseHolders
          <5>2. leases[of[c]] - 1 \in Nat
            BY <5>1, LeaseHoldersCounted
          <5>3. QED
            BY <2>5, <4>1, <5>1, <5>2 DEF DropLease, Released
        <4>2. CASE ~lease[c]
          BY <2>5, <4>2 DEF DropLease, Released
        <4>3. QED
          BY <4>1, <4>2
      <3>2. QED
        BY <2>5, <3>1 DEF DropLease
    <2> HIDE DEF TypeOK
    <2>6. QED
      BY <1>10, <2>1, <2>2, <2>3, <2>4, <2>5 DEF Destruct
  <1>11. CASE UNCHANGED vars
    BY <1>11
  <1>12. QED
    BY <1>1, <1>2, <1>3, <1>4, <1>5, <1>6, <1>7, <1>8, <1>9, <1>10, <1>11 DEF Next

(* What a call refers to does not change while it is in progress. *)
LEMMA CallShapeStep == IInv /\ [Next]_vars => CallShape'
  <1> SUFFICES ASSUME IInv, [Next]_vars PROVE CallShape'
    OBVIOUS
  <1> USE ConstantsAssumption DEF vars, dbVars, kidVars, callVars, IInv,
       TypeOK, CallShape, ChildShape, References, Making, DataOps, SpawnOps,
       ReadOps, WriteOps, SnapCfOps, SnapOps, CfOps, DeriveOps, AllOps,
       Children
  <1>1. ASSUME NEW t \in Threads, Call(t) PROVE CallShape'
    BY <1>1 DEF Call, CallData, Begin, Goto, CallSpawn, Fresh, CallWrite,
         CallSnap, CallNext
  <1>2. ASSUME NEW t \in Threads, Return(t) PROVE CallShape'
    BY <1>2 DEF Return
  <1>3. ASSUME NEW t \in Threads, ReadStep(t) PROVE CallShape'
    BY <1>3 DEF ReadStep, AcquireRead, CanRead, Goto, ReadClosed, Answer,
         LookupCf, DropGuards, lockVars, FinishData, Ready, CreateNative,
         AcquireLease, FinishSpawn
  <1>4. ASSUME NEW t \in Threads, ChildStep(t) PROVE CallShape'
    BY <1>4 DEF ChildStep, AcquireMutex, Ready, MutexFree, Goto, FinishUse,
         Answer, DropGuards, CreateSnapIter
  <1>5. ASSUME NEW t \in Threads, WriteStep(t) PROVE CallShape'
    BY <1>5 DEF WriteStep, AcquireWrite, CanWrite, Goto, WriteClosed, Answer,
         CreateCf, DropGuards, DropCf, CloseNoop, CloseReply, CloseBusy,
         CloseTake, Leased, CloseDrop, Unlocked
  <1>6. ASSUME NEW d \in Dbs, OpenStep(d) PROVE CallShape'
    BY <1>6 DEF OpenStep, Open, NewDb, OpenReadOnly
  <1>7. ASSUME NEW d \in Dbs, ReleaseDbTerm(d) PROVE CallShape'
    BY <1>7 DEF ReleaseDbTerm
  <1>8. ASSUME NEW d \in Dbs, FreeDb(d) PROVE CallShape'
    BY <1>8 DEF FreeDb, DbReferenced, Reachable, Unlocked
  <1>9. ASSUME NEW c \in Children, ReleaseChildTerm(c) PROVE CallShape'
    BY <1>9 DEF ReleaseChildTerm
  <1>10. ASSUME NEW c \in Children, Destruct(c) PROVE CallShape'
    BY <1>10 DEF Destruct, BeginDrop, ChildReferenced, DropNative, DropOwner,
         DropSnapOwner, DropLease, Released
  <1>11. CASE UNCHANGED vars
    BY <1>11
  <1>12. QED
    BY <1>1, <1>2, <1>3, <1>4, <1>5, <1>6, <1>7, <1>8, <1>9, <1>10, <1>11 DEF Next

(* A child being made stays with the call that makes it. *)
LEMMA MakingStep == IInv /\ [Next]_vars => Making'
  <1> SUFFICES ASSUME IInv, [Next]_vars PROVE Making'
    OBVIOUS
  <1> USE ConstantsAssumption DEF vars, dbVars, kidVars, callVars, IInv,
       TypeOK, CallShape, ChildShape, Making, References, Created, DataOps,
       SpawnOps, ReadOps, WriteOps, SnapCfOps, SnapOps, CfOps, DeriveOps,
       AllOps, Children
  <1>1. ASSUME NEW t \in Threads, Call(t) PROVE Making'
    <2>1. ASSUME NEW d \in Dbs, NEW o \in DataOps, CallData(t, d, o)
           PROVE Making'
      BY <2>1 DEF CallData, Begin, Goto
    <2>2. ASSUME NEW d \in Dbs, NEW o \in SpawnOps, NEW c \in Children, CallSpawn(t, d, o, c)
           PROVE Making'
      BY <2>2 DEF CallSpawn, Begin, Goto, Fresh
    <2>3. ASSUME NEW d \in Dbs, NEW o \in WriteOps, CallWrite(t, d, o)
           PROVE Making'
      BY <2>3 DEF CallWrite, Begin, Goto
    <2>4. ASSUME NEW s \in Snaps, NEW o \in SnapOps, NEW new \in Iters \cup {None}, CallSnap(t, s, o, new)
           PROVE Making'
      BY <2>4 DEF CallSnap, Begin, Goto, Fresh
    <2>5. ASSUME NEW i \in Iters, CallNext(t, i) PROVE Making'
      BY <2>5 DEF CallNext, Begin, Goto
    <2>6. QED
      BY <1>1, <2>1, <2>2, <2>3, <2>4, <2>5 DEF Call
  <1>2. ASSUME NEW t \in Threads, Return(t) PROVE Making'
    BY <1>2 DEF Return
  <1>3. ASSUME NEW t \in Threads, ReadStep(t) PROVE Making'
    <2>1. CASE AcquireRead(t)
      BY <2>1 DEF AcquireRead, CanRead, Goto
    <2>2. CASE ReadClosed(t)
      BY <2>2 DEF ReadClosed, CanRead, Answer
    <2>3. CASE LookupCf(t)
      BY <2>3 DEF LookupCf, Goto, Answer, DropGuards, lockVars
    <2>4. CASE FinishData(t)
      BY <2>4 DEF FinishData, Ready, Answer, DropGuards
    <2>5. CASE CreateNative(t)
      BY <2>5 DEF CreateNative, Ready, Goto
    <2>6. CASE AcquireLease(t)
      BY <2>6 DEF AcquireLease, Goto
    <2>7. CASE FinishSpawn(t)
      BY <2>7 DEF FinishSpawn, Answer, DropGuards
    <2>8. QED
      BY <1>3, <2>1, <2>2, <2>3, <2>4, <2>5, <2>6, <2>7 DEF ReadStep
  <1>4. ASSUME NEW t \in Threads, ChildStep(t) PROVE Making'
    <2>1. CASE AcquireMutex(t)
      BY <2>1 DEF AcquireMutex, Ready, MutexFree, Goto
    <2>2. CASE FinishUse(t)
      BY <2>2 DEF FinishUse, Answer, DropGuards
    <2>3. CASE CreateSnapIter(t)
      BY <2>3 DEF CreateSnapIter, Goto
    <2>4. QED
      BY <1>4, <2>1, <2>2, <2>3 DEF ChildStep
  <1>5. ASSUME NEW t \in Threads, WriteStep(t) PROVE Making'
    <2>1. CASE AcquireWrite(t)
      BY <2>1 DEF AcquireWrite, CanWrite, Goto
    <2>2. CASE WriteClosed(t)
      BY <2>2 DEF WriteClosed, CanWrite, Answer
    <2>3. CASE CreateCf(t)
      <3>1. made[t] = None
        BY <2>3 DEF CreateCf
      <3>2. \A u \in Threads \ {t} : pc'[u] = pc[u] /\ res'[u] = res[u]
        BY <2>3 DEF CreateCf, Answer, DropGuards
      <3>3. UNCHANGED <<made, phase, of, lease, owner, snapOwner, db>>
        BY <2>3 DEF CreateCf
      <3>4. QED
        BY <3>1, <3>2, <3>3
    <2>4. CASE DropCf(t)
      <3>1. made[t] = None
        BY <2>4 DEF DropCf
      <3>2. \A u \in Threads \ {t} : pc'[u] = pc[u] /\ res'[u] = res[u]
        BY <2>4 DEF DropCf, Answer, DropGuards
      <3>3. UNCHANGED <<made, phase, of, lease, owner, snapOwner, db>>
        BY <2>4 DEF DropCf
      <3>4. QED
        BY <3>1, <3>2, <3>3
    <2>5. CASE CloseNoop(t)
      <3>1. made[t] = None
        BY <2>5 DEF CloseNoop
      <3>2. \A u \in Threads \ {t} : pc'[u] = pc[u] /\ res'[u] = res[u]
        BY <2>5 DEF CloseNoop, CloseReply, Answer, DropGuards
      <3>3. UNCHANGED <<made, phase, of, lease, owner, snapOwner, db>>
        BY <2>5 DEF CloseNoop, CloseReply
      <3>4. QED
        BY <3>1, <3>2, <3>3
    <2>6. CASE CloseBusy(t)
      <3>1. made[t] = None
        BY <2>6 DEF CloseBusy
      <3>2. \A u \in Threads \ {t} : pc'[u] = pc[u] /\ res'[u] = res[u]
        BY <2>6 DEF CloseBusy, CloseReply, Answer, DropGuards
      <3>3. UNCHANGED <<made, phase, of, lease, owner, snapOwner, db>>
        BY <2>6 DEF CloseBusy, CloseReply
      <3>4. QED
        BY <3>1, <3>2, <3>3
    <2>7. CASE CloseTake(t)
      BY <2>7 DEF CloseTake, Leased, Goto
    <2>8. CASE CloseDrop(t)
      BY <2>8 DEF CloseDrop, Unlocked, Answer, DropGuards
    <2>9. QED
      BY <1>5, <2>1, <2>2, <2>3, <2>4, <2>5, <2>6, <2>7, <2>8 DEF WriteStep
  <1>6. ASSUME NEW d \in Dbs, OpenStep(d) PROVE Making'
    <2>1. ASSUME NEW cf \in BOOLEAN, Open(d, cf) PROVE Making'
      BY <2>1 DEF Open, NewDb
    <2>2. ASSUME NEW cf \in BOOLEAN, OpenReadOnly(d, cf) PROVE Making'
      BY <2>2 DEF OpenReadOnly, NewDb
    <2>3. QED
      BY <1>6, <2>1, <2>2 DEF OpenStep
  <1>7. ASSUME NEW d \in Dbs, ReleaseDbTerm(d) PROVE Making'
    BY <1>7 DEF ReleaseDbTerm
  <1>8. ASSUME NEW d \in Dbs, FreeDb(d) PROVE Making'
    BY <1>8 DEF FreeDb, DbReferenced, Reachable, Unlocked
  <1>9. ASSUME NEW c \in Children, ReleaseChildTerm(c) PROVE Making'
    BY <1>9 DEF ReleaseChildTerm
  <1>10. ASSUME NEW c \in Children, Destruct(c) PROVE Making'
    <2>1. CASE BeginDrop(c)
      BY <2>1 DEF BeginDrop, ChildReferenced
    <2>2. CASE DropNative(c)
      BY <2>2 DEF DropNative
    <2>3. CASE DropOwner(c)
      BY <2>3 DEF DropOwner
    <2>4. CASE DropSnapOwner(c)
      BY <2>4 DEF DropSnapOwner
    <2>5. CASE DropLease(c)
      BY <2>5 DEF DropLease, Released
    <2>6. QED
      BY <1>10, <2>1, <2>2, <2>3, <2>4, <2>5 DEF Destruct
  <1>11. CASE UNCHANGED vars
    BY <1>11
  <1>12. QED
    BY <1>1, <1>2, <1>3, <1>4, <1>5, <1>6, <1>7, <1>8, <1>9, <1>10, <1>11 DEF Next

(* The fields of a child are dropped in their order. *)
LEMMA ChildShapeStep == IInv /\ [Next]_vars => ChildShape'
  <1> SUFFICES ASSUME IInv, [Next]_vars PROVE ChildShape'
    OBVIOUS
  <1> USE ConstantsAssumption DEF vars, dbVars, kidVars, callVars, IInv,
       TypeOK, CallShape, ChildShape, Making, References, Created, DataOps,
       SpawnOps, ReadOps, WriteOps, SnapCfOps, SnapOps, CfOps, DeriveOps,
       AllOps, Children
  <1>1. ASSUME NEW t \in Threads, Call(t) PROVE ChildShape'
    <2>1. ASSUME NEW d \in Dbs, NEW o \in DataOps, CallData(t, d, o)
           PROVE ChildShape'
      BY <2>1 DEF CallData, Begin, Goto
    <2>2. ASSUME NEW d \in Dbs, NEW o \in SpawnOps, NEW c \in Children, CallSpawn(t, d, o, c)
           PROVE ChildShape'
      BY <2>2 DEF CallSpawn, Begin, Goto, Fresh
    <2>3. ASSUME NEW d \in Dbs, NEW o \in WriteOps, CallWrite(t, d, o)
           PROVE ChildShape'
      BY <2>3 DEF CallWrite, Begin, Goto
    <2>4. ASSUME NEW s \in Snaps, NEW o \in SnapOps, NEW new \in Iters \cup {None}, CallSnap(t, s, o, new)
           PROVE ChildShape'
      BY <2>4 DEF CallSnap, Begin, Goto, Fresh
    <2>5. ASSUME NEW i \in Iters, CallNext(t, i) PROVE ChildShape'
      BY <2>5 DEF CallNext, Begin, Goto
    <2>6. QED
      BY <1>1, <2>1, <2>2, <2>3, <2>4, <2>5 DEF Call
  <1>2. ASSUME NEW t \in Threads, Return(t) PROVE ChildShape'
    BY <1>2 DEF Return
  <1>3. ASSUME NEW t \in Threads, ReadStep(t) PROVE ChildShape'
    <2>1. CASE AcquireRead(t)
      BY <2>1 DEF AcquireRead, CanRead, Goto
    <2>2. CASE ReadClosed(t)
      BY <2>2 DEF ReadClosed, CanRead, Answer
    <2>3. CASE LookupCf(t)
      BY <2>3 DEF LookupCf, Goto, Answer, DropGuards, lockVars
    <2>4. CASE FinishData(t)
      BY <2>4 DEF FinishData, Ready, Answer, DropGuards
    <2>5. CASE CreateNative(t)
      BY <2>5 DEF CreateNative, Ready, Goto
    <2>6. CASE AcquireLease(t)
      BY <2>6 DEF AcquireLease, Goto
    <2>7. CASE FinishSpawn(t)
      BY <2>7 DEF FinishSpawn, Answer, DropGuards
    <2>8. QED
      BY <1>3, <2>1, <2>2, <2>3, <2>4, <2>5, <2>6, <2>7 DEF ReadStep
  <1>4. ASSUME NEW t \in Threads, ChildStep(t) PROVE ChildShape'
    <2>1. CASE AcquireMutex(t)
      BY <2>1 DEF AcquireMutex, Ready, MutexFree, Goto
    <2>2. CASE FinishUse(t)
      BY <2>2 DEF FinishUse, Answer, DropGuards
    <2>3. CASE CreateSnapIter(t)
      BY <2>3 DEF CreateSnapIter, Goto
    <2>4. QED
      BY <1>4, <2>1, <2>2, <2>3 DEF ChildStep
  <1>5. ASSUME NEW t \in Threads, WriteStep(t) PROVE ChildShape'
    <2>1. CASE AcquireWrite(t)
      BY <2>1 DEF AcquireWrite, CanWrite, Goto
    <2>2. CASE WriteClosed(t)
      BY <2>2 DEF WriteClosed, CanWrite, Answer
    <2>3. CASE CreateCf(t)
      BY <2>3 DEF CreateCf, Answer, DropGuards
    <2>4. CASE DropCf(t)
      BY <2>4 DEF DropCf, Answer, DropGuards
    <2>5. CASE CloseNoop(t)
      BY <2>5 DEF CloseNoop, CloseReply, Answer, DropGuards
    <2>6. CASE CloseBusy(t)
      BY <2>6 DEF CloseBusy, CloseReply, Answer, DropGuards
    <2>7. CASE CloseTake(t)
      BY <2>7 DEF CloseTake, Leased, Goto
    <2>8. CASE CloseDrop(t)
      BY <2>8 DEF CloseDrop, Unlocked, Answer, DropGuards
    <2>9. QED
      BY <1>5, <2>1, <2>2, <2>3, <2>4, <2>5, <2>6, <2>7, <2>8 DEF WriteStep
  <1>6. ASSUME NEW d \in Dbs, OpenStep(d) PROVE ChildShape'
    <2>1. ASSUME NEW cf \in BOOLEAN, Open(d, cf) PROVE ChildShape'
      BY <2>1 DEF Open, NewDb
    <2>2. ASSUME NEW cf \in BOOLEAN, OpenReadOnly(d, cf) PROVE ChildShape'
      BY <2>2 DEF OpenReadOnly, NewDb
    <2>3. QED
      BY <1>6, <2>1, <2>2 DEF OpenStep
  <1>7. ASSUME NEW d \in Dbs, ReleaseDbTerm(d) PROVE ChildShape'
    BY <1>7 DEF ReleaseDbTerm
  <1>8. ASSUME NEW d \in Dbs, FreeDb(d) PROVE ChildShape'
    BY <1>8 DEF FreeDb, DbReferenced, Reachable, Unlocked
  <1>9. ASSUME NEW c \in Children, ReleaseChildTerm(c) PROVE ChildShape'
    BY <1>9 DEF ReleaseChildTerm
  <1>10. ASSUME NEW c \in Children, Destruct(c) PROVE ChildShape'
    <2>1. CASE BeginDrop(c)
      BY <2>1 DEF BeginDrop, ChildReferenced
    <2>2. CASE DropNative(c)
      BY <2>2 DEF DropNative
    <2>3. CASE DropOwner(c)
      BY <2>3 DEF DropOwner
    <2>4. CASE DropSnapOwner(c)
      BY <2>4 DEF DropSnapOwner
    <2>5. CASE DropLease(c)
      BY <2>5 DEF DropLease, Released
    <2>6. QED
      BY <1>10, <2>1, <2>2, <2>3, <2>4, <2>5 DEF Destruct
  <1>11. CASE UNCHANGED vars
    BY <1>11
  <1>12. QED
    BY <1>1, <1>2, <1>3, <1>4, <1>5, <1>6, <1>7, <1>8, <1>9, <1>10, <1>11 DEF Next

(* What is referred to is neither dropped nor freed. *)
LEMMA ReferencesStep == IInv /\ [Next]_vars => References'
  <1> SUFFICES ASSUME IInv, [Next]_vars PROVE References'
    OBVIOUS
  <1> USE ConstantsAssumption DEF vars, dbVars, kidVars, callVars, IInv,
       TypeOK, CallShape, ChildShape, Making, References, Created, Protected,
       Guards, DbReferenced, Reachable, DataOps, SpawnOps, ReadOps, WriteOps,
       SnapCfOps, SnapOps, CfOps, DeriveOps, AllOps, HoldsRead, HoldsWrite,
       HoldsMutex, Children
  <1>1. ASSUME NEW t \in Threads, Call(t) PROVE References'
    <2>1. ASSUME NEW d \in Dbs, NEW o \in DataOps, CallData(t, d, o)
           PROVE References'
      BY <2>1 DEF CallData, Begin, Goto
    <2>2. ASSUME NEW d \in Dbs, NEW o \in SpawnOps, NEW c \in Children, CallSpawn(t, d, o, c)
           PROVE References'
      BY <2>2 DEF CallSpawn, Begin, Goto, Fresh
    <2>3. ASSUME NEW d \in Dbs, NEW o \in WriteOps, CallWrite(t, d, o)
           PROVE References'
      BY <2>3 DEF CallWrite, Begin, Goto
    <2>4. ASSUME NEW s \in Snaps, NEW o \in SnapOps, NEW new \in Iters \cup {None}, CallSnap(t, s, o, new)
           PROVE References'
      BY <2>4 DEF CallSnap, Begin, Goto, Fresh
    <2>5. ASSUME NEW i \in Iters, CallNext(t, i) PROVE References'
      BY <2>5 DEF CallNext, Begin, Goto
    <2>6. QED
      BY <1>1, <2>1, <2>2, <2>3, <2>4, <2>5 DEF Call
  <1>2. ASSUME NEW t \in Threads, Return(t) PROVE References'
    BY <1>2 DEF Return
  <1>3. ASSUME NEW t \in Threads, ReadStep(t) PROVE References'
    <2>1. CASE AcquireRead(t)
      BY <2>1 DEF AcquireRead, CanRead, Goto
    <2>2. CASE ReadClosed(t)
      BY <2>2 DEF ReadClosed, CanRead, Answer
    <2>3. CASE LookupCf(t)
      BY <2>3 DEF LookupCf, Goto, Answer, DropGuards, lockVars
    <2>4. CASE FinishData(t)
      BY <2>4 DEF FinishData, Ready, Answer, DropGuards
    <2>5. CASE CreateNative(t)
      BY <2>5 DEF CreateNative, Ready, Goto
    <2>6. CASE AcquireLease(t)
      BY <2>6 DEF AcquireLease, Goto
    <2>7. CASE FinishSpawn(t)
      BY <2>7 DEF FinishSpawn, Answer, DropGuards
    <2>8. QED
      BY <1>3, <2>1, <2>2, <2>3, <2>4, <2>5, <2>6, <2>7 DEF ReadStep
  <1>4. ASSUME NEW t \in Threads, ChildStep(t) PROVE References'
    <2>1. CASE AcquireMutex(t)
      BY <2>1 DEF AcquireMutex, Ready, MutexFree, Goto
    <2>2. CASE FinishUse(t)
      BY <2>2 DEF FinishUse, Answer, DropGuards
    <2>3. CASE CreateSnapIter(t)
      BY <2>3 DEF CreateSnapIter, Goto
    <2>4. QED
      BY <1>4, <2>1, <2>2, <2>3 DEF ChildStep
  <1>5. ASSUME NEW t \in Threads, WriteStep(t) PROVE References'
    <2>1. CASE AcquireWrite(t)
      BY <2>1 DEF AcquireWrite, CanWrite, Goto
    <2>2. CASE WriteClosed(t)
      BY <2>2 DEF WriteClosed, CanWrite, Answer
    <2>3. CASE CreateCf(t)
      BY <2>3 DEF CreateCf, Answer, DropGuards
    <2>4. CASE DropCf(t)
      BY <2>4 DEF DropCf, Answer, DropGuards
    <2>5. CASE CloseNoop(t)
      BY <2>5 DEF CloseNoop, CloseReply, Answer, DropGuards
    <2>6. CASE CloseBusy(t)
      BY <2>6 DEF CloseBusy, CloseReply, Answer, DropGuards
    <2>7. CASE CloseTake(t)
      BY <2>7 DEF CloseTake, Leased, Goto
    <2>8. CASE CloseDrop(t)
      BY <2>8 DEF CloseDrop, Unlocked, Answer, DropGuards
    <2>9. QED
      BY <1>5, <2>1, <2>2, <2>3, <2>4, <2>5, <2>6, <2>7, <2>8 DEF WriteStep
  <1>6. ASSUME NEW d \in Dbs, OpenStep(d) PROVE References'
    <2>1. ASSUME NEW cf \in BOOLEAN, Open(d, cf) PROVE References'
      BY <2>1 DEF Open, NewDb
    <2>2. ASSUME NEW cf \in BOOLEAN, OpenReadOnly(d, cf) PROVE References'
      BY <2>2 DEF OpenReadOnly, NewDb
    <2>3. QED
      BY <1>6, <2>1, <2>2 DEF OpenStep
  <1>7. ASSUME NEW d \in Dbs, ReleaseDbTerm(d) PROVE References'
    BY <1>7 DEF ReleaseDbTerm
  <1>8. ASSUME NEW d \in Dbs, FreeDb(d) PROVE References'
    BY <1>8 DEF FreeDb, Unlocked
  <1>9. ASSUME NEW c \in Children, ReleaseChildTerm(c) PROVE References'
    BY <1>9 DEF ReleaseChildTerm
  <1>10. ASSUME NEW c \in Children, Destruct(c) PROVE References'
    <2>1. CASE BeginDrop(c)
      BY <2>1 DEF BeginDrop, ChildReferenced
    <2>2. CASE DropNative(c)
      BY <2>2 DEF DropNative
    <2>3. CASE DropOwner(c)
      BY <2>3 DEF DropOwner
    <2>4. CASE DropSnapOwner(c)
      BY <2>4 DEF DropSnapOwner
    <2>5. CASE DropLease(c)
      BY <2>5 DEF DropLease, Released
    <2>6. QED
      BY <1>10, <2>1, <2>2, <2>3, <2>4, <2>5 DEF Destruct
  <1>11. CASE UNCHANGED vars
    BY <1>11
  <1>12. QED
    BY <1>1, <1>2, <1>3, <1>4, <1>5, <1>6, <1>7, <1>8, <1>9, <1>10, <1>11 DEF Next

(* A native handle is never without something that keeps its DB open. *)
LEMMA AnchoredStep == IInv /\ [Next]_vars => Anchored'
  <1> SUFFICES ASSUME IInv, [Next]_vars PROVE Anchored'
    OBVIOUS
  <1> USE ConstantsAssumption DEF vars, dbVars, kidVars, callVars, IInv,
       TypeOK, CallShape, ChildShape, Making, Anchored, Created, DataOps,
       SpawnOps, ReadOps, WriteOps, SnapCfOps, SnapOps, CfOps, DeriveOps,
       AllOps, Children
  <1>1. ASSUME NEW t \in Threads, Call(t) PROVE Anchored'
    <2>1. ASSUME NEW d \in Dbs, NEW o \in DataOps, CallData(t, d, o)
           PROVE Anchored'
      BY <2>1 DEF CallData, Begin, Goto
    <2>2. ASSUME NEW d \in Dbs, NEW o \in SpawnOps, NEW c \in Children, CallSpawn(t, d, o, c)
           PROVE Anchored'
      BY <2>2 DEF CallSpawn, Begin, Goto, Fresh
    <2>3. ASSUME NEW d \in Dbs, NEW o \in WriteOps, CallWrite(t, d, o)
           PROVE Anchored'
      BY <2>3 DEF CallWrite, Begin, Goto
    <2>4. ASSUME NEW s \in Snaps, NEW o \in SnapOps, NEW new \in Iters \cup {None}, CallSnap(t, s, o, new)
           PROVE Anchored'
      BY <2>4 DEF CallSnap, Begin, Goto, Fresh
    <2>5. ASSUME NEW i \in Iters, CallNext(t, i) PROVE Anchored'
      BY <2>5 DEF CallNext, Begin, Goto
    <2>6. QED
      BY <1>1, <2>1, <2>2, <2>3, <2>4, <2>5 DEF Call
  <1>2. ASSUME NEW t \in Threads, Return(t) PROVE Anchored'
    BY <1>2 DEF Return
  <1>3. ASSUME NEW t \in Threads, ReadStep(t) PROVE Anchored'
    <2>1. CASE AcquireRead(t)
      BY <2>1 DEF AcquireRead, CanRead, Goto
    <2>2. CASE ReadClosed(t)
      BY <2>2 DEF ReadClosed, CanRead, Answer
    <2>3. CASE LookupCf(t)
      BY <2>3 DEF LookupCf, Goto, Answer, DropGuards, lockVars
    <2>4. CASE FinishData(t)
      BY <2>4 DEF FinishData, Ready, Answer, DropGuards
    <2>5. CASE CreateNative(t)
      BY <2>5 DEF CreateNative, Ready, Goto
    <2>6. CASE AcquireLease(t)
      BY <2>6 DEF AcquireLease, Goto
    <2>7. CASE FinishSpawn(t)
      BY <2>7 DEF FinishSpawn, Answer, DropGuards
    <2>8. QED
      BY <1>3, <2>1, <2>2, <2>3, <2>4, <2>5, <2>6, <2>7 DEF ReadStep
  <1>4. ASSUME NEW t \in Threads, ChildStep(t) PROVE Anchored'
    <2>1. CASE AcquireMutex(t)
      BY <2>1 DEF AcquireMutex, Ready, MutexFree, Goto
    <2>2. CASE FinishUse(t)
      BY <2>2 DEF FinishUse, Answer, DropGuards
    <2>3. CASE CreateSnapIter(t)
      BY <2>3 DEF CreateSnapIter, Goto
    <2>4. QED
      BY <1>4, <2>1, <2>2, <2>3 DEF ChildStep
  <1>5. ASSUME NEW t \in Threads, WriteStep(t) PROVE Anchored'
    <2>1. CASE AcquireWrite(t)
      BY <2>1 DEF AcquireWrite, CanWrite, Goto
    <2>2. CASE WriteClosed(t)
      BY <2>2 DEF WriteClosed, CanWrite, Answer
    <2>3. CASE CreateCf(t)
      BY <2>3 DEF CreateCf, Answer, DropGuards
    <2>4. CASE DropCf(t)
      BY <2>4 DEF DropCf, Answer, DropGuards
    <2>5. CASE CloseNoop(t)
      BY <2>5 DEF CloseNoop, CloseReply, Answer, DropGuards
    <2>6. CASE CloseBusy(t)
      BY <2>6 DEF CloseBusy, CloseReply, Answer, DropGuards
    <2>7. CASE CloseTake(t)
      BY <2>7 DEF CloseTake, Leased, Goto
    <2>8. CASE CloseDrop(t)
      BY <2>8 DEF CloseDrop, Unlocked, Answer, DropGuards
    <2>9. QED
      BY <1>5, <2>1, <2>2, <2>3, <2>4, <2>5, <2>6, <2>7, <2>8 DEF WriteStep
  <1>6. ASSUME NEW d \in Dbs, OpenStep(d) PROVE Anchored'
    <2>1. ASSUME NEW cf \in BOOLEAN, Open(d, cf) PROVE Anchored'
      BY <2>1 DEF Open, NewDb
    <2>2. ASSUME NEW cf \in BOOLEAN, OpenReadOnly(d, cf) PROVE Anchored'
      BY <2>2 DEF OpenReadOnly, NewDb
    <2>3. QED
      BY <1>6, <2>1, <2>2 DEF OpenStep
  <1>7. ASSUME NEW d \in Dbs, ReleaseDbTerm(d) PROVE Anchored'
    BY <1>7 DEF ReleaseDbTerm
  <1>8. ASSUME NEW d \in Dbs, FreeDb(d) PROVE Anchored'
    BY <1>8 DEF FreeDb, DbReferenced, Reachable, Unlocked
  <1>9. ASSUME NEW c \in Children, ReleaseChildTerm(c) PROVE Anchored'
    BY <1>9 DEF ReleaseChildTerm
  <1>10. ASSUME NEW c \in Children, Destruct(c) PROVE Anchored'
    <2>1. CASE BeginDrop(c)
      BY <2>1 DEF BeginDrop, ChildReferenced
    <2>2. CASE DropNative(c)
      BY <2>2 DEF DropNative
    <2>3. CASE DropOwner(c)
      BY <2>3 DEF DropOwner
    <2>4. CASE DropSnapOwner(c)
      BY <2>4 DEF DropSnapOwner
    <2>5. CASE DropLease(c)
      BY <2>5 DEF DropLease, Released
    <2>6. QED
      BY <1>10, <2>1, <2>2, <2>3, <2>4, <2>5 DEF Destruct
  <1>11. CASE UNCHANGED vars
    BY <1>11
  <1>12. QED
    BY <1>1, <1>2, <1>3, <1>4, <1>5, <1>6, <1>7, <1>8, <1>9, <1>10, <1>11 DEF Next

(* Shared, exclusive and mutex guards are where the code holds them. *)
LEMMA GuardsStep == IInv /\ [Next]_vars => Guards'
  <1> SUFFICES ASSUME IInv, [Next]_vars PROVE Guards'
    OBVIOUS
  <1> USE ConstantsAssumption DEF vars, dbVars, kidVars, callVars, IInv,
       TypeOK, CallShape, Guards, DataOps, SpawnOps, ReadOps, WriteOps,
       SnapCfOps, SnapOps, CfOps, DeriveOps, AllOps, HoldsRead, HoldsWrite,
       HoldsMutex, Children
  <1>1. ASSUME NEW t \in Threads, Call(t) PROVE Guards'
    <2>1. ASSUME NEW d \in Dbs, NEW o \in DataOps, CallData(t, d, o)
           PROVE Guards'
      BY <2>1 DEF CallData, Begin, Goto
    <2>2. ASSUME NEW d \in Dbs, NEW o \in SpawnOps, NEW c \in Children, CallSpawn(t, d, o, c)
           PROVE Guards'
      BY <2>2 DEF CallSpawn, Begin, Goto, Fresh
    <2>3. ASSUME NEW d \in Dbs, NEW o \in WriteOps, CallWrite(t, d, o)
           PROVE Guards'
      BY <2>3 DEF CallWrite, Begin, Goto
    <2>4. ASSUME NEW s \in Snaps, NEW o \in SnapOps, NEW new \in Iters \cup {None}, CallSnap(t, s, o, new)
           PROVE Guards'
      BY <2>4 DEF CallSnap, Begin, Goto, Fresh
    <2>5. ASSUME NEW i \in Iters, CallNext(t, i) PROVE Guards'
      BY <2>5 DEF CallNext, Begin, Goto
    <2>6. QED
      BY <1>1, <2>1, <2>2, <2>3, <2>4, <2>5 DEF Call
  <1>2. ASSUME NEW t \in Threads, Return(t) PROVE Guards'
    BY <1>2 DEF Return
  <1>3. ASSUME NEW t \in Threads, ReadStep(t) PROVE Guards'
    <2>1. CASE AcquireRead(t)
      BY <2>1 DEF AcquireRead, CanRead, Goto
    <2>2. CASE ReadClosed(t)
      BY <2>2 DEF ReadClosed, CanRead, Answer
    <2>3. CASE LookupCf(t)
      BY <2>3 DEF LookupCf, Goto, Answer, DropGuards, lockVars
    <2>4. CASE FinishData(t)
      BY <2>4 DEF FinishData, Ready, Answer, DropGuards
    <2>5. CASE CreateNative(t)
      BY <2>5 DEF CreateNative, Ready, Goto
    <2>6. CASE AcquireLease(t)
      BY <2>6 DEF AcquireLease, Goto
    <2>7. CASE FinishSpawn(t)
      BY <2>7 DEF FinishSpawn, Answer, DropGuards
    <2>8. QED
      BY <1>3, <2>1, <2>2, <2>3, <2>4, <2>5, <2>6, <2>7 DEF ReadStep
  <1>4. ASSUME NEW t \in Threads, ChildStep(t) PROVE Guards'
    <2>1. CASE AcquireMutex(t)
      <3>1. CASE pc[t] = "wantMutex"
        BY <2>1, <3>1 DEF AcquireMutex, MutexFree, Goto
      <3>2. CASE op[t] \in SnapCfOps /\ Ready(t)
        BY <2>1, <3>2 DEF AcquireMutex, Ready, MutexFree, Goto
      <3>3. QED
        BY <2>1, <3>1, <3>2 DEF AcquireMutex
    <2>2. CASE FinishUse(t)
      BY <2>2 DEF FinishUse, Answer, DropGuards
    <2>3. CASE CreateSnapIter(t)
      BY <2>3 DEF CreateSnapIter, Goto
    <2>4. QED
      BY <1>4, <2>1, <2>2, <2>3 DEF ChildStep
  <1>5. ASSUME NEW t \in Threads, WriteStep(t) PROVE Guards'
    <2>1. CASE AcquireWrite(t)
      BY <2>1 DEF AcquireWrite, CanWrite, Goto
    <2>2. CASE WriteClosed(t)
      BY <2>2 DEF WriteClosed, CanWrite, Answer
    <2>3. CASE CreateCf(t)
      BY <2>3 DEF CreateCf, Answer, DropGuards
    <2>4. CASE DropCf(t)
      BY <2>4 DEF DropCf, Answer, DropGuards
    <2>5. CASE CloseNoop(t)
      BY <2>5 DEF CloseNoop, CloseReply, Answer, DropGuards
    <2>6. CASE CloseBusy(t)
      BY <2>6 DEF CloseBusy, CloseReply, Answer, DropGuards
    <2>7. CASE CloseTake(t)
      BY <2>7 DEF CloseTake, Leased, Goto
    <2>8. CASE CloseDrop(t)
      BY <2>8 DEF CloseDrop, Unlocked, Answer, DropGuards
    <2>9. QED
      BY <1>5, <2>1, <2>2, <2>3, <2>4, <2>5, <2>6, <2>7, <2>8 DEF WriteStep
  <1>6. ASSUME NEW d \in Dbs, OpenStep(d) PROVE Guards'
    <2>1. ASSUME NEW cf \in BOOLEAN, Open(d, cf) PROVE Guards'
      BY <2>1 DEF Open, NewDb
    <2>2. ASSUME NEW cf \in BOOLEAN, OpenReadOnly(d, cf) PROVE Guards'
      BY <2>2 DEF OpenReadOnly, NewDb
    <2>3. QED
      BY <1>6, <2>1, <2>2 DEF OpenStep
  <1>7. ASSUME NEW d \in Dbs, ReleaseDbTerm(d) PROVE Guards'
    BY <1>7 DEF ReleaseDbTerm
  <1>8. ASSUME NEW d \in Dbs, FreeDb(d) PROVE Guards'
    BY <1>8 DEF FreeDb, DbReferenced, Reachable, Unlocked
  <1>9. ASSUME NEW c \in Children, ReleaseChildTerm(c) PROVE Guards'
    BY <1>9 DEF ReleaseChildTerm
  <1>10. ASSUME NEW c \in Children, Destruct(c) PROVE Guards'
    <2>1. CASE BeginDrop(c)
      BY <2>1 DEF BeginDrop, ChildReferenced
    <2>2. CASE DropNative(c)
      BY <2>2 DEF DropNative
    <2>3. CASE DropOwner(c)
      BY <2>3 DEF DropOwner
    <2>4. CASE DropSnapOwner(c)
      BY <2>4 DEF DropSnapOwner
    <2>5. CASE DropLease(c)
      BY <2>5 DEF DropLease, Released
    <2>6. QED
      BY <1>10, <2>1, <2>2, <2>3, <2>4, <2>5 DEF Destruct
  <1>11. CASE UNCHANGED vars
    BY <1>11
  <1>12. QED
    BY <1>1, <1>2, <1>3, <1>4, <1>5, <1>6, <1>7, <1>8, <1>9, <1>10, <1>11 DEF Next

(* The guards and leases protect what they are meant to. *)
LEMMA ProtectedStep == IInv /\ [Next]_vars => Protected'
  <1> SUFFICES ASSUME IInv, [Next]_vars PROVE Protected'
    OBVIOUS
  <1> USE ConstantsAssumption DEF vars, dbVars, kidVars, callVars, IInv,
       TypeOK, CallShape, Guards, Protected, UsesCf, Making, ChildShape,
       LeaseCount, Closing, Created, DataOps, SpawnOps, ReadOps, WriteOps,
       SnapCfOps, SnapOps, CfOps, DeriveOps, AllOps, HoldsRead, HoldsWrite,
       HoldsMutex, Children
  <1>1. ASSUME NEW t \in Threads, Call(t) PROVE Protected'
    <2>1. ASSUME NEW d \in Dbs, NEW o \in DataOps, CallData(t, d, o)
           PROVE Protected'
      BY <2>1 DEF CallData, Begin, Goto
    <2>2. ASSUME NEW d \in Dbs, NEW o \in SpawnOps, NEW c \in Children, CallSpawn(t, d, o, c)
           PROVE Protected'
      BY <2>2 DEF CallSpawn, Begin, Goto, Fresh
    <2>3. ASSUME NEW d \in Dbs, NEW o \in WriteOps, CallWrite(t, d, o)
           PROVE Protected'
      BY <2>3 DEF CallWrite, Begin, Goto
    <2>4. ASSUME NEW s \in Snaps, NEW o \in SnapOps, NEW new \in Iters \cup {None}, CallSnap(t, s, o, new)
           PROVE Protected'
      BY <2>4 DEF CallSnap, Begin, Goto, Fresh
    <2>5. ASSUME NEW i \in Iters, CallNext(t, i) PROVE Protected'
      BY <2>5 DEF CallNext, Begin, Goto
    <2>6. QED
      BY <1>1, <2>1, <2>2, <2>3, <2>4, <2>5 DEF Call
  <1>2. ASSUME NEW t \in Threads, Return(t) PROVE Protected'
    BY <1>2 DEF Return
  <1>3. ASSUME NEW t \in Threads, ReadStep(t) PROVE Protected'
    <2>1. CASE AcquireRead(t)
      BY <2>1 DEF AcquireRead, CanRead, Goto
    <2>2. CASE ReadClosed(t)
      BY <2>2 DEF ReadClosed, CanRead, Answer
    <2>3. CASE LookupCf(t)
      BY <2>3 DEF LookupCf, Goto, Answer, DropGuards, lockVars
    <2>4. CASE FinishData(t)
      BY <2>4 DEF FinishData, Ready, Answer, DropGuards
    <2>5. CASE CreateNative(t)
      BY <2>5 DEF CreateNative, Ready, Goto
    <2>6. CASE AcquireLease(t)
      BY <2>6 DEF AcquireLease, Goto
    <2>7. CASE FinishSpawn(t)
      BY <2>7 DEF FinishSpawn, Answer, DropGuards
    <2>8. QED
      BY <1>3, <2>1, <2>2, <2>3, <2>4, <2>5, <2>6, <2>7 DEF ReadStep
  <1>4. ASSUME NEW t \in Threads, ChildStep(t) PROVE Protected'
    <2>1. CASE AcquireMutex(t)
      <3>1. CASE pc[t] = "wantMutex"
        BY <2>1, <3>1 DEF AcquireMutex, MutexFree, Goto
      <3>2. CASE op[t] \in SnapCfOps /\ Ready(t)
        BY <2>1, <3>2 DEF AcquireMutex, Ready, MutexFree, Goto
      <3>3. QED
        BY <2>1, <3>1, <3>2 DEF AcquireMutex
    <2>2. CASE FinishUse(t)
      BY <2>2 DEF FinishUse, Answer, DropGuards
    <2>3. CASE CreateSnapIter(t)
      BY <2>3 DEF CreateSnapIter, Goto
    <2>4. QED
      BY <1>4, <2>1, <2>2, <2>3 DEF ChildStep
  <1>5. ASSUME NEW t \in Threads, WriteStep(t) PROVE Protected'
    <2>1. CASE AcquireWrite(t)
      BY <2>1 DEF AcquireWrite, CanWrite, Goto
    <2>2. CASE WriteClosed(t)
      BY <2>2 DEF WriteClosed, CanWrite, Answer
    <2>3. CASE CreateCf(t)
      BY <2>3 DEF CreateCf, Answer, DropGuards
    <2>4. CASE DropCf(t)
      <3>1. db[t] \in Dbs /\ HoldsWrite(t)
        BY <2>4 DEF DropCf
      <3>2. readers[db[t]] = {}
        BY <3>1
      <3>3. \A u \in Threads : HoldsRead(u) => db[u] # db[t]
        BY <3>1, <3>2
      <3>4. \A u \in Threads : UsesCf(u) => HoldsRead(u)
        OBVIOUS
      <3>5. QED
        BY <2>4, <3>1, <3>3, <3>4 DEF DropCf, Answer, DropGuards
    <2>5. CASE CloseNoop(t)
      BY <2>5 DEF CloseNoop, CloseReply, Answer, DropGuards
    <2>6. CASE CloseBusy(t)
      BY <2>6 DEF CloseBusy, CloseReply, Answer, DropGuards
    <2>7. CASE CloseTake(t)
      <3>1. db[t] \in Dbs /\ HoldsWrite(t)
        BY <2>7 DEF CloseTake
      <3>2. LeaseHolders(db[t]) = {}
        BY <2>7, <3>1, LeaseHoldersCounted DEF CloseTake, Leased
      <3>3. writer[db[t]] = t /\ readers[db[t]] = {}
        BY <3>1
      <3>4. \A u \in Threads : HoldsRead(u) => db[u] # db[t]
        BY <3>1, <3>3
      <3>5. \A u \in Threads : UsesCf(u) => HoldsRead(u)
        OBVIOUS
      <3>6. \A u \in Threads \ {t} : HoldsWrite(u) => db[u] # db[t]
        BY <3>1, <3>3
      <3>7. QED
        BY <2>7, <3>1, <3>2, <3>4, <3>5, <3>6 DEF CloseTake, Goto, LeaseHolders
    <2>8. CASE CloseDrop(t)
      BY <2>8 DEF CloseDrop, Unlocked, Answer, DropGuards
    <2>9. QED
      BY <1>5, <2>1, <2>2, <2>3, <2>4, <2>5, <2>6, <2>7, <2>8 DEF WriteStep
  <1>6. ASSUME NEW d \in Dbs, OpenStep(d) PROVE Protected'
    <2>1. ASSUME NEW cf \in BOOLEAN, Open(d, cf) PROVE Protected'
      BY <2>1 DEF Open, NewDb
    <2>2. ASSUME NEW cf \in BOOLEAN, OpenReadOnly(d, cf) PROVE Protected'
      BY <2>2 DEF OpenReadOnly, NewDb
    <2>3. QED
      BY <1>6, <2>1, <2>2 DEF OpenStep
  <1>7. ASSUME NEW d \in Dbs, ReleaseDbTerm(d) PROVE Protected'
    BY <1>7 DEF ReleaseDbTerm
  <1>8. ASSUME NEW d \in Dbs, FreeDb(d) PROVE Protected'
    BY <1>8 DEF FreeDb, DbReferenced, Reachable, Unlocked
  <1>9. ASSUME NEW c \in Children, ReleaseChildTerm(c) PROVE Protected'
    BY <1>9 DEF ReleaseChildTerm
  <1>10. ASSUME NEW c \in Children, Destruct(c) PROVE Protected'
    <2>1. CASE BeginDrop(c)
      BY <2>1 DEF BeginDrop, ChildReferenced
    <2>2. CASE DropNative(c)
      BY <2>2 DEF DropNative
    <2>3. CASE DropOwner(c)
      BY <2>3 DEF DropOwner
    <2>4. CASE DropSnapOwner(c)
      BY <2>4 DEF DropSnapOwner
    <2>5. CASE DropLease(c)
      BY <2>5 DEF DropLease, Released
    <2>6. QED
      BY <1>10, <2>1, <2>2, <2>3, <2>4, <2>5 DEF Destruct
  <1>11. CASE UNCHANGED vars
    BY <1>11
  <1>12. QED
    BY <1>1, <1>2, <1>3, <1>4, <1>5, <1>6, <1>7, <1>8, <1>9, <1>10, <1>11 DEF Next

(* Closing a DB and its path's LOCK *)
LEMMA ClosingStep == IInv /\ [Next]_vars => Closing'
  <1> SUFFICES ASSUME IInv, [Next]_vars PROVE Closing'
    OBVIOUS
  <1> USE ConstantsAssumption DEF vars, dbVars, kidVars, callVars, IInv,
       TypeOK, CallShape, Guards, Closing, References, DataOps, SpawnOps,
       ReadOps, WriteOps, SnapCfOps, SnapOps, CfOps, DeriveOps, AllOps,
       HoldsRead, HoldsWrite, HoldsMutex, Children
  <1>1. ASSUME NEW t \in Threads, Call(t) PROVE Closing'
    <2>1. ASSUME NEW d \in Dbs, NEW o \in DataOps, CallData(t, d, o)
           PROVE Closing'
      BY <2>1 DEF CallData, Begin, Goto
    <2>2. ASSUME NEW d \in Dbs, NEW o \in SpawnOps, NEW c \in Children, CallSpawn(t, d, o, c)
           PROVE Closing'
      BY <2>2 DEF CallSpawn, Begin, Goto, Fresh
    <2>3. ASSUME NEW d \in Dbs, NEW o \in WriteOps, CallWrite(t, d, o)
           PROVE Closing'
      BY <2>3 DEF CallWrite, Begin, Goto
    <2>4. ASSUME NEW s \in Snaps, NEW o \in SnapOps, NEW new \in Iters \cup {None}, CallSnap(t, s, o, new)
           PROVE Closing'
      BY <2>4 DEF CallSnap, Begin, Goto, Fresh
    <2>5. ASSUME NEW i \in Iters, CallNext(t, i) PROVE Closing'
      BY <2>5 DEF CallNext, Begin, Goto
    <2>6. QED
      BY <1>1, <2>1, <2>2, <2>3, <2>4, <2>5 DEF Call
  <1>2. ASSUME NEW t \in Threads, Return(t) PROVE Closing'
    BY <1>2 DEF Return
  <1>3. ASSUME NEW t \in Threads, ReadStep(t) PROVE Closing'
    <2>1. CASE AcquireRead(t)
      BY <2>1 DEF AcquireRead, CanRead, Goto
    <2>2. CASE ReadClosed(t)
      BY <2>2 DEF ReadClosed, CanRead, Answer
    <2>3. CASE LookupCf(t)
      BY <2>3 DEF LookupCf, Goto, Answer, DropGuards, lockVars
    <2>4. CASE FinishData(t)
      BY <2>4 DEF FinishData, Ready, Answer, DropGuards
    <2>5. CASE CreateNative(t)
      BY <2>5 DEF CreateNative, Ready, Goto
    <2>6. CASE AcquireLease(t)
      BY <2>6 DEF AcquireLease, Goto
    <2>7. CASE FinishSpawn(t)
      BY <2>7 DEF FinishSpawn, Answer, DropGuards
    <2>8. QED
      BY <1>3, <2>1, <2>2, <2>3, <2>4, <2>5, <2>6, <2>7 DEF ReadStep
  <1>4. ASSUME NEW t \in Threads, ChildStep(t) PROVE Closing'
    <2>1. CASE AcquireMutex(t)
      BY <2>1 DEF AcquireMutex, Ready, MutexFree, Goto
    <2>2. CASE FinishUse(t)
      BY <2>2 DEF FinishUse, Answer, DropGuards
    <2>3. CASE CreateSnapIter(t)
      BY <2>3 DEF CreateSnapIter, Goto
    <2>4. QED
      BY <1>4, <2>1, <2>2, <2>3 DEF ChildStep
  <1>5. ASSUME NEW t \in Threads, WriteStep(t) PROVE Closing'
    <2>1. CASE AcquireWrite(t)
      BY <2>1 DEF AcquireWrite, CanWrite, Goto
    <2>2. CASE WriteClosed(t)
      BY <2>2 DEF WriteClosed, CanWrite, Answer
    <2>3. CASE CreateCf(t)
      BY <2>3 DEF CreateCf, Answer, DropGuards
    <2>4. CASE DropCf(t)
      BY <2>4 DEF DropCf, Answer, DropGuards
    <2>5. CASE CloseNoop(t)
      BY <2>5 DEF CloseNoop, CloseReply, Answer, DropGuards
    <2>6. CASE CloseBusy(t)
      BY <2>6 DEF CloseBusy, CloseReply, Answer, DropGuards
    <2>7. CASE CloseTake(t)
      BY <2>7 DEF CloseTake, Leased, Goto
    <2>8. CASE CloseDrop(t)
      BY <2>8 DEF CloseDrop, Unlocked, Answer, DropGuards
    <2>9. QED
      BY <1>5, <2>1, <2>2, <2>3, <2>4, <2>5, <2>6, <2>7, <2>8 DEF WriteStep
  <1>6. ASSUME NEW d \in Dbs, OpenStep(d) PROVE Closing'
    <2>1. ASSUME NEW cf \in BOOLEAN, Open(d, cf) PROVE Closing'
      BY <2>1 DEF Open, NewDb
    <2>2. ASSUME NEW cf \in BOOLEAN, OpenReadOnly(d, cf) PROVE Closing'
      BY <2>2 DEF OpenReadOnly, NewDb
    <2>3. QED
      BY <1>6, <2>1, <2>2 DEF OpenStep
  <1>7. ASSUME NEW d \in Dbs, ReleaseDbTerm(d) PROVE Closing'
    BY <1>7 DEF ReleaseDbTerm
  <1>8. ASSUME NEW d \in Dbs, FreeDb(d) PROVE Closing'
    BY <1>8 DEF FreeDb, DbReferenced, Reachable, Unlocked
  <1>9. ASSUME NEW c \in Children, ReleaseChildTerm(c) PROVE Closing'
    BY <1>9 DEF ReleaseChildTerm
  <1>10. ASSUME NEW c \in Children, Destruct(c) PROVE Closing'
    <2>1. CASE BeginDrop(c)
      BY <2>1 DEF BeginDrop, ChildReferenced
    <2>2. CASE DropNative(c)
      BY <2>2 DEF DropNative
    <2>3. CASE DropOwner(c)
      BY <2>3 DEF DropOwner
    <2>4. CASE DropSnapOwner(c)
      BY <2>4 DEF DropSnapOwner
    <2>5. CASE DropLease(c)
      BY <2>5 DEF DropLease, Released
    <2>6. QED
      BY <1>10, <2>1, <2>2, <2>3, <2>4, <2>5 DEF Destruct
  <1>11. CASE UNCHANGED vars
    BY <1>11
  <1>12. QED
    BY <1>1, <1>2, <1>3, <1>4, <1>5, <1>6, <1>7, <1>8, <1>9, <1>10, <1>11 DEF Next

(* IInv is an invariant, by the lemmas above, one for each of its parts: who
   holds which lock and lease at every point of every NIF and destructor. *)
THEOREM Invariance == Spec => []IInv
  <1>1. IInv /\ [Next]_vars => IInv'
    BY TypeOKStep, LeaseCountStep, CallShapeStep, MakingStep, ChildShapeStep,
       ReferencesStep, AnchoredStep, GuardsStep, ProtectedStep, ClosingStep
    DEF IInv
  <1>2. QED
    BY InitIInv, <1>1, PTL DEF Spec

(* The variables have their types, and the lease counter never underflows
   (the debug_assert of DbLease::drop, nif.rs). *)
THEOREM TypeCorrectness == Spec => []TypeOK
  <1>1. IInv => TypeOK
    BY DEF IInv
  <1>2. QED
    BY <1>1, Invariance, PTL

(* The counter that close reads is the number of live leases. *)
THEOREM LeasesAreCounted == Spec => []LeaseCount
  <1>1. IInv => LeaseCount
    BY DEF IInv
  <1>2. QED
    BY <1>1, Invariance, PTL

(* A native handle implies a lease on its DB: directly, through a live
   snapshot, or because the call making it still holds the read guard. *)
LEMMA HandlesAnchored == IInv => NoDanglingHandle
  <1> SUFFICES ASSUME IInv, NEW c \in Children, native[c]
               PROVE  dbState[of[c]] = "open"
    BY DEF NoDanglingHandle
  <1> USE ConstantsAssumption DEF IInv
  <1>1. CASE lease[c]
    BY <1>1 DEF Protected
  <1>2. CASE snapOwner[c] # None
    <2>1. snapOwner[c] \in Snaps /\ lease[snapOwner[c]]
      BY <1>2 DEF TypeOK, References, ChildShape, Children
    <2>2. of[snapOwner[c]] = of[c]
      BY <1>2 DEF References
    <2>3. QED
      BY <2>1, <2>2 DEF Protected, Children
  <1>3. ASSUME NEW t \in Threads, pc[t] = "made" /\ made[t] = c
        PROVE  dbState[of[c]] = "open"
    BY <1>3 DEF Making, Created, Protected, HoldsRead, Children
  <1>4. QED
    BY <1>1, <1>2, <1>3 DEF Anchored

(* No native iterator or snapshot outlives its DB. *)
THEOREM NoUseAfterFree == Spec => []NoDanglingHandle
  BY HandlesAnchored, Invariance, PTL

(* A call that works inside RocksDB has an open DB and, if it looked one
   up, a column family that still exists. *)
THEOREM CallsHaveTheirDb == Spec => []DbStaysOpenInCalls
  <1>1. IInv => DbStaysOpenInCalls
    <2> SUFFICES ASSUME IInv, NEW t \in Threads
                 PROVE  /\ UsesDb(t) => dbState[db[t]] = "open"
                        /\ UsesCf(t) => dbState[db[t]] = "open" /\ hasCf[db[t]]
                        /\ pc[t] = "writing" /\ op[t] # "close" => dbState[db[t]] = "open"
      BY DEF DbStaysOpenInCalls
    <2> USE DEF IInv
    <2>1. UsesCf(t) => HoldsRead(t)
      BY DEF UsesCf, HoldsRead
    <2>2. CASE pc[t] = "built" /\ op[t] \in DeriveOps
      <3>1. on[t] \in Snaps /\ db[t] = of[on[t]] /\ phase[on[t]] = "live"
        BY <2>2, ConstantsAssumption
        DEF CallShape, References, DeriveOps, SnapOps, SnapCfOps, Children
      <3>2. QED
        BY <2>1, <2>2, <3>1 DEF ChildShape, Protected, UsesDb, Children
    <2>3. CASE ~(pc[t] = "built" /\ op[t] \in DeriveOps)
      <3>1. UsesDb(t) => HoldsRead(t)
        BY <2>3 DEF UsesDb, HoldsRead, CallShape
      <3>2. QED
        BY <2>1, <3>1 DEF Protected
    <2>4. QED
      BY <2>2, <2>3
  <1>2. QED
    BY <1>1, Invariance, PTL

(* The mutex of a child keeps its native handle to one thread, and the
   call's reference keeps the destructor away. *)
THEOREM OneUserPerHandle == Spec => []HandleUseExclusive
  <1>1. IInv => HandleUseExclusive
    <2> SUFFICES ASSUME IInv, NEW t \in Threads, pc[t] = "using"
                 PROVE  /\ native[on[t]] /\ phase[on[t]] = "live"
                        /\ \A u \in Threads \ {t} : pc[u] = "using" => on[u] # on[t]
      BY DEF HandleUseExclusive
    <2> USE DEF IInv
    <2>1. on[t] \in Children /\ on[t] # None
      BY ConstantsAssumption
      DEF CallShape, SnapOps, SnapCfOps, Children
    <2>2. native[on[t]] /\ phase[on[t]] = "live"
      BY <2>1 DEF References, ChildShape
    <2>3. \A u \in Threads : pc[u] = "using" /\ on[u] = on[t] => mutex[on[t]] = u
      BY <2>1 DEF Guards, HoldsMutex
    <2>4. QED
      BY <2>2, <2>3
  <1>2. QED
    BY <1>1, Invariance, PTL

(* A close that answered ok has given the path's LOCK back. *)
THEOREM CloseGivesPathBack == Spec => []PathReleasedByClose
  <1>1. IInv => PathReleasedByClose
    BY ConstantsAssumption
    DEF IInv, Closing, CallShape, WriteOps, PathReleasedByClose
  <1>2. QED
    BY <1>1, Invariance, PTL

(* However many calls there are, they never all wait for one another. *)
THEOREM DeadlockFreedom == Spec => []NoLockCycle
  <1>1. IInv => NoLockCycle
    <2> SUFFICES ASSUME IInv, NEW t \in Threads, Busy(t),
                        \A u \in Threads : Busy(u) => Blocked(u)
                 PROVE  FALSE
      BY DEF NoLockCycle
    <2> USE ConstantsAssumption
        DEF IInv, TypeOK, CallShape, Busy, Blocked, MutexFree, CanWrite, Ready
    <2>1. \A u \in Threads : ~HoldsMutex(u) /\ ~HoldsWrite(u)
      BY DEF HoldsMutex, HoldsWrite
    <2>2. \A c \in Children : mutex[c] = None
      BY <2>1 DEF Guards
    <2>3. \A d \in Dbs : writer[d] = None
      BY <2>1 DEF Guards
    <2>4. \A u \in Threads : on[u] # None => MutexFree(on[u])
      BY <2>2
    <2>5. \A u \in Threads : ~HoldsRead(u)
      BY <2>4 DEF HoldsRead, SnapOps, SnapCfOps, Children
    <2>6. \A d \in Dbs : readers[d] = {}
      BY <2>5 DEF Guards
    <2>7. \A u \in Threads : pc[u] # "wantMutex"
      BY <2>4 DEF SnapOps, SnapCfOps, Children
    <2>8. \A u \in Threads : pc[u] # "wantWrite"
      BY <2>3, <2>6 DEF ReadOps, WriteOps
    <2>9. pc[t] = "wantRead" /\ ~CanRead(t)
      BY <2>4, <2>5, <2>7, <2>8 DEF HoldsRead, SnapCfOps
    <2>10. db[t] \in Dbs
      BY <2>9 DEF References, ChildShape, ReadOps, SnapOps, Children
    <2>11. QED
      BY <2>3, <2>8, <2>9, <2>10 DEF CanRead, WriterWaits
  <1>2. QED
    BY <1>1, Invariance, PTL

----------------------------------------------------------------------------
(* The refinement of DbContract: one lemma for each kind of step. *)

(* What the contract takes a NIF for *)
LEMMA KindOf ==
  /\ \A o \in DataOps : Kind(o) = "use"
  /\ \A o \in SpawnOps : Kind(o) = "spawn"
  /\ \A o \in DeriveOps : Kind(o) = "derive"
  /\ \A o \in {"create_cf", "drop_cf"} : Kind(o) = "meta"
  /\ Kind("close") = "close"
  /\ \A o \in {"snap_get", "snap_get_cf", "next"} : Kind(o) = "child"
  /\ Kind("none") = "none"
  BY DEF Kind, DataOps, SpawnOps, DeriveOps

(* A call that answers takes effect, as the contract sees it: nothing else
   of the call changes. *)
LEMMA AnswerIsEffect ==
  ASSUME TypeOK, NEW t \in Threads, NEW r, Answer(t, r), UNCHANGED <<op, db, on, made, of>>,
         pc[t] \notin {"idle", "done", "made", "built", "closing"}
  PROVE  Contract!Effect(t, r)
  BY DEF TypeOK, Answer, Sealed, Contract!Effect

(* So does one that comes to where its answer is settled, though it has
   more to do before it gives it. *)
LEMMA SealIsEffect ==
  ASSUME TypeOK, NEW t \in Threads, NEW l \in {"made", "built", "closing"}, Goto(t, l),
         UNCHANGED <<op, db, on, made>>,
         \A u \in Threads : on[u] # None => of'[on[u]] = of[on[u]],
         pc[t] \notin {"idle", "done", "made", "built", "closing"}
  PROVE  Contract!Effect(t, "ok")
  BY DEF TypeOK, Goto, Sealed, Contract!Effect

(* Beginning a call is an invocation of its kind, about a DB that exists ... *)
LEMMA CallDataRefined ==
  ASSUME IInv, NEW t \in Threads, NEW d \in Dbs, NEW o \in DataOps, CallData(t, d, o)
  PROVE  Contract!Invoke(t, "use", d, None, None)
  <1>1. dbState[d] # "none"
    BY ConstantsAssumption DEF CallData, Reachable, IInv, References, Children, TypeOK, ChildShape
  <1>2. Kind(o) = "use"
    BY KindOf
  <1>3. QED
    BY <1>1, <1>2, ConstantsAssumption DEF CallData, Begin, Goto, IInv, TypeOK, Contract!Invoke, Sealed, dbVars, kidVars

(* ... and for a child that does not, ... *)
LEMMA CallSpawnRefined ==
  ASSUME IInv, NEW t \in Threads, NEW d \in Dbs, NEW o \in SpawnOps, NEW c \in Children,
         CallSpawn(t, d, o, c)
  PROVE  Contract!Invoke(t, "spawn", d, None, c)
  <1>1. dbState[d] # "none"
    BY ConstantsAssumption DEF CallSpawn, Reachable, IInv, References, Children, TypeOK, ChildShape
  <1>2. Kind(o) = "spawn"
    BY KindOf
  <1>3. ~native[c] /\ ~lease[c] /\ c # None
    BY ConstantsAssumption DEF CallSpawn, Fresh, IInv, ChildShape, Children
  <1>4. QED
    BY <1>1, <1>2, <1>3, ConstantsAssumption DEF CallSpawn, Begin, Goto, Fresh, IInv, TypeOK, Contract!Invoke, Sealed, dbVars, kidVars

LEMMA CallWriteRefined ==
  ASSUME IInv, NEW t \in Threads, NEW d \in Dbs, NEW o \in WriteOps, CallWrite(t, d, o)
  PROVE  Contract!Invoke(t, Kind(o), d, None, None) /\ Kind(o) \in {"meta", "close"}
  <1>1. dbState[d] # "none"
    BY ConstantsAssumption
    DEF CallWrite, Reachable, IInv, References, Children, TypeOK, ChildShape
  <1>2. Kind(o) \in {"meta", "close"}
    BY KindOf DEF WriteOps
  <1>3. QED
    BY <1>1, <1>2, ConstantsAssumption
    DEF CallWrite, Begin, Goto, IInv, TypeOK, Contract!Invoke, Sealed, dbVars, kidVars

(* ... or about a child, which exists, and so does its DB. *)
LEMMA BeginOnChild ==
  ASSUME IInv, NEW t \in Threads, NEW o, NEW c \in Children, NEW n, NEW d, NEW l,
         l \in {"wantRead", "wantMutex"}, Begin(t, o, d, c, n, l),
         native[c], of[c] \in Dbs,
         n # None => ~native[n] /\ ~lease[n] /\ n \in Children /\ \A u \in Threads : made[u] # n
  PROVE  Contract!Invoke(t, Kind(o), of[c], c, n)
  <1>1. c # None /\ of[c] # None
    BY ConstantsAssumption DEF Children
  <1>2. UNCHANGED <<dbState, native, lease, of>>
    BY DEF Begin, dbVars, kidVars
  <1>3. QED
    BY <1>1, <1>2 DEF IInv, TypeOK, Begin, Goto, Sealed, Contract!Invoke

LEMMA CallSnapRefined ==
  ASSUME IInv, NEW t \in Threads, NEW s \in Snaps, NEW o \in SnapOps,
         NEW n \in Iters \cup {None}, CallSnap(t, s, o, n)
  PROVE  /\ of[s] \in Dbs
         /\ Contract!Invoke(t, Kind(o), of[s], s, n)
         /\ (Kind(o) = "child" /\ n = None) \/ (Kind(o) = "derive" /\ n \in Children)
  <1>1. phase[s] = "live" /\ native[s] /\ of[s] \in Dbs /\ s \in Children /\ s # None
    BY ConstantsAssumption DEF CallSnap, IInv, ChildShape, Children
  <1>2. (Kind(o) = "child" /\ n = None) \/ (Kind(o) = "derive" /\ n \in Children)
    <2>1. CASE o \in DeriveOps
      BY <2>1, KindOf DEF CallSnap, Children
    <2>2. CASE o \notin DeriveOps
      <3>1. o \in {"snap_get", "snap_get_cf", "next"}
        BY <2>2 DEF SnapOps, SnapCfOps, DeriveOps
      <3>2. Kind(o) = "child"
        BY <3>1, KindOf
      <3>3. n = None
        BY <2>2 DEF CallSnap
      <3>4. QED
        BY <3>2, <3>3
    <2>3. QED
      BY <2>1, <2>2
  <1>3. n # None => ~native[n] /\ ~lease[n] /\ n \in Children /\ \A u \in Threads : made[u] # n
    BY <1>2, ConstantsAssumption DEF CallSnap, Fresh, IInv, ChildShape, Children
  <1>4. \E l \in {"wantRead", "wantMutex"} : Begin(t, o, owner[s], s, n, l)
    BY DEF CallSnap
  <1>5. QED
    BY <1>1, <1>2, <1>3, <1>4, BeginOnChild

LEMMA CallNextRefined ==
  ASSUME IInv, NEW t \in Threads, NEW i \in Iters, CallNext(t, i)
  PROVE  of[i] \in Dbs /\ Contract!Invoke(t, "child", of[i], i, None)
  <1>1. phase[i] = "live" /\ native[i] /\ of[i] \in Dbs /\ i \in Children /\ i # None
    BY ConstantsAssumption DEF CallNext, IInv, ChildShape, Children
  <1>2. Kind("next") = "child"
    BY KindOf
  <1>3. QED
    BY <1>1, <1>2, BeginOnChild DEF CallNext

(* The caller gets the answer. *)
LEMMA ReturnRefined ==
  ASSUME IInv, NEW t \in Threads, Return(t)
  PROVE  Contract!Return(t)
  <1>1. /\ pc' = [pc EXCEPT ![t] = "idle"] /\ res' = [res EXCEPT ![t] = "none"]
        /\ op' = [op EXCEPT ![t] = "none"] /\ db' = [db EXCEPT ![t] = None]
        /\ on' = [on EXCEPT ![t] = None] /\ made' = [made EXCEPT ![t] = None]
        /\ pc[t] = "done" /\ UNCHANGED <<dbState, native, lease, of>> /\ TypeOK
    BY DEF Return, dbVars, IInv
  <1>2. QED
    BY <1>1, KindOf DEF TypeOK, Sealed, Contract!Return

(* Under the shared lock a call is answered with the DB open, unless it
   finds None; a child begins to exist with its native handle. *)
LEMMA ReadStepRefined ==
  ASSUME IInv, NEW t \in Threads, ReadStep(t)
  PROVE  \/ UNCHANGED Contract!vars
         \/ Contract!Rejected(t) \/ Contract!Refused(t) \/ Contract!Use(t) \/ Contract!Spawn(t)
  <1> USE ConstantsAssumption DEF IInv, TypeOK, CallShape, Sealed
  <1>1. CASE AcquireRead(t)
    BY <1>1 DEF AcquireRead, CanRead, Goto, kidVars, Contract!vars
  <1>2. CASE ReadClosed(t)
    <2>1. db[t] \in Dbs /\ dbState[db[t]] \in {"closing", "closed"} /\ op[t] \notin SnapCfOps
      BY <1>2 DEF ReadClosed, CanRead, References, ChildShape, Protected, ReadOps, SnapOps, Children
    <2>2. op[t] \in DataOps \cup SpawnOps /\ on[t] = None
      BY <1>2, <2>1 DEF ReadClosed, CanRead, ReadOps
    <2>3. Contract!Rejected(t)
      BY <1>2, <2>1, <2>2, KindOf
      DEF ReadClosed, CanRead, Answer, dbVars, kidVars, Contract!Rejected, Contract!Effect
    <2>4. QED
      BY <2>3
  <1>3. ASSUME pc[t] \in {"reading", "cfHandle"}
        PROVE  /\ db[t] \in Dbs /\ dbState[db[t]] = "open"
               /\ db[t] = IF on[t] = None THEN db[t] ELSE of[on[t]]
    BY <1>3 DEF ReadOps, SnapOps, References, ChildShape, Protected, HoldsRead, Children
  <1>4. CASE LookupCf(t)
    <2>1. CASE hasCf[db[t]]
      BY <1>4, <2>1 DEF LookupCf, Goto, lockVars, Contract!vars
    <2>2. CASE ~hasCf[db[t]]
      <3>1. Kind(op[t]) \in {"use", "spawn", "child", "derive"}
        BY <1>4, KindOf DEF LookupCf, CfOps, DataOps, SpawnOps, SnapCfOps, DeriveOps
      <3>2. Contract!Refused(t)
        <4>1. Contract!Effect(t, "unknown_cf")
          BY <1>4, <2>2, AnswerIsEffect DEF LookupCf
        <4> HIDE DEF IInv, TypeOK, CallShape
        <4>2. QED
          BY <1>3, <1>4, <3>1, <4>1 DEF LookupCf, Contract!Refused
      <3>3. QED
        BY <3>2
    <2>3. QED
      BY <2>1, <2>2
  <1>5. CASE FinishData(t)
    <2>1. Kind(op[t]) = "use" /\ pc[t] \in {"reading", "cfHandle"}
      BY <1>5, KindOf DEF FinishData, Ready
    <2>2. Contract!Use(t)
      <3>1. Contract!Effect(t, "ok")
        BY <1>5, <2>1, AnswerIsEffect DEF FinishData
      <3> HIDE DEF IInv, TypeOK, CallShape
      <3>2. QED
        BY <1>3, <1>5, <2>1, <3>1 DEF FinishData, Contract!Use
    <2>3. QED
      BY <2>2
  <1>6. CASE CreateNative(t)
    <2>1. Kind(op[t]) = "spawn" /\ pc[t] \in {"reading", "cfHandle"} /\ on[t] = None
      BY <1>6, KindOf DEF CreateNative, Ready, ReadOps
    <2>2. made[t] \in Children /\ phase[made[t]] = "none"
      BY <1>6, <2>1 DEF CreateNative, Making, Created
    <2>3. \A u \in Threads : on[u] # made[t]
      BY <2>2 DEF References
    <2>4. Contract!Spawn(t)
      <3>1. Contract!Effect(t, "ok")
        BY <1>6, <2>1, <2>2, <2>3, SealIsEffect DEF CreateNative
      <3>2. /\ native' = [native EXCEPT ![made[t]] = TRUE] /\ of' = [of EXCEPT ![made[t]] = db[t]]
            /\ UNCHANGED <<dbState, lease>>
            /\ native \in [Children -> BOOLEAN] /\ of \in [Children -> Dbs \cup {None}]
        BY <1>6 DEF CreateNative, dbVars
      <3> HIDE DEF IInv, TypeOK, CallShape
      <3>3. QED
        BY <1>3, <2>1, <2>2, <3>1, <3>2 DEF Contract!Spawn
    <2>5. QED
      BY <2>4
  <1>7. CASE AcquireLease(t)
    <2>1. made[t] \in Children /\ native[made[t]]
      BY <1>7 DEF AcquireLease, Making, Created, ChildShape
    <2>2. QED
      BY <1>7, <2>1 DEF AcquireLease, Goto, Contract!vars
  <1>8. CASE FinishSpawn(t)
    BY <1>8 DEF FinishSpawn, Answer, DropGuards, Contract!vars
  <1>9. QED
    BY <1>1, <1>2, <1>4, <1>5, <1>6, <1>7, <1>8 DEF ReadStep

(* Under the mutex of a child its DB is open, lock or no lock. *)
LEMMA ChildStepRefined ==
  ASSUME IInv, NEW t \in Threads, ChildStep(t)
  PROVE  UNCHANGED Contract!vars \/ Contract!UseChild(t) \/ Contract!Spawn(t)
  <1> USE ConstantsAssumption DEF IInv, TypeOK, CallShape, Sealed
  <1>1. CASE AcquireMutex(t)
    BY <1>1 DEF AcquireMutex, Ready, Goto, dbVars, Contract!vars
  <1>2. ASSUME pc[t] = "using"
        PROVE  /\ on[t] \in Children /\ on[t] # None /\ native[on[t]] /\ of[on[t]] \in Dbs
               /\ dbState[of[on[t]]] = "open" /\ phase[on[t]] = "live"
    <2>1. on[t] \in Children /\ on[t] # None
      BY <1>2 DEF SnapOps, Children
    <2>2. native[on[t]] /\ of[on[t]] \in Dbs /\ phase[on[t]] = "live"
      BY <2>1 DEF References, ChildShape
    <2>3. QED
      BY <2>1, <2>2, HandlesAnchored DEF NoDanglingHandle
  <1>3. CASE FinishUse(t)
    <2>1. Kind(op[t]) = "child"
      BY <1>3, KindOf DEF FinishUse, SnapOps, SnapCfOps, DeriveOps
    <2>2. Contract!UseChild(t)
      <3>1. Contract!Effect(t, "ok")
        BY <1>3, AnswerIsEffect DEF FinishUse
      <3> HIDE DEF IInv, TypeOK, CallShape
      <3>2. QED
        BY <1>2, <1>3, <2>1, <3>1 DEF FinishUse, Contract!UseChild
    <2>3. QED
      BY <2>2
  <1>4. CASE CreateSnapIter(t)
    <2>1. Kind(op[t]) = "derive" /\ db[t] = of[on[t]]
      BY <1>4, KindOf DEF CreateSnapIter, SnapOps, DeriveOps
    <2>2. made[t] \in Children /\ phase[made[t]] = "none"
      BY <1>4 DEF CreateSnapIter, Making, Created
    <2>3. \A u \in Threads : on[u] # made[t]
      BY <2>2 DEF References
    <2>4. Contract!Spawn(t)
      <3>1. Contract!Effect(t, "ok")
        BY <1>4, <2>2, <2>3, SealIsEffect DEF CreateSnapIter
      <3>2. /\ native' = [native EXCEPT ![made[t]] = TRUE] /\ of' = [of EXCEPT ![made[t]] = db[t]]
            /\ UNCHANGED <<dbState, lease>> /\ pc[t] = "using"
            /\ native \in [Children -> BOOLEAN] /\ of \in [Children -> Dbs \cup {None}]
        BY <1>4 DEF CreateSnapIter, dbVars
      <3> HIDE DEF IInv, TypeOK, CallShape
      <3>3. QED
        BY <1>2, <2>1, <2>2, <3>1, <3>2 DEF Contract!Spawn
    <2>5. QED
      BY <2>4
  <1>5. QED
    BY <1>1, <1>3, <1>4 DEF ChildStep

(* No lease and no call that is making a handle: no child at all.  This is
   what makes the test of the lease counter in close enough. *)
LEMMA NoKidsUnderWriter ==
  ASSUME IInv, NEW d \in Dbs, LeaseHolders(d) = {},
         \A u \in Threads : pc[u] = "made" => db[u] # d
  PROVE  ~Contract!HasKids(d)
  <1> SUFFICES ASSUME NEW c \in Children, native[c] \/ lease[c], of[c] = d
               PROVE  FALSE
    BY ConstantsAssumption DEF Contract!HasKids
  <1> USE ConstantsAssumption DEF IInv
  <1>1. ~lease[c]
    BY DEF LeaseHolders
  <1>2. CASE snapOwner[c] # None
    <2>1. snapOwner[c] \in Snaps /\ lease[snapOwner[c]] /\ of[snapOwner[c]] = d
      BY <1>2 DEF TypeOK, References, ChildShape, Children
    <2>2. QED
      BY <2>1 DEF LeaseHolders, Children
  <1>3. ASSUME NEW u \in Threads, pc[u] = "made", made[u] = c PROVE FALSE
    BY <1>3 DEF Making, Created, Children
  <1>4. QED
    BY <1>1, <1>2, <1>3 DEF Anchored

(* close takes effect when it finds the DB closed, when it finds a lease,
   or when it takes the DB: before the path is given back. *)
LEMMA WriteStepRefined ==
  ASSUME IInv, NEW t \in Threads, WriteStep(t)
  PROVE  \/ UNCHANGED Contract!vars
         \/ Contract!Rejected(t) \/ Contract!Refused(t) \/ Contract!Use(t)
         \/ Contract!Close(t) \/ Contract!Busy(t)
  <1> USE ConstantsAssumption DEF IInv, TypeOK, CallShape, Sealed
  <1>1. /\ db[t] \in Dbs /\ on[t] = None /\ op[t] \in WriteOps
        /\ dbState[db[t]] # "none"
    BY DEF WriteStep, AcquireWrite, WriteClosed, CanWrite, CreateCf, DropCf, CloseNoop,
           CloseBusy, CloseTake, CloseDrop, References
  <1>2. op[t] # "close" => Kind(op[t]) = "meta"
    BY <1>1, KindOf DEF WriteOps
  <1>3. CASE AcquireWrite(t)
    BY <1>3 DEF AcquireWrite, CanWrite, Goto, kidVars, Contract!vars
  <1>4. CASE WriteClosed(t)
    <2>1. Contract!Rejected(t)
      <3>1. Contract!Effect(t, "closed")
        BY <1>4, AnswerIsEffect DEF WriteClosed, CanWrite, kidVars
      <3>2. dbState[db[t]] \in {"closing", "closed"} /\ op[t] # "close"
            /\ UNCHANGED <<dbState, native, lease, of>>
        BY <1>1, <1>4 DEF WriteClosed, dbVars, kidVars
      <3> HIDE DEF IInv, TypeOK, CallShape
      <3>3. QED
        BY <1>1, <1>2, <3>1, <3>2 DEF Contract!Rejected
    <2>2. QED
      BY <2>1
  <1>5. CASE CreateCf(t)
    <2>1. dbState[db[t]] = "open"
      BY <1>5 DEF CreateCf, Protected
    <2>2. Contract!Refused(t) \/ Contract!Use(t)
      <3>1. Contract!Effect(t, "ok") \/ Contract!Effect(t, "error")
        BY <1>5, AnswerIsEffect DEF CreateCf
      <3> HIDE DEF IInv, TypeOK, CallShape
      <3>2. QED
        BY <1>1, <1>2, <1>5, <2>1, <3>1 DEF CreateCf, Contract!Refused, Contract!Use
    <2>3. QED
      BY <2>2
  <1>6. CASE DropCf(t)
    <2>1. dbState[db[t]] = "open"
      BY <1>6 DEF DropCf, Protected
    <2>2. Contract!Refused(t) \/ Contract!Use(t)
      <3>1. Contract!Effect(t, "ok") \/ Contract!Effect(t, "error")
        BY <1>6, AnswerIsEffect DEF DropCf
      <3> HIDE DEF IInv, TypeOK, CallShape
      <3>2. QED
        BY <1>1, <1>2, <1>6, <2>1, <3>1 DEF DropCf, Contract!Refused, Contract!Use
    <2>3. QED
      BY <2>2
  <1>7. CASE CloseNoop(t)
    <2>1. \A c \in Children : (native[c] \/ lease[c]) => of[c] # db[t]
      BY <1>7, HandlesAnchored DEF CloseNoop, NoDanglingHandle, Protected
    <2>2. ~Contract!HasKids(db[t])
      BY <1>1, <2>1 DEF Contract!HasKids
    <2>3. Contract!Close(t)
      <3>1. Contract!Effect(t, "ok")
        BY <1>7, AnswerIsEffect DEF CloseNoop, CloseReply
      <3>2. dbState \in [Dbs -> {"none", "open", "closing", "closed"}]
        OBVIOUS
      <3> HIDE DEF IInv, TypeOK, CallShape
      <3>3. QED
        BY <1>1, <1>7, <2>2, <3>1, <3>2, KindOf DEF CloseNoop, CloseReply, Contract!Close
    <2>4. QED
      BY <2>3
  <1>8. CASE CloseBusy(t)
    <2>1. PICK c \in Children : lease[c] /\ of[c] = db[t]
      <3>1. LeaseHolders(db[t]) # {}
        BY <1>1, <1>8, LeaseHoldersCounted DEF CloseBusy, Leased
      <3>2. QED
        BY <3>1 DEF LeaseHolders
    <2>2. Contract!HasKids(db[t])
      BY <2>1 DEF Contract!HasKids
    <2>3. Contract!Busy(t)
      <3>1. Contract!Effect(t, "resource_busy")
        BY <1>8, AnswerIsEffect DEF CloseBusy, CloseReply
      <3> HIDE DEF IInv, TypeOK, CallShape
      <3>2. QED
        BY <1>1, <1>8, <2>2, <3>1, KindOf DEF CloseBusy, CloseReply, Contract!Busy
    <2>4. QED
      BY <2>3
  <1>9. CASE CloseTake(t)
    <2>1. LeaseHolders(db[t]) = {}
      BY <1>1, <1>9, LeaseHoldersCounted DEF CloseTake, Leased
    <2>2. readers[db[t]] = {}
      <3>1. writer[db[t]] = t /\ t # None
        BY <1>1, <1>9 DEF CloseTake, Guards, HoldsWrite
      <3>2. QED
        BY <1>1, <3>1 DEF Guards
    <2>3. \A u \in Threads : pc[u] = "made" => db[u] # db[t]
      BY <1>1, <2>2 DEF Guards, HoldsRead
    <2>4. ~Contract!HasKids(db[t])
      BY <1>1, <2>1, <2>3, NoKidsUnderWriter
    <2>5. Contract!Close(t)
      <3>1. Contract!Effect(t, "ok")
        BY <1>9, SealIsEffect DEF CloseTake, kidVars
      <3>2. dbState \in [Dbs -> {"none", "open", "closing", "closed"}]
        OBVIOUS
      <3> HIDE DEF IInv, TypeOK, CallShape
      <3>3. QED
        BY <1>1, <1>9, <2>4, <3>1, <3>2, KindOf DEF CloseTake, kidVars, Contract!Close
    <2>6. QED
      BY <2>5
  <1>10. CASE CloseDrop(t)
    <2>1. dbState[db[t]] = "closing"
      BY <1>10 DEF CloseDrop, Closing
    <2>2. QED
      BY <1>1, <1>10, <2>1 DEF CloseDrop, Answer, DropGuards, Contract!vars
  <1>11. QED
    BY <1>3, <1>4, <1>5, <1>6, <1>7, <1>8, <1>9, <1>10 DEF WriteStep

(* Opening, for writing or reading only *)
LEMMA OpenStepRefined ==
  ASSUME IInv, NEW d \in Dbs, OpenStep(d)
  PROVE  Contract!Open(d)
  <1>1. /\ dbState[d] = "none" /\ dbState' = [dbState EXCEPT ![d] = "open"]
        /\ dbState \in [Dbs -> {"none", "open", "closing", "closed"}]
        /\ UNCHANGED <<kidVars, callVars>>
    BY DEF OpenStep, Open, OpenReadOnly, NewDb, IInv, TypeOK
  <1>2. QED
    BY <1>1 DEF kidVars, callVars, Sealed, Contract!Open

(* The destructor of a DbResource finds no child and no call about one. *)
LEMMA FreeDbRefined ==
  ASSUME IInv, NEW d \in Dbs, FreeDb(d)
  PROVE  Contract!Free(d)
  <1> USE ConstantsAssumption DEF IInv, TypeOK
  <1>1. /\ \A c \in Children : owner[c] # d /\ ~(lease[c] /\ of[c] = d)
        /\ \A t \in Threads : db[t] # d
    BY DEF FreeDb, DbReferenced
  <1>2. ~Contract!HasKids(d)
    BY <1>1, NoKidsUnderWriter DEF LeaseHolders
  <1>3. \A t \in Threads : on[t] # None => of[on[t]] # d
    BY <1>1 DEF References, ChildShape
  <1>4. QED
    BY <1>1, <1>2, <1>3 DEF FreeDb, kidVars, callVars, Sealed, Contract!Free

(* A child is gone with the last of its native handle and its lease. *)
LEMMA DestructRefined ==
  ASSUME IInv, NEW c \in Children, Destruct(c)
  PROVE  UNCHANGED Contract!vars \/ Contract!Drop(c)
  <1> USE ConstantsAssumption DEF IInv, TypeOK, Sealed, callVars, dbVars
  <1>1. CASE BeginDrop(c)
    BY <1>1 DEF BeginDrop, Contract!vars
  <1>2. ASSUME phase[c] = "dropping" PROVE \A t \in Threads : on[t] # c
    BY <1>2 DEF References
  <1>3. CASE DropNative(c)
    <2>1. of[c] \in Dbs /\ of[c] # None
      BY <1>3 DEF DropNative, ChildShape
    <2>2. CASE lease[c]
      BY <1>3, <2>2 DEF DropNative, Contract!vars
    <2>3. CASE ~lease[c]
      <3>1. Contract!Drop(c)
        <4>1. native \in [Children -> BOOLEAN] /\ native[c]
          BY <1>3 DEF DropNative
        <4>2. \A t \in Threads : on[t] # c
          BY <1>2, <1>3 DEF DropNative
        <4> HIDE DEF IInv, TypeOK
        <4>3. QED
          BY <1>3, <2>1, <2>3, <4>1, <4>2 DEF DropNative, Contract!Drop
      <3>2. QED
        BY <3>1
    <2>4. QED
      BY <2>2, <2>3
  <1>4. CASE DropOwner(c)
    BY <1>4 DEF DropOwner, Contract!vars
  <1>5. CASE DropSnapOwner(c)
    BY <1>5 DEF DropSnapOwner, Contract!vars
  <1>6. CASE DropLease(c)
    <2>1. of[c] \in Dbs /\ of[c] # None
      BY <1>6 DEF DropLease, ChildShape
    <2>2. CASE lease[c]
      <3>1. Contract!Drop(c)
        <4>1. lease \in [Children -> BOOLEAN] /\ ~native[c]
          BY <1>6 DEF DropLease
        <4>2. \A t \in Threads : on[t] # c
          BY <1>2, <1>6 DEF DropLease
        <4>3. of \in [Children -> Dbs \cup {None}] /\ on \in [Threads -> Children \cup {None}]
          OBVIOUS
        <4> HIDE DEF IInv, TypeOK
        <4>4. QED
          BY <1>6, <2>1, <2>2, <4>1, <4>2, <4>3 DEF DropLease, Contract!Drop
      <3>2. QED
        BY <3>1
    <2>3. CASE ~lease[c]
      BY <1>2, <1>6, <2>3 DEF DropLease, Contract!vars
    <2>4. QED
      BY <2>2, <2>3
  <1>7. QED
    BY <1>1, <1>3, <1>4, <1>5, <1>6 DEF Destruct

(* Every step is one of the contract, or none. *)
LEMMA StepRefined == IInv /\ [Next]_vars => [Contract!Next]_Contract!vars
  <1> SUFFICES ASSUME IInv, [Next]_vars PROVE [Contract!Next]_Contract!vars
    OBVIOUS
  <1> USE DEF Contract!Next
  <1>1. ASSUME NEW t \in Threads, Call(t) PROVE Contract!Next
    <2>1. ASSUME NEW d \in Dbs, NEW o \in DataOps, CallData(t, d, o) PROVE Contract!Next
      BY <2>1, CallDataRefined
    <2>2. ASSUME NEW d \in Dbs, NEW o \in SpawnOps, NEW c \in Children, CallSpawn(t, d, o, c)
          PROVE  Contract!Next
      BY <2>2, CallSpawnRefined
    <2>3. ASSUME NEW d \in Dbs, NEW o \in WriteOps, CallWrite(t, d, o) PROVE Contract!Next
      BY <2>3, CallWriteRefined
    <2>4. ASSUME NEW s \in Snaps, NEW o \in SnapOps, NEW n \in Iters \cup {None},
                 CallSnap(t, s, o, n)
          PROVE  Contract!Next
      BY <2>4, CallSnapRefined DEF Children
    <2>5. ASSUME NEW i \in Iters, CallNext(t, i) PROVE Contract!Next
      BY <2>5, CallNextRefined DEF Children
    <2>6. QED
      BY <1>1, <2>1, <2>2, <2>3, <2>4, <2>5 DEF Call
  <1>2. ASSUME NEW t \in Threads, ReadStep(t) \/ ChildStep(t) \/ WriteStep(t) \/ Return(t)
        PROVE  [Contract!Next]_Contract!vars
    BY <1>2, ReadStepRefined, ChildStepRefined, WriteStepRefined, ReturnRefined
  <1>3. ASSUME NEW d \in Dbs, OpenStep(d) \/ FreeDb(d) PROVE Contract!Next
    BY <1>3, OpenStepRefined, FreeDbRefined
  <1>4. ASSUME NEW d \in Dbs, ReleaseDbTerm(d) PROVE UNCHANGED Contract!vars
    BY <1>4 DEF ReleaseDbTerm, kidVars, callVars, Sealed, Contract!vars
  <1>5. ASSUME NEW c \in Children, Destruct(c) PROVE [Contract!Next]_Contract!vars
    BY <1>5, DestructRefined
  <1>6. ASSUME NEW c \in Children, ReleaseChildTerm(c) PROVE UNCHANGED Contract!vars
    BY <1>6 DEF ReleaseChildTerm, dbVars, callVars, Sealed, Contract!vars
  <1>7. CASE UNCHANGED vars
    BY <1>7 DEF vars, dbVars, kidVars, callVars, Sealed, Contract!vars
  <1>8. QED
    BY <1>1, <1>2, <1>3, <1>4, <1>5, <1>6, <1>7 DEF Next

LEMMA InitRefined == Init => Contract!Init
  BY KindOf DEF Init, Sealed, Contract!Init

(* Whatever interleaving of the steps inside the NIFs, each call takes
   effect at one instant between its invocation and its return, close
   succeeds only when no child exists, and a child keeps its DB open:
   what ADR002 and close_test.exs promise. *)
THEOREM CallsAreAtomic == Spec => ImplementsContract
  BY StepRefined, Invariance, InitRefined, PTL
  DEF Spec, ImplementsContract, Contract!Spec
=============================================================================
