----------------------- MODULE GraphPublicationProofs -----------------------
(***************************************************************************)
(* Theorems about GraphPublication, proved for any number of compile       *)
(* processes, readers, files and command lines, and for any function that  *)
(* takes a database to its envelope.                                       *)
(*                                                                         *)
(* IInv is inductive: TypeStep, VersionStep, LockStep, StageStep,          *)
(* CompleteStep, OwnStep and MetaStep preserve its conjuncts, one case per *)
(* action.  The theorems about reachable states follow from it, and those  *)
(* about steps from it and from lemmas that say which action may change a  *)
(* variable.                                                               *)
(***************************************************************************)
EXTENDS GraphPublication, TLAPS

USE DEF vars, sources, files, locks, locals, readers, Goto

(* Five variables are visible through the mapping; few steps change them.  *)
LEMMA VisibleSteps ==
  ASSUME [Next]_vars
  PROVE  \/ UNCHANGED <<src, db, meta, opening, mapped>>
         \/ \E f \in Files : Edit(f)
         \/ \E c \in Compilers : InvalidateMeta(c) \/ RenameDb(c) \/ RenameMeta(c)
         \/ \E r \in Readers : ReaderStep(r)
<1>1. ASSUME NEW c \in Compilers, Start(c) \/ Stamped(c) \/ \E f \in Listed : StampFile(c, f)
      PROVE UNCHANGED <<src, db, meta, opening, mapped>>
  BY <1>1 DEF Start, Stamped, StampFile
<1>2. ASSUME NEW c \in Compilers, CacheCheck(c) \/ Prepare(c) \/ Build(c)
      PROVE UNCHANGED <<src, db, meta, opening, mapped>>
  BY <1>2 DEF CacheCheck, ProbeMiss, ProbeLock, ReadHeader, CompareMeta, ReturnHit,
              Prepare, OpenSidecar, AcquireExclusive, RecoverStaging, StartGuardian,
              CreateStageDb, CreateStageMeta, Build, ReadSource, Elaborated, WriteStageDb
<1>3. ASSUME NEW c \in Compilers, DescribeStage(c) \/ Finish(c)
      PROVE UNCHANGED <<src, db, meta, opening, mapped>>
  BY <1>3 DEF DescribeStage, Finish, Disarm, Hangup, Reap, SweepStageDb, SweepStageMeta, Release
<1>4. ASSUME NEW c \in Compilers, GuardianStep(c) \/ Fault(c)
      PROVE UNCHANGED <<src, db, meta, opening, mapped>>
  BY <1>4 DEF GuardianStep, GuardianDisarmed, GuardianSweepsDb, GuardianSweepsMeta, Fault,
              AcquireFails, RecoverFails, Fail, KillCompiler, KillGuardian
<1>5. QED
  BY <1>1, <1>2, <1>3, <1>4 DEF Next, CompilerStep, Publish

(* Only the first rename in Publish changes which database the name leads to. *)
LEMMA DbSteps ==
  ASSUME [Next]_vars, db' # db
  PROVE  \E c \in Compilers : RenameDb(c)
<1>1. ASSUME NEW f \in Files, Edit(f) PROVE FALSE
  BY <1>1 DEF Edit
<1>2. ASSUME NEW c \in Compilers, InvalidateMeta(c) \/ RenameMeta(c) PROVE FALSE
  BY <1>2 DEF InvalidateMeta, RenameMeta
<1>3. ASSUME NEW r \in Readers, ReaderStep(r) PROVE FALSE
  BY <1>3 DEF ReaderStep, ReaderOpen, ReaderLoad, ReaderClose
<1>4. QED
  BY <1>1, <1>2, <1>3, VisibleSteps

(* Storage changes only where a stage is created or filled. *)
LEMMA DataSteps ==
  ASSUME [Next]_vars, data' # data
  PROVE  \E c \in Compilers : CreateStageDb(c) \/ WriteStageDb(c)
BY DEF vars, Next, CompilerStep, CacheCheck, Prepare, Build, Publish, Finish,
       GuardianStep, Fault, ReaderStep, Edit, Start, StampFile, Stamped,
       ProbeMiss, ProbeLock, ReadHeader, CompareMeta, ReturnHit,
       OpenSidecar, AcquireExclusive, AcquireFails, RecoverStaging,
       StartGuardian, CreateStageDb, CreateStageMeta, ReadSource,
       Elaborated, WriteStageDb, DescribeStage, InvalidateMeta, RenameDb,
       RenameMeta, Disarm, Hangup, Reap, SweepStageDb, SweepStageMeta,
       Release, RecoverFails, Fail, GuardianDisarmed, GuardianSweepsDb,
       GuardianSweepsMeta, KillCompiler, KillGuardian, ReaderOpen,
       ReaderLoad, ReaderClose, Exits, Holding, Building

(* What a compile builds is a complete database. *)
LEMMA BuiltIsContents ==
  ASSUME TypeInv, NEW c \in Compilers, pc[c] # "idle"
  PROVE  /\ [args |-> job[c].args, read |-> seen[c]] \in Contents
         /\ [args |-> job[c].args, read |-> seen[c]] # Partial
<1>1. job[c].args \in Args /\ seen[c] \in [Files -> Versions]
  BY DEF TypeInv, TypeOK
<1>2. QED
  BY <1>1, TokensAssumption DEF Contents

(* The metadata that is about to be renamed has the current format.        *)
LEMMA DescribedIsCertificate ==
  ASSUME TypeInv, StageIsOwn, NEW c \in Compilers, pc[c] = "renameMeta"
  PROVE  stageMeta \in Certificates
<1> DEFINE built == [args |-> job[c].args, read |-> seen[c]]
<1>1. Envelope(built) \in Envelopes
  BY BuiltIsContents DEF Envelopes
<1>2. stageMeta = [args |-> job[c].args, stamp |-> stamp[c], env |-> Envelope(built)]
  BY DEF StageIsOwn, Certificate, Fingerprint
<1>3. job[c].args \in Args /\ stamp[c] \in [Listed -> Versions]
  BY DEF TypeInv, TypeOK
<1> HIDE DEF built
<1>4. QED
  BY <1>1, <1>2, <1>3 DEF Certificates

(* Every step keeps the types. *)
LEMMA TypeStep == TypeInv /\ StageIsOwn /\ [Next]_vars => TypeInv'
<1> SUFFICES ASSUME TypeInv /\ StageIsOwn, [Next]_vars PROVE TypeInv'
    OBVIOUS
<1> USE ConstantsAssumption, TokensAssumption
<1>1. ASSUME NEW f \in Files, Edit(f) PROVE TypeInv'
    BY <1>1 DEF Edit, TypeInv, TypeOK, Versions
<1>2. ASSUME NEW c \in Compilers, Start(c) PROVE TypeInv'
    BY <1>2 DEF Start, TypeInv, TypeOK, Steps, Guardians, Holding, Building
<1>3. ASSUME NEW c \in Compilers, NEW f \in Listed, StampFile(c, f) PROVE TypeInv'
    BY <1>3 DEF StampFile, TypeInv, TypeOK, Steps, Guardians, Holding, Building
<1>4. ASSUME NEW c \in Compilers, Stamped(c) PROVE TypeInv'
    BY <1>4 DEF Stamped, TypeInv, TypeOK, Steps, Guardians, Holding, Building
<1>5. ASSUME NEW c \in Compilers, ProbeMiss(c) PROVE TypeInv'
    BY <1>5 DEF ProbeMiss, TypeInv, TypeOK, Steps, Guardians, Holding, Building
<1>6. ASSUME NEW c \in Compilers, ProbeLock(c) PROVE TypeInv'
    BY <1>6 DEF ProbeLock, TypeInv, TypeOK, Steps, Guardians, Holding, Building
<1>7. ASSUME NEW c \in Compilers, ReadHeader(c) PROVE TypeInv'
  <2>1. CASE Complete(db)
    <3>1. Envelope(data[db]) \in Envelopes
      BY <2>1 DEF Complete, TypeInv, TypeOK, Envelopes
    <3>2. PICK e \in Envelopes : e = Envelope(data[db])
      BY <3>1
    <3>3. /\ pc' = [pc EXCEPT ![c] = "compare"]
          /\ header' = [header EXCEPT ![c] = e]
          /\ UNCHANGED <<sources, files, ex, shared, job, todo, stamp, seen, readers, guardian, lost, runs, kills>>
      BY <1>7, <2>1, <3>2 DEF ReadHeader
    <3>4. header' \in [Compilers -> Envelopes \cup {None}] /\ pc' \in [Compilers -> Steps]
      BY <3>2, <3>3 DEF TypeInv, TypeOK, Steps
    <3>5. \A d \in Compilers : pc'[d] = "compare" => header'[d] \in Envelopes
      BY <3>2, <3>3 DEF TypeInv, TypeOK
    <3>6. \A d \in Compilers : pc'[d] # "idle" => job'[d].args \in Args
      BY <1>7, <3>3 DEF TypeInv, TypeOK, ReadHeader
    <3>7. QED
      BY <3>3, <3>4, <3>5, <3>6 DEF TypeInv, TypeOK
  <2>2. CASE ~Complete(db)
    <3>1. /\ pc' = [pc EXCEPT ![c] = "open"] /\ shared' = shared \ {c}
          /\ UNCHANGED header
          /\ UNCHANGED <<sources, files, ex, job, todo, stamp, seen, readers, guardian, lost, runs, kills>>
      BY <1>7, <2>2 DEF ReadHeader
    <3>2. pc' \in [Compilers -> Steps] /\ shared' \subseteq Compilers
      BY <3>1 DEF TypeInv, TypeOK, Steps
    <3>3. TypeOK'
      BY <3>1, <3>2, SMTT(30) DEF TypeInv, TypeOK
    <3>4. \A d \in Compilers : pc'[d] = pc[d] \/ (pc[d] = "header" /\ pc'[d] = "open")
      <4>1. pc[c] = "header"
        BY <1>7 DEF ReadHeader
      <4>2. pc' = [pc EXCEPT ![c] = "open"]
        BY <3>1
      <4>3. DOMAIN pc = Compilers
        BY DEF TypeInv, TypeOK
      <4>4. ASSUME NEW d \in Compilers, d # c PROVE pc'[d] = pc[d]
        BY <4>2, <4>3, <4>4
      <4>5. pc'[c] = "open"
        BY <4>2, <4>3
      <4>6. QED
        BY <4>1, <4>4, <4>5
    <3>5. QED
      BY <3>1, <3>3, <3>4 DEF TypeInv, Holding, Building
  <2>3. QED
    BY <2>1, <2>2
<1>8. ASSUME NEW c \in Compilers, CompareMeta(c) PROVE TypeInv'
    BY <1>8 DEF CompareMeta, TypeInv, TypeOK, Steps, Guardians, Holding, Building
<1>9. ASSUME NEW c \in Compilers, ReturnHit(c) PROVE TypeInv'
    BY <1>9 DEF ReturnHit, TypeInv, TypeOK, Steps, Guardians, Holding, Building, Exits, Blank, Versions
<1>10. ASSUME NEW c \in Compilers, OpenSidecar(c) PROVE TypeInv'
    BY <1>10 DEF OpenSidecar, TypeInv, TypeOK, Steps, Guardians, Holding, Building
<1>11. ASSUME NEW c \in Compilers, AcquireExclusive(c) PROVE TypeInv'
    BY <1>11 DEF AcquireExclusive, TypeInv, TypeOK, Steps, Guardians, Holding, Building
<1>12. ASSUME NEW c \in Compilers, AcquireFails(c) PROVE TypeInv'
    BY <1>12 DEF AcquireFails, TypeInv, TypeOK, Steps, Guardians, Holding, Building, Exits, Blank, Versions
<1>13. ASSUME NEW c \in Compilers, RecoverStaging(c) PROVE TypeInv'
    BY <1>13 DEF RecoverStaging, TypeInv, TypeOK, Steps, Guardians, Holding, Building
<1>14. ASSUME NEW c \in Compilers, StartGuardian(c) PROVE TypeInv'
    BY <1>14, ZenonT(30) DEF StartGuardian, TypeInv, TypeOK, Steps, Guardians, Holding, Building
<1>15. ASSUME NEW c \in Compilers, CreateStageDb(c) PROVE TypeInv'
    BY <1>15 DEF CreateStageDb, TypeInv, TypeOK, Steps, Guardians, Holding, Building, Unreferenced
<1>16. ASSUME NEW c \in Compilers, CreateStageMeta(c) PROVE TypeInv'
    BY <1>16 DEF CreateStageMeta, TypeInv, TypeOK, Steps, Guardians, Holding, Building
<1>17. ASSUME NEW c \in Compilers, NEW f \in Files, ReadSource(c, f) PROVE TypeInv'
    BY <1>17 DEF ReadSource, TypeInv, TypeOK, Steps, Guardians, Holding, Building
<1>18. ASSUME NEW c \in Compilers, Elaborated(c) PROVE TypeInv'
    BY <1>18 DEF Elaborated, TypeInv, TypeOK, Steps, Guardians, Holding, Building
<1>19. ASSUME NEW c \in Compilers, WriteStageDb(c) PROVE TypeInv'
    BY <1>19 DEF WriteStageDb, TypeInv, TypeOK, Steps, Guardians, Holding, Building, Contents
<1>20. ASSUME NEW c \in Compilers, DescribeStage(c) PROVE TypeInv'
    BY <1>20 DEF DescribeStage, TypeInv, TypeOK, Steps, Guardians, Holding, Building, Complete, Certificate, Fingerprint, Certificates, Envelopes
<1>21. ASSUME NEW c \in Compilers, InvalidateMeta(c) PROVE TypeInv'
    BY <1>21 DEF InvalidateMeta, TypeInv, TypeOK, Steps, Guardians, Holding, Building
<1>22. ASSUME NEW c \in Compilers, RenameDb(c) PROVE TypeInv'
    BY <1>22 DEF RenameDb, TypeInv, TypeOK, Steps, Guardians, Holding, Building
<1>23. ASSUME NEW c \in Compilers, RenameMeta(c) PROVE TypeInv'
  <2>1. stageMeta \in Certificates
    BY <1>23, DescribedIsCertificate DEF RenameMeta
  <2>2. QED
    BY <1>23, <2>1 DEF RenameMeta, TypeInv, TypeOK, Steps, Holding, Building
<1>24. ASSUME NEW c \in Compilers, Disarm(c) PROVE TypeInv'
    BY <1>24 DEF Disarm, TypeInv, TypeOK, Steps, Guardians, Holding, Building
<1>25. ASSUME NEW c \in Compilers, Hangup(c) PROVE TypeInv'
    BY <1>25 DEF Hangup, TypeInv, TypeOK, Steps, Guardians, Holding, Building
<1>26. ASSUME NEW c \in Compilers, Reap(c) PROVE TypeInv'
  <2>1. CASE pc' = [pc EXCEPT ![c] = "release"]
    BY <1>26, <2>1 DEF Reap, TypeInv, TypeOK, Steps, Holding, Building
  <2>2. CASE pc' = [pc EXCEPT ![c] = "sweepDb"]
    BY <1>26, <2>2 DEF Reap, TypeInv, TypeOK, Steps, Holding, Building
  <2>3. QED
    BY <1>26, <2>1, <2>2 DEF Reap
<1>27. ASSUME NEW c \in Compilers, SweepStageDb(c) PROVE TypeInv'
    BY <1>27 DEF SweepStageDb, TypeInv, TypeOK, Steps, Guardians, Holding, Building
<1>28. ASSUME NEW c \in Compilers, SweepStageMeta(c) PROVE TypeInv'
    BY <1>28 DEF SweepStageMeta, TypeInv, TypeOK, Steps, Guardians, Holding, Building
<1>29. ASSUME NEW c \in Compilers, Release(c) PROVE TypeInv'
    BY <1>29 DEF Release, TypeInv, TypeOK, Steps, Guardians, Holding, Building, Exits, Blank, Versions, CompilerCloses
<1>30. ASSUME NEW c \in Compilers, Fail(c) PROVE TypeInv'
    BY <1>30 DEF Fail, TypeInv, TypeOK, Steps, Guardians, Holding, Building
<1>30a. ASSUME NEW c \in Compilers, RecoverFails(c) PROVE TypeInv'
    BY <1>30a DEF RecoverFails, TypeInv, TypeOK, Steps, Guardians, Holding, Building
<1>31. ASSUME NEW c \in Compilers, GuardianDisarmed(c) PROVE TypeInv'
    BY <1>31 DEF GuardianDisarmed, TypeInv, TypeOK, Steps, Guardians, Holding, Building, GuardianCloses
<1>32. ASSUME NEW c \in Compilers, GuardianSweepsDb(c) PROVE TypeInv'
    BY <1>32 DEF GuardianSweepsDb, TypeInv, TypeOK, Steps, Guardians, Holding, Building
<1>33. ASSUME NEW c \in Compilers, GuardianSweepsMeta(c) PROVE TypeInv'
    BY <1>33 DEF GuardianSweepsMeta, TypeInv, TypeOK, Steps, Guardians, Holding, Building, GuardianCloses
<1>34. ASSUME NEW c \in Compilers, KillCompiler(c) PROVE TypeInv'
    BY <1>34 DEF KillCompiler, TypeInv, TypeOK, Steps, Guardians, Holding, Building, Exits, Blank, Versions, CompilerCloses
<1>35. ASSUME NEW c \in Compilers, KillGuardian(c) PROVE TypeInv'
    BY <1>35 DEF KillGuardian, TypeInv, TypeOK, Steps, Guardians, Holding, Building, GuardianCloses
<1>36. ASSUME NEW r \in Readers, ReaderOpen(r) PROVE TypeInv'
    BY <1>36 DEF ReaderOpen, TypeInv, TypeOK, Steps, Guardians, Holding, Building
<1>37. ASSUME NEW r \in Readers, ReaderLoad(r) PROVE TypeInv'
    BY <1>37 DEF ReaderLoad, TypeInv, TypeOK, Steps, Guardians, Holding, Building
<1>38. ASSUME NEW r \in Readers, ReaderClose(r) PROVE TypeInv'
    BY <1>38 DEF ReaderClose, TypeInv, TypeOK, Steps, Guardians, Holding, Building
<1>39. CASE UNCHANGED vars
    BY <1>39 DEF TypeInv, TypeOK, Steps, Guardians, Holding, Building
<1>40. QED
    BY <1>1, <1>2, <1>3, <1>4, <1>5, <1>6, <1>7, <1>8, <1>9, <1>10, <1>11, <1>12,
       <1>13, <1>14, <1>15, <1>16, <1>17, <1>18, <1>19, <1>20, <1>21, <1>22, <1>23, <1>24,
       <1>25, <1>26, <1>27, <1>28, <1>29, <1>30, <1>30a, <1>31, <1>32, <1>33, <1>34, <1>35, <1>36,
       <1>37, <1>38, <1>39
    DEF Next, CompilerStep, CacheCheck, Prepare, Build, Publish, Finish, GuardianStep, Fault, ReaderStep

(* Versions only grow, so what was read stays in the past. *)
LEMMA VersionStep == TypeInv /\ VersionInv /\ [Next]_vars => VersionInv'
<1> SUFFICES ASSUME TypeInv /\ VersionInv, [Next]_vars PROVE VersionInv'
    OBVIOUS
<1> USE ConstantsAssumption, TokensAssumption
<1>1. ASSUME NEW f \in Files, Edit(f) PROVE VersionInv'
    BY <1>1 DEF Edit, VersionInv, TypeInv, TypeOK, Versions, Contents
<1>2. ASSUME NEW c \in Compilers, Start(c) PROVE VersionInv'
    BY <1>2 DEF Start, VersionInv, TypeInv, TypeOK
<1>3. ASSUME NEW c \in Compilers, NEW f \in Listed, StampFile(c, f) PROVE VersionInv'
    BY <1>3 DEF StampFile, VersionInv, TypeInv, TypeOK, Versions
<1>4. ASSUME NEW c \in Compilers, Stamped(c) PROVE VersionInv'
    BY <1>4 DEF Stamped, VersionInv, TypeInv, TypeOK
<1>5. ASSUME NEW c \in Compilers, ProbeMiss(c) PROVE VersionInv'
    BY <1>5 DEF ProbeMiss, VersionInv, TypeInv, TypeOK
<1>6. ASSUME NEW c \in Compilers, ProbeLock(c) PROVE VersionInv'
    BY <1>6 DEF ProbeLock, VersionInv, TypeInv, TypeOK
<1>7. ASSUME NEW c \in Compilers, ReadHeader(c) PROVE VersionInv'
    BY <1>7 DEF ReadHeader, VersionInv, TypeInv, TypeOK
<1>8. ASSUME NEW c \in Compilers, CompareMeta(c) PROVE VersionInv'
    BY <1>8 DEF CompareMeta, VersionInv, TypeInv, TypeOK
<1>9. ASSUME NEW c \in Compilers, ReturnHit(c) PROVE VersionInv'
    BY <1>9 DEF ReturnHit, VersionInv, TypeInv, TypeOK, Exits, Blank, Versions
<1>10. ASSUME NEW c \in Compilers, OpenSidecar(c) PROVE VersionInv'
    BY <1>10 DEF OpenSidecar, VersionInv, TypeInv, TypeOK
<1>11. ASSUME NEW c \in Compilers, AcquireExclusive(c) PROVE VersionInv'
    BY <1>11 DEF AcquireExclusive, VersionInv, TypeInv, TypeOK
<1>12. ASSUME NEW c \in Compilers, AcquireFails(c) PROVE VersionInv'
    BY <1>12 DEF AcquireFails, VersionInv, TypeInv, TypeOK, Exits, Blank, Versions
<1>13. ASSUME NEW c \in Compilers, RecoverStaging(c) PROVE VersionInv'
    BY <1>13 DEF RecoverStaging, VersionInv, TypeInv, TypeOK
<1>14. ASSUME NEW c \in Compilers, StartGuardian(c) PROVE VersionInv'
    BY <1>14 DEF StartGuardian, VersionInv, TypeInv, TypeOK
<1>15. ASSUME NEW c \in Compilers, CreateStageDb(c) PROVE VersionInv'
    BY <1>15 DEF CreateStageDb, VersionInv, TypeInv, TypeOK
<1>16. ASSUME NEW c \in Compilers, CreateStageMeta(c) PROVE VersionInv'
    BY <1>16 DEF CreateStageMeta, VersionInv, TypeInv, TypeOK
<1>17. ASSUME NEW c \in Compilers, NEW f \in Files, ReadSource(c, f) PROVE VersionInv'
    BY <1>17 DEF ReadSource, VersionInv, TypeInv, TypeOK, Versions
<1>18. ASSUME NEW c \in Compilers, Elaborated(c) PROVE VersionInv'
    BY <1>18 DEF Elaborated, VersionInv, TypeInv, TypeOK
<1>19. ASSUME NEW c \in Compilers, WriteStageDb(c) PROVE VersionInv'
    BY <1>19 DEF WriteStageDb, VersionInv, TypeInv, TypeOK, Versions, Contents
<1>20. ASSUME NEW c \in Compilers, DescribeStage(c) PROVE VersionInv'
    BY <1>20 DEF DescribeStage, VersionInv, TypeInv, TypeOK
<1>21. ASSUME NEW c \in Compilers, InvalidateMeta(c) PROVE VersionInv'
    BY <1>21 DEF InvalidateMeta, VersionInv, TypeInv, TypeOK
<1>22. ASSUME NEW c \in Compilers, RenameDb(c) PROVE VersionInv'
    BY <1>22 DEF RenameDb, VersionInv, TypeInv, TypeOK
<1>23. ASSUME NEW c \in Compilers, RenameMeta(c) PROVE VersionInv'
    BY <1>23 DEF RenameMeta, VersionInv, TypeInv, TypeOK
<1>24. ASSUME NEW c \in Compilers, Disarm(c) PROVE VersionInv'
    BY <1>24 DEF Disarm, VersionInv, TypeInv, TypeOK
<1>25. ASSUME NEW c \in Compilers, Hangup(c) PROVE VersionInv'
    BY <1>25 DEF Hangup, VersionInv, TypeInv, TypeOK
<1>26. ASSUME NEW c \in Compilers, Reap(c) PROVE VersionInv'
    BY <1>26 DEF Reap, VersionInv, TypeInv, TypeOK
<1>27. ASSUME NEW c \in Compilers, SweepStageDb(c) PROVE VersionInv'
    BY <1>27 DEF SweepStageDb, VersionInv, TypeInv, TypeOK
<1>28. ASSUME NEW c \in Compilers, SweepStageMeta(c) PROVE VersionInv'
    BY <1>28 DEF SweepStageMeta, VersionInv, TypeInv, TypeOK
<1>29. ASSUME NEW c \in Compilers, Release(c) PROVE VersionInv'
    BY <1>29 DEF Release, VersionInv, TypeInv, TypeOK, Exits, Blank, Versions
<1>30. ASSUME NEW c \in Compilers, Fail(c) PROVE VersionInv'
    BY <1>30 DEF Fail, VersionInv, TypeInv, TypeOK
<1>30a. ASSUME NEW c \in Compilers, RecoverFails(c) PROVE VersionInv'
    BY <1>30a DEF RecoverFails, VersionInv, TypeInv, TypeOK
<1>31. ASSUME NEW c \in Compilers, GuardianDisarmed(c) PROVE VersionInv'
    BY <1>31 DEF GuardianDisarmed, VersionInv, TypeInv, TypeOK
<1>32. ASSUME NEW c \in Compilers, GuardianSweepsDb(c) PROVE VersionInv'
    BY <1>32 DEF GuardianSweepsDb, VersionInv, TypeInv, TypeOK
<1>33. ASSUME NEW c \in Compilers, GuardianSweepsMeta(c) PROVE VersionInv'
    BY <1>33 DEF GuardianSweepsMeta, VersionInv, TypeInv, TypeOK
<1>34. ASSUME NEW c \in Compilers, KillCompiler(c) PROVE VersionInv'
    BY <1>34 DEF KillCompiler, VersionInv, TypeInv, TypeOK, Exits, Blank, Versions
<1>35. ASSUME NEW c \in Compilers, KillGuardian(c) PROVE VersionInv'
    BY <1>35 DEF KillGuardian, VersionInv, TypeInv, TypeOK
<1>36. ASSUME NEW r \in Readers, ReaderOpen(r) PROVE VersionInv'
    BY <1>36 DEF ReaderOpen, VersionInv, TypeInv, TypeOK
<1>37. ASSUME NEW r \in Readers, ReaderLoad(r) PROVE VersionInv'
    BY <1>37 DEF ReaderLoad, VersionInv, TypeInv, TypeOK
<1>38. ASSUME NEW r \in Readers, ReaderClose(r) PROVE VersionInv'
    BY <1>38 DEF ReaderClose, VersionInv, TypeInv, TypeOK
<1>39. CASE UNCHANGED vars
    BY <1>39 DEF VersionInv, TypeInv, TypeOK
<1>40. QED
    BY <1>1, <1>2, <1>3, <1>4, <1>5, <1>6, <1>7, <1>8, <1>9, <1>10, <1>11, <1>12,
       <1>13, <1>14, <1>15, <1>16, <1>17, <1>18, <1>19, <1>20, <1>21, <1>22, <1>23, <1>24,
       <1>25, <1>26, <1>27, <1>28, <1>29, <1>30, <1>30a, <1>31, <1>32, <1>33, <1>34, <1>35, <1>36,
       <1>37, <1>38, <1>39
    DEF Next, CompilerStep, CacheCheck, Prepare, Build, Publish, Finish, GuardianStep, Fault, ReaderStep

(* The lock has one owner, with its guardian. *)
LEMMA LockStep == TypeInv /\ LockInv /\ [Next]_vars => LockInv'
<1> SUFFICES ASSUME TypeInv /\ LockInv, [Next]_vars PROVE LockInv'
    OBVIOUS
<1> USE ConstantsAssumption
<1>1. ASSUME NEW f \in Files, Edit(f) PROVE LockInv'
    BY <1>1 DEF Edit, LockInv, TypeInv, TypeOK, Holding, Building
<1>2. ASSUME NEW c \in Compilers, Start(c) PROVE LockInv'
    BY <1>2 DEF Start, LockInv, TypeInv, TypeOK, Holding, Building
<1>3. ASSUME NEW c \in Compilers, NEW f \in Listed, StampFile(c, f) PROVE LockInv'
    BY <1>3 DEF StampFile, LockInv, TypeInv, TypeOK, Holding, Building
<1>4. ASSUME NEW c \in Compilers, Stamped(c) PROVE LockInv'
    BY <1>4 DEF Stamped, LockInv, TypeInv, TypeOK, Holding, Building
<1>5. ASSUME NEW c \in Compilers, ProbeMiss(c) PROVE LockInv'
    BY <1>5 DEF ProbeMiss, LockInv, TypeInv, TypeOK, Holding, Building
<1>6. ASSUME NEW c \in Compilers, ProbeLock(c) PROVE LockInv'
    BY <1>6 DEF ProbeLock, LockInv, TypeInv, TypeOK, Holding, Building
<1>7. ASSUME NEW c \in Compilers, ReadHeader(c) PROVE LockInv'
  <2>1. CASE Complete(db)
    BY <1>7, <2>1 DEF ReadHeader, LockInv, TypeInv, TypeOK, Holding, Building
  <2>2. CASE ~Complete(db)
    <3>1. pc[c] = "header" /\ pc' = [pc EXCEPT ![c] = "open"] /\ shared' = shared \ {c}
      BY <1>7, <2>2 DEF ReadHeader
    <3>2. UNCHANGED <<ex, guardian>>
      BY <1>7 DEF ReadHeader
    <3>3. QED
      BY <3>1, <3>2 DEF LockInv, TypeInv, TypeOK, Holding, Building
  <2>3. QED
    BY <2>1, <2>2
<1>8. ASSUME NEW c \in Compilers, CompareMeta(c) PROVE LockInv'
    BY <1>8 DEF CompareMeta, LockInv, TypeInv, TypeOK, Holding, Building
<1>9. ASSUME NEW c \in Compilers, ReturnHit(c) PROVE LockInv'
    BY <1>9 DEF ReturnHit, LockInv, TypeInv, TypeOK, Holding, Building, Exits
<1>10. ASSUME NEW c \in Compilers, OpenSidecar(c) PROVE LockInv'
    BY <1>10 DEF OpenSidecar, LockInv, TypeInv, TypeOK, Holding, Building
<1>11. ASSUME NEW c \in Compilers, AcquireExclusive(c) PROVE LockInv'
    BY <1>11 DEF AcquireExclusive, LockInv, TypeInv, TypeOK, Holding, Building
<1>12. ASSUME NEW c \in Compilers, AcquireFails(c) PROVE LockInv'
    BY <1>12 DEF AcquireFails, LockInv, TypeInv, TypeOK, Holding, Building, Exits
<1>13. ASSUME NEW c \in Compilers, RecoverStaging(c) PROVE LockInv'
    BY <1>13 DEF RecoverStaging, LockInv, TypeInv, TypeOK, Holding, Building
<1>14. ASSUME NEW c \in Compilers, StartGuardian(c) PROVE LockInv'
    BY <1>14 DEF StartGuardian, LockInv, TypeInv, TypeOK, Holding, Building
<1>15. ASSUME NEW c \in Compilers, CreateStageDb(c) PROVE LockInv'
    BY <1>15 DEF CreateStageDb, LockInv, TypeInv, TypeOK, Holding, Building
<1>16. ASSUME NEW c \in Compilers, CreateStageMeta(c) PROVE LockInv'
    BY <1>16 DEF CreateStageMeta, LockInv, TypeInv, TypeOK, Holding, Building
<1>17. ASSUME NEW c \in Compilers, NEW f \in Files, ReadSource(c, f) PROVE LockInv'
    BY <1>17 DEF ReadSource, LockInv, TypeInv, TypeOK, Holding, Building
<1>18. ASSUME NEW c \in Compilers, Elaborated(c) PROVE LockInv'
    BY <1>18 DEF Elaborated, LockInv, TypeInv, TypeOK, Holding, Building
<1>19. ASSUME NEW c \in Compilers, WriteStageDb(c) PROVE LockInv'
    BY <1>19 DEF WriteStageDb, LockInv, TypeInv, TypeOK, Holding, Building
<1>20. ASSUME NEW c \in Compilers, DescribeStage(c) PROVE LockInv'
    BY <1>20 DEF DescribeStage, LockInv, TypeInv, TypeOK, Holding, Building
<1>21. ASSUME NEW c \in Compilers, InvalidateMeta(c) PROVE LockInv'
    BY <1>21 DEF InvalidateMeta, LockInv, TypeInv, TypeOK, Holding, Building
<1>22. ASSUME NEW c \in Compilers, RenameDb(c) PROVE LockInv'
    BY <1>22 DEF RenameDb, LockInv, TypeInv, TypeOK, Holding, Building
<1>23. ASSUME NEW c \in Compilers, RenameMeta(c) PROVE LockInv'
    BY <1>23 DEF RenameMeta, LockInv, TypeInv, TypeOK, Holding, Building
<1>24. ASSUME NEW c \in Compilers, Disarm(c) PROVE LockInv'
    BY <1>24 DEF Disarm, LockInv, TypeInv, TypeOK, Holding, Building
<1>25. ASSUME NEW c \in Compilers, Hangup(c) PROVE LockInv'
    BY <1>25 DEF Hangup, LockInv, TypeInv, TypeOK, Holding, Building
<1>26. ASSUME NEW c \in Compilers, Reap(c) PROVE LockInv'
    BY <1>26 DEF Reap, LockInv, TypeInv, TypeOK, Holding, Building
<1>27. ASSUME NEW c \in Compilers, SweepStageDb(c) PROVE LockInv'
    BY <1>27 DEF SweepStageDb, LockInv, TypeInv, TypeOK, Holding, Building
<1>28. ASSUME NEW c \in Compilers, SweepStageMeta(c) PROVE LockInv'
    BY <1>28 DEF SweepStageMeta, LockInv, TypeInv, TypeOK, Holding, Building
<1>29. ASSUME NEW c \in Compilers, Release(c) PROVE LockInv'
    BY <1>29 DEF Release, LockInv, TypeInv, TypeOK, Holding, Building, Exits, CompilerCloses
<1>30. ASSUME NEW c \in Compilers, Fail(c) PROVE LockInv'
    BY <1>30 DEF Fail, LockInv, TypeInv, TypeOK, Holding, Building
<1>30a. ASSUME NEW c \in Compilers, RecoverFails(c) PROVE LockInv'
    BY <1>30a DEF RecoverFails, LockInv, TypeInv, TypeOK, Holding, Building
<1>31. ASSUME NEW c \in Compilers, GuardianDisarmed(c) PROVE LockInv'
    BY <1>31 DEF GuardianDisarmed, LockInv, TypeInv, TypeOK, Holding, Building, GuardianCloses
<1>32. ASSUME NEW c \in Compilers, GuardianSweepsDb(c) PROVE LockInv'
    BY <1>32 DEF GuardianSweepsDb, LockInv, TypeInv, TypeOK, Holding, Building
<1>33. ASSUME NEW c \in Compilers, GuardianSweepsMeta(c) PROVE LockInv'
    BY <1>33 DEF GuardianSweepsMeta, LockInv, TypeInv, TypeOK, Holding, Building, GuardianCloses
<1>34. ASSUME NEW c \in Compilers, KillCompiler(c) PROVE LockInv'
    BY <1>34 DEF KillCompiler, LockInv, TypeInv, TypeOK, Holding, Building, Exits, CompilerCloses
<1>35. ASSUME NEW c \in Compilers, KillGuardian(c) PROVE LockInv'
    BY <1>35 DEF KillGuardian, LockInv, TypeInv, TypeOK, Holding, Building, GuardianCloses
<1>36. ASSUME NEW r \in Readers, ReaderOpen(r) PROVE LockInv'
    BY <1>36 DEF ReaderOpen, LockInv, TypeInv, TypeOK, Holding, Building
<1>37. ASSUME NEW r \in Readers, ReaderLoad(r) PROVE LockInv'
    BY <1>37 DEF ReaderLoad, LockInv, TypeInv, TypeOK, Holding, Building
<1>38. ASSUME NEW r \in Readers, ReaderClose(r) PROVE LockInv'
    BY <1>38 DEF ReaderClose, LockInv, TypeInv, TypeOK, Holding, Building
<1>39. CASE UNCHANGED vars
    BY <1>39 DEF LockInv, TypeInv, TypeOK, Holding, Building
<1>40. QED
    BY <1>1, <1>2, <1>3, <1>4, <1>5, <1>6, <1>7, <1>8, <1>9, <1>10, <1>11, <1>12,
       <1>13, <1>14, <1>15, <1>16, <1>17, <1>18, <1>19, <1>20, <1>21, <1>22, <1>23, <1>24,
       <1>25, <1>26, <1>27, <1>28, <1>29, <1>30, <1>30a, <1>31, <1>32, <1>33, <1>34, <1>35, <1>36,
       <1>37, <1>38, <1>39
    DEF Next, CompilerStep, CacheCheck, Prepare, Build, Publish, Finish, GuardianStep, Fault, ReaderStep

(* The staging files stay with their owner. *)
LEMMA StageStep == IInv /\ [Next]_vars => StageInv'
<1> SUFFICES ASSUME IInv, [Next]_vars PROVE StageInv'
    OBVIOUS
<1> USE ConstantsAssumption, TokensAssumption DEF IInv
<1>1. ASSUME NEW f \in Files, Edit(f) PROVE StageInv'
    BY <1>1 DEF Edit, StageInv, LockInv, TypeInv, TypeOK, Holding, Building, Versions
<1>2. ASSUME NEW c \in Compilers, Start(c) PROVE StageInv'
    BY <1>2 DEF Start, StageInv, LockInv, TypeInv, TypeOK, Holding, Building
<1>3. ASSUME NEW c \in Compilers, NEW f \in Listed, StampFile(c, f) PROVE StageInv'
    BY <1>3 DEF StampFile, StageInv, LockInv, TypeInv, TypeOK, Holding, Building
<1>4. ASSUME NEW c \in Compilers, Stamped(c) PROVE StageInv'
    BY <1>4 DEF Stamped, StageInv, LockInv, TypeInv, TypeOK, Holding, Building
<1>5. ASSUME NEW c \in Compilers, ProbeMiss(c) PROVE StageInv'
    BY <1>5 DEF ProbeMiss, StageInv, LockInv, TypeInv, TypeOK, Holding, Building
<1>6. ASSUME NEW c \in Compilers, ProbeLock(c) PROVE StageInv'
    BY <1>6 DEF ProbeLock, StageInv, LockInv, TypeInv, TypeOK, Holding, Building
<1>7. ASSUME NEW c \in Compilers, ReadHeader(c) PROVE StageInv'
    BY <1>7 DEF ReadHeader, StageInv, LockInv, TypeInv, TypeOK, Holding, Building
<1>8. ASSUME NEW c \in Compilers, CompareMeta(c) PROVE StageInv'
    BY <1>8 DEF CompareMeta, StageInv, LockInv, TypeInv, TypeOK, Holding, Building
<1>9. ASSUME NEW c \in Compilers, ReturnHit(c) PROVE StageInv'
    BY <1>9 DEF ReturnHit, StageInv, LockInv, TypeInv, TypeOK, Holding, Building, Exits
<1>10. ASSUME NEW c \in Compilers, OpenSidecar(c) PROVE StageInv'
    BY <1>10 DEF OpenSidecar, StageInv, LockInv, TypeInv, TypeOK, Holding, Building
<1>11. ASSUME NEW c \in Compilers, AcquireExclusive(c) PROVE StageInv'
    BY <1>11 DEF AcquireExclusive, StageInv, LockInv, TypeInv, TypeOK, Holding, Building
<1>12. ASSUME NEW c \in Compilers, AcquireFails(c) PROVE StageInv'
    BY <1>12 DEF AcquireFails, StageInv, LockInv, TypeInv, TypeOK, Holding, Building, Exits
<1>13. ASSUME NEW c \in Compilers, RecoverStaging(c) PROVE StageInv'
    BY <1>13 DEF RecoverStaging, StageInv, LockInv, TypeInv, TypeOK, Holding, Building
<1>14. ASSUME NEW c \in Compilers, StartGuardian(c) PROVE StageInv'
    BY <1>14 DEF StartGuardian, StageInv, LockInv, TypeInv, TypeOK, Holding, Building
<1>15. ASSUME NEW c \in Compilers, CreateStageDb(c) PROVE StageInv'
  <2>1. PICK i \in Unreferenced : stageDb' = i /\ data' = [data EXCEPT ![i] = Partial]
    BY <1>15 DEF CreateStageDb
  <2>2. i # None /\ i # db /\ \A r \in Readers : opening[r] # i /\ mapped[r] # i
    BY <2>1 DEF Unreferenced
  <2>3. UNCHANGED <<db, meta, stageMeta, todo, stamp, seen, guardian, lost, opening, mapped>>
    BY <1>15 DEF CreateStageDb
  <2>4. pc[c] = "createDb" /\ pc' = [pc EXCEPT ![c] = "createMeta"]
    BY <1>15 DEF CreateStageDb
  <2>5. ex = c /\ guardian[c] \in {"none", "watch"} /\ (guardian[c] = "watch" \/ lost)
    BY <2>4 DEF LockInv, StageInv, Holding, Building
  <2>6. \A d \in Compilers : d # c => guardian[d] = "none" /\ pc[d] \notin Holding
    BY <2>5 DEF LockInv
  <2>7. db # None => data'[db] = data[db]
    BY <2>1, <2>2 DEF TypeInv, TypeOK
  <2>8. QED
    BY <2>1, <2>2, <2>3, <2>4, <2>5, <2>6, <2>7 DEF StageInv, TypeInv, TypeOK, Holding, Building
<1>16. ASSUME NEW c \in Compilers, CreateStageMeta(c) PROVE StageInv'
    BY <1>16 DEF CreateStageMeta, StageInv, LockInv, TypeInv, TypeOK, Holding, Building
<1>17. ASSUME NEW c \in Compilers, NEW f \in Files, ReadSource(c, f) PROVE StageInv'
    BY <1>17 DEF ReadSource, StageInv, LockInv, TypeInv, TypeOK, Holding, Building, VersionInv, Complete, NoPartialDb, Versions
<1>18. ASSUME NEW c \in Compilers, Elaborated(c) PROVE StageInv'
    BY <1>18 DEF Elaborated, StageInv, LockInv, TypeInv, TypeOK, Holding, Building
<1>19. ASSUME NEW c \in Compilers, WriteStageDb(c) PROVE StageInv'
    BY <1>19 DEF WriteStageDb, StageInv, LockInv, TypeInv, TypeOK, Holding, Building, StageIsOwn, NoPartialDb, Complete
<1>20. ASSUME NEW c \in Compilers, DescribeStage(c) PROVE StageInv'
    BY <1>20 DEF DescribeStage, StageInv, LockInv, TypeInv, TypeOK, Holding, Building
<1>21. ASSUME NEW c \in Compilers, InvalidateMeta(c) PROVE StageInv'
    BY <1>21 DEF InvalidateMeta, StageInv, LockInv, TypeInv, TypeOK, Holding, Building
<1>22. ASSUME NEW c \in Compilers, RenameDb(c) PROVE StageInv'
  <2>1. pc[c] = "renameDb" /\ pc' = [pc EXCEPT ![c] = "renameMeta"] /\ db' = stageDb /\ stageDb' = None
    BY <1>22 DEF RenameDb
  <2>2. UNCHANGED <<data, meta, stageMeta, todo, stamp, seen, guardian, lost, opening, mapped>>
    BY <1>22 DEF RenameDb
  <2>3. ex = c /\ todo[c] = {} /\ meta = None /\ data[stageDb] = [args |-> job[c].args, read |-> seen[c]]
    BY <2>1 DEF LockInv, StageInv, StageIsOwn, Holding, Building
  <2>4. \A d \in Compilers : d # c => guardian[d] = "none" /\ pc[d] \notin Holding
    BY <2>3 DEF LockInv
  <2>5. \A f \in Files : data'[db'].read[f] <= seen[c][f]
    BY <2>1, <2>2, <2>3 DEF TypeInv, TypeOK, Versions
  <2>6. QED
    BY <2>1, <2>2, <2>3, <2>4, <2>5 DEF StageInv, LockInv, TypeInv, TypeOK, Holding, Building
<1>23. ASSUME NEW c \in Compilers, RenameMeta(c) PROVE StageInv'
    BY <1>23 DEF RenameMeta, StageInv, LockInv, TypeInv, TypeOK, Holding, Building
<1>24. ASSUME NEW c \in Compilers, Disarm(c) PROVE StageInv'
    BY <1>24 DEF Disarm, StageInv, LockInv, TypeInv, TypeOK, Holding, Building
<1>25. ASSUME NEW c \in Compilers, Hangup(c) PROVE StageInv'
    BY <1>25 DEF Hangup, StageInv, LockInv, TypeInv, TypeOK, Holding, Building
<1>26. ASSUME NEW c \in Compilers, Reap(c) PROVE StageInv'
  <2>1. CASE pc[c] = "reap" /\ pc' = [pc EXCEPT ![c] = "release"]
    BY <1>26, <2>1 DEF Reap, StageInv, LockInv, TypeInv, TypeOK, Holding, Building
  <2>2. CASE pc[c] = "reapFailed" /\ pc' = [pc EXCEPT ![c] = "sweepDb"]
    BY <1>26, <2>2 DEF Reap, StageInv, LockInv, TypeInv, TypeOK, Holding, Building
  <2>3. QED
    BY <1>26, <2>1, <2>2 DEF Reap
<1>27. ASSUME NEW c \in Compilers, SweepStageDb(c) PROVE StageInv'
    BY <1>27 DEF SweepStageDb, StageInv, LockInv, TypeInv, TypeOK, Holding, Building
<1>28. ASSUME NEW c \in Compilers, SweepStageMeta(c) PROVE StageInv'
    BY <1>28 DEF SweepStageMeta, StageInv, LockInv, TypeInv, TypeOK, Holding, Building
<1>29. ASSUME NEW c \in Compilers, Release(c) PROVE StageInv'
    BY <1>29 DEF Release, StageInv, LockInv, TypeInv, TypeOK, Holding, Building, Exits, CompilerCloses
<1>30. ASSUME NEW c \in Compilers, Fail(c) PROVE StageInv'
    BY <1>30 DEF Fail, StageInv, LockInv, TypeInv, TypeOK, Holding, Building
<1>30a. ASSUME NEW c \in Compilers, RecoverFails(c) PROVE StageInv'
    BY <1>30a DEF RecoverFails, StageInv, LockInv, TypeInv, TypeOK, Holding, Building
<1>31. ASSUME NEW c \in Compilers, GuardianDisarmed(c) PROVE StageInv'
    BY <1>31 DEF GuardianDisarmed, StageInv, LockInv, TypeInv, TypeOK, Holding, Building, GuardianCloses
<1>32. ASSUME NEW c \in Compilers, GuardianSweepsDb(c) PROVE StageInv'
    BY <1>32 DEF GuardianSweepsDb, StageInv, LockInv, TypeInv, TypeOK, Holding, Building
<1>33. ASSUME NEW c \in Compilers, GuardianSweepsMeta(c) PROVE StageInv'
    BY <1>33 DEF GuardianSweepsMeta, StageInv, LockInv, TypeInv, TypeOK, Holding, Building, GuardianCloses
<1>34. ASSUME NEW c \in Compilers, KillCompiler(c) PROVE StageInv'
    BY <1>34 DEF KillCompiler, StageInv, LockInv, TypeInv, TypeOK, Holding, Building, Exits, CompilerCloses
<1>35. ASSUME NEW c \in Compilers, KillGuardian(c) PROVE StageInv'
    BY <1>35 DEF KillGuardian, StageInv, LockInv, TypeInv, TypeOK, Holding, Building, GuardianCloses
<1>36. ASSUME NEW r \in Readers, ReaderOpen(r) PROVE StageInv'
    BY <1>36 DEF ReaderOpen, StageInv, LockInv, TypeInv, TypeOK, Holding, Building
<1>37. ASSUME NEW r \in Readers, ReaderLoad(r) PROVE StageInv'
    BY <1>37 DEF ReaderLoad, StageInv, LockInv, TypeInv, TypeOK, Holding, Building
<1>38. ASSUME NEW r \in Readers, ReaderClose(r) PROVE StageInv'
    BY <1>38 DEF ReaderClose, StageInv, LockInv, TypeInv, TypeOK, Holding, Building
<1>39. CASE UNCHANGED vars
    BY <1>39 DEF StageInv, LockInv, TypeInv, TypeOK, Holding, Building
<1>40. QED
    BY <1>1, <1>2, <1>3, <1>4, <1>5, <1>6, <1>7, <1>8, <1>9, <1>10, <1>11, <1>12,
       <1>13, <1>14, <1>15, <1>16, <1>17, <1>18, <1>19, <1>20, <1>21, <1>22, <1>23, <1>24,
       <1>25, <1>26, <1>27, <1>28, <1>29, <1>30, <1>30a, <1>31, <1>32, <1>33, <1>34, <1>35, <1>36,
       <1>37, <1>38, <1>39
    DEF Next, CompilerStep, CacheCheck, Prepare, Build, Publish, Finish, GuardianStep, Fault, ReaderStep

(* No process disturbs the staging files of another. *)
LEMMA OwnStep == IInv /\ [Next]_vars => StageIsOwn'
<1> SUFFICES ASSUME IInv, [Next]_vars PROVE StageIsOwn'
    OBVIOUS
<1> USE ConstantsAssumption, TokensAssumption DEF IInv
<1>1. ASSUME NEW f \in Files, Edit(f) PROVE StageIsOwn'
    BY <1>1 DEF Edit, StageIsOwn, LockInv, TypeInv, TypeOK, Holding, Building, Certificate, Fingerprint
<1>2. ASSUME NEW c \in Compilers, Start(c) PROVE StageIsOwn'
    BY <1>2 DEF Start, StageIsOwn, LockInv, TypeInv, TypeOK, Holding, Building, Certificate, Fingerprint
<1>3. ASSUME NEW c \in Compilers, NEW f \in Listed, StampFile(c, f) PROVE StageIsOwn'
    BY <1>3 DEF StampFile, StageIsOwn, LockInv, TypeInv, TypeOK, Holding, Building, Certificate, Fingerprint
<1>4. ASSUME NEW c \in Compilers, Stamped(c) PROVE StageIsOwn'
    BY <1>4 DEF Stamped, StageIsOwn, LockInv, TypeInv, TypeOK, Holding, Building, Certificate, Fingerprint
<1>5. ASSUME NEW c \in Compilers, ProbeMiss(c) PROVE StageIsOwn'
    BY <1>5 DEF ProbeMiss, StageIsOwn, LockInv, TypeInv, TypeOK, Holding, Building, Certificate, Fingerprint
<1>6. ASSUME NEW c \in Compilers, ProbeLock(c) PROVE StageIsOwn'
    BY <1>6 DEF ProbeLock, StageIsOwn, LockInv, TypeInv, TypeOK, Holding, Building, Certificate, Fingerprint
<1>7. ASSUME NEW c \in Compilers, ReadHeader(c) PROVE StageIsOwn'
    BY <1>7 DEF ReadHeader, StageIsOwn, LockInv, TypeInv, TypeOK, Holding, Building, Certificate, Fingerprint
<1>8. ASSUME NEW c \in Compilers, CompareMeta(c) PROVE StageIsOwn'
    BY <1>8 DEF CompareMeta, StageIsOwn, LockInv, TypeInv, TypeOK, Holding, Building, Certificate, Fingerprint
<1>9. ASSUME NEW c \in Compilers, ReturnHit(c) PROVE StageIsOwn'
    BY <1>9 DEF ReturnHit, StageIsOwn, LockInv, TypeInv, TypeOK, Holding, Building, Certificate, Fingerprint, Exits
<1>10. ASSUME NEW c \in Compilers, OpenSidecar(c) PROVE StageIsOwn'
    BY <1>10 DEF OpenSidecar, StageIsOwn, LockInv, TypeInv, TypeOK, Holding, Building, Certificate, Fingerprint
<1>11. ASSUME NEW c \in Compilers, AcquireExclusive(c) PROVE StageIsOwn'
    BY <1>11 DEF AcquireExclusive, StageIsOwn, LockInv, TypeInv, TypeOK, Holding, Building, Certificate, Fingerprint
<1>12. ASSUME NEW c \in Compilers, AcquireFails(c) PROVE StageIsOwn'
    BY <1>12 DEF AcquireFails, StageIsOwn, LockInv, TypeInv, TypeOK, Holding, Building, Certificate, Fingerprint, Exits
<1>13. ASSUME NEW c \in Compilers, RecoverStaging(c) PROVE StageIsOwn'
    BY <1>13 DEF RecoverStaging, StageIsOwn, LockInv, TypeInv, TypeOK, Holding, Building, Certificate, Fingerprint
<1>14. ASSUME NEW c \in Compilers, StartGuardian(c) PROVE StageIsOwn'
    BY <1>14 DEF StartGuardian, StageIsOwn, LockInv, TypeInv, TypeOK, Holding, Building, Certificate, Fingerprint
<1>15. ASSUME NEW c \in Compilers, CreateStageDb(c) PROVE StageIsOwn'
    BY <1>15 DEF CreateStageDb, StageIsOwn, LockInv, TypeInv, TypeOK, Holding, Building, Certificate, Fingerprint, Unreferenced
<1>16. ASSUME NEW c \in Compilers, CreateStageMeta(c) PROVE StageIsOwn'
    BY <1>16 DEF CreateStageMeta, StageIsOwn, LockInv, TypeInv, TypeOK, Holding, Building, Certificate, Fingerprint
<1>17. ASSUME NEW c \in Compilers, NEW f \in Files, ReadSource(c, f) PROVE StageIsOwn'
    BY <1>17 DEF ReadSource, StageIsOwn, LockInv, TypeInv, TypeOK, Holding, Building, Certificate, Fingerprint
<1>18. ASSUME NEW c \in Compilers, Elaborated(c) PROVE StageIsOwn'
    BY <1>18 DEF Elaborated, StageIsOwn, LockInv, TypeInv, TypeOK, Holding, Building, Certificate, Fingerprint
<1>19. ASSUME NEW c \in Compilers, WriteStageDb(c) PROVE StageIsOwn'
    BY <1>19 DEF WriteStageDb, StageIsOwn, LockInv, TypeInv, TypeOK, Holding, Building, Certificate, Fingerprint, StageInv
<1>20. ASSUME NEW c \in Compilers, DescribeStage(c) PROVE StageIsOwn'
    BY <1>20 DEF DescribeStage, StageIsOwn, LockInv, TypeInv, TypeOK, Holding, Building, Certificate, Fingerprint
<1>21. ASSUME NEW c \in Compilers, InvalidateMeta(c) PROVE StageIsOwn'
    BY <1>21 DEF InvalidateMeta, StageIsOwn, LockInv, TypeInv, TypeOK, Holding, Building, Certificate, Fingerprint
<1>22. ASSUME NEW c \in Compilers, RenameDb(c) PROVE StageIsOwn'
    BY <1>22 DEF RenameDb, StageIsOwn, LockInv, TypeInv, TypeOK, Holding, Building, Certificate, Fingerprint, StageInv
<1>23. ASSUME NEW c \in Compilers, RenameMeta(c) PROVE StageIsOwn'
    BY <1>23 DEF RenameMeta, StageIsOwn, LockInv, TypeInv, TypeOK, Holding, Building, Certificate, Fingerprint
<1>24. ASSUME NEW c \in Compilers, Disarm(c) PROVE StageIsOwn'
    BY <1>24 DEF Disarm, StageIsOwn, LockInv, TypeInv, TypeOK, Holding, Building, Certificate, Fingerprint
<1>25. ASSUME NEW c \in Compilers, Hangup(c) PROVE StageIsOwn'
    BY <1>25 DEF Hangup, StageIsOwn, LockInv, TypeInv, TypeOK, Holding, Building, Certificate, Fingerprint
<1>26. ASSUME NEW c \in Compilers, Reap(c) PROVE StageIsOwn'
    BY <1>26 DEF Reap, StageIsOwn, LockInv, TypeInv, TypeOK, Holding, Building, Certificate, Fingerprint
<1>27. ASSUME NEW c \in Compilers, SweepStageDb(c) PROVE StageIsOwn'
    BY <1>27 DEF SweepStageDb, StageIsOwn, LockInv, TypeInv, TypeOK, Holding, Building, Certificate, Fingerprint
<1>28. ASSUME NEW c \in Compilers, SweepStageMeta(c) PROVE StageIsOwn'
    BY <1>28 DEF SweepStageMeta, StageIsOwn, LockInv, TypeInv, TypeOK, Holding, Building, Certificate, Fingerprint
<1>29. ASSUME NEW c \in Compilers, Release(c) PROVE StageIsOwn'
    BY <1>29 DEF Release, StageIsOwn, LockInv, TypeInv, TypeOK, Holding, Building, Certificate, Fingerprint, Exits
<1>30. ASSUME NEW c \in Compilers, Fail(c) PROVE StageIsOwn'
    BY <1>30 DEF Fail, StageIsOwn, LockInv, TypeInv, TypeOK, Holding, Building, Certificate, Fingerprint
<1>30a. ASSUME NEW c \in Compilers, RecoverFails(c) PROVE StageIsOwn'
    BY <1>30a DEF RecoverFails, StageIsOwn, LockInv, TypeInv, TypeOK, Holding, Building, Certificate, Fingerprint
<1>31. ASSUME NEW c \in Compilers, GuardianDisarmed(c) PROVE StageIsOwn'
    BY <1>31 DEF GuardianDisarmed, StageIsOwn, LockInv, TypeInv, TypeOK, Holding, Building, Certificate, Fingerprint
<1>32. ASSUME NEW c \in Compilers, GuardianSweepsDb(c) PROVE StageIsOwn'
    BY <1>32 DEF GuardianSweepsDb, StageIsOwn, LockInv, TypeInv, TypeOK, Holding, Building, Certificate, Fingerprint
<1>33. ASSUME NEW c \in Compilers, GuardianSweepsMeta(c) PROVE StageIsOwn'
    BY <1>33 DEF GuardianSweepsMeta, StageIsOwn, LockInv, TypeInv, TypeOK, Holding, Building, Certificate, Fingerprint
<1>34. ASSUME NEW c \in Compilers, KillCompiler(c) PROVE StageIsOwn'
    BY <1>34 DEF KillCompiler, StageIsOwn, LockInv, TypeInv, TypeOK, Holding, Building, Certificate, Fingerprint, Exits
<1>35. ASSUME NEW c \in Compilers, KillGuardian(c) PROVE StageIsOwn'
    BY <1>35 DEF KillGuardian, StageIsOwn, LockInv, TypeInv, TypeOK, Holding, Building, Certificate, Fingerprint
<1>36. ASSUME NEW r \in Readers, ReaderOpen(r) PROVE StageIsOwn'
    BY <1>36 DEF ReaderOpen, StageIsOwn, LockInv, TypeInv, TypeOK, Holding, Building, Certificate, Fingerprint
<1>37. ASSUME NEW r \in Readers, ReaderLoad(r) PROVE StageIsOwn'
    BY <1>37 DEF ReaderLoad, StageIsOwn, LockInv, TypeInv, TypeOK, Holding, Building, Certificate, Fingerprint
<1>38. ASSUME NEW r \in Readers, ReaderClose(r) PROVE StageIsOwn'
    BY <1>38 DEF ReaderClose, StageIsOwn, LockInv, TypeInv, TypeOK, Holding, Building, Certificate, Fingerprint
<1>39. CASE UNCHANGED vars
    BY <1>39 DEF StageIsOwn, LockInv, TypeInv, TypeOK, Holding, Building, Certificate, Fingerprint
<1>40. QED
    BY <1>1, <1>2, <1>3, <1>4, <1>5, <1>6, <1>7, <1>8, <1>9, <1>10, <1>11, <1>12,
       <1>13, <1>14, <1>15, <1>16, <1>17, <1>18, <1>19, <1>20, <1>21, <1>22, <1>23, <1>24,
       <1>25, <1>26, <1>27, <1>28, <1>29, <1>30, <1>30a, <1>31, <1>32, <1>33, <1>34, <1>35, <1>36,
       <1>37, <1>38, <1>39
    DEF Next, CompilerStep, CacheCheck, Prepare, Build, Publish, Finish, GuardianStep, Fault, ReaderStep

(* Nothing is ever written into an inode that a name or a reader has. *)
LEMMA PublishedUntouched ==
  ASSUME IInv, [Next]_vars
  PROVE  /\ db # None => data'[db] = data[db]
         /\ \A r \in Readers : /\ mapped[r] # None => data'[mapped[r]] = data[mapped[r]]
                               /\ opening[r] # None => data'[opening[r]] = data[opening[r]]
<1>1. CASE data' = data
  BY <1>1
<1>2. CASE data' # data
  <2>1. PICK c \in Compilers : CreateStageDb(c) \/ WriteStageDb(c)
    BY <1>2, DataSteps
  <2>2. CASE CreateStageDb(c)
    BY <2>2 DEF CreateStageDb, Unreferenced, IInv, TypeInv, TypeOK
  <2>3. CASE WriteStageDb(c)
    BY <2>3 DEF WriteStageDb, IInv, TypeInv, TypeOK, StageInv
  <2>4. QED
    BY <2>1, <2>2, <2>3
<1>3. QED
  BY <1>1, <1>2

(* Only complete files get the public name, and only those are mapped.     *)
LEMMA CompleteStep == IInv /\ [Next]_vars => NoPartialDb'
<1> SUFFICES ASSUME IInv, [Next]_vars PROVE NoPartialDb'
  OBVIOUS
<1> USE TokensAssumption
<1>1. CASE UNCHANGED <<src, db, meta, opening, mapped>>
  BY <1>1, PublishedUntouched DEF IInv, NoPartialDb, Complete
<1>2. ASSUME NEW f \in Files, Edit(f) PROVE NoPartialDb'
  BY <1>2 DEF Edit, IInv, NoPartialDb, Complete
<1>3. ASSUME NEW c \in Compilers, InvalidateMeta(c) \/ RenameMeta(c) PROVE NoPartialDb'
  BY <1>3 DEF InvalidateMeta, RenameMeta, IInv, NoPartialDb, Complete
<1>4. ASSUME NEW c \in Compilers, RenameDb(c) PROVE NoPartialDb'
  <2>1. stageDb # None /\ data[stageDb] # Partial
    BY <1>4, BuiltIsContents DEF RenameDb, IInv, StageIsOwn
  <2>2. QED
    BY <1>4, <2>1 DEF RenameDb, IInv, NoPartialDb, Complete
<1>5. ASSUME NEW r \in Readers, ReaderStep(r) PROVE NoPartialDb'
  BY <1>5 DEF ReaderStep, ReaderOpen, ReaderLoad, ReaderClose, IInv, NoPartialDb, Complete,
              TypeInv, TypeOK
<1>6. QED
  BY <1>1, <1>2, <1>3, <1>4, <1>5, VisibleSteps

(* Metadata is withdrawn before the database changes, and comes back when  *)
(* it describes the new one.                                               *)
LEMMA MetaStep == IInv /\ [Next]_vars => MetaDescribesDb'
<1> SUFFICES ASSUME IInv, [Next]_vars PROVE MetaDescribesDb'
  OBVIOUS
<1> USE TokensAssumption
<1>1. CASE UNCHANGED <<db, meta>>
  BY <1>1, PublishedUntouched DEF IInv, MetaDescribesDb, Complete, Covers
<1>2. ASSUME NEW c \in Compilers, InvalidateMeta(c) PROVE MetaDescribesDb'
  BY <1>2 DEF InvalidateMeta, MetaDescribesDb
<1>3. ASSUME NEW c \in Compilers, RenameDb(c) PROVE MetaDescribesDb'
  BY <1>3 DEF RenameDb, IInv, StageInv, MetaDescribesDb
<1>4. ASSUME NEW c \in Compilers, RenameMeta(c) PROVE MetaDescribesDb'
  <2> DEFINE built == [args |-> job[c].args, read |-> seen[c]]
  <2>1. pc[c] = "renameMeta" /\ meta' = stageMeta /\ UNCHANGED <<db, data>>
    BY <1>4 DEF RenameMeta
  <2>2. db # None /\ data[db] = built /\ stageMeta = Certificate(Fingerprint(c), Envelope(built))
    BY <2>1 DEF IInv, StageIsOwn
  <2>3. built # Partial
    BY <2>1, BuiltIsContents DEF IInv
  <2>4. \A f \in Listed : stamp[c][f] <= seen[c][f]
    BY <2>1, ConstantsAssumption DEF IInv, StageInv, Building
  <2>5. Covers(built, meta')
    BY <2>1, <2>2, <2>4 DEF Covers, Certificate, Fingerprint
  <2>6. meta'.env = Envelope(built)
    BY <2>1, <2>2 DEF Certificate
  <2> HIDE DEF built
  <2>7. QED
    BY <2>1, <2>2, <2>3, <2>5, <2>6 DEF MetaDescribesDb, Complete, Covers
<1>5. ASSUME NEW f \in Files, Edit(f) PROVE UNCHANGED <<db, meta>>
  BY <1>5 DEF Edit
<1>6. ASSUME NEW r \in Readers, ReaderStep(r) PROVE UNCHANGED <<db, meta>>
  BY <1>6 DEF ReaderStep, ReaderOpen, ReaderLoad, ReaderClose
<1>7. QED
  BY <1>1, <1>2, <1>3, <1>4, <1>5, <1>6, VisibleSteps

(* The inductive invariant holds before the first compile.                 *)
LEMMA InitIInv == Init => IInv
<1> SUFFICES ASSUME Init PROVE IInv
  OBVIOUS
<1> USE ConstantsAssumption, TokensAssumption
<1>1. PICK a \in Args, i \in Inodes :
        LET built == [args |-> a, read |-> [f \in Files |-> 0]]
        IN  /\ data = [j \in Inodes |-> IF j = i THEN built ELSE Partial]
            /\ \/ db = None /\ meta = None /\ sidecar \in BOOLEAN
               \/ db = i /\ meta \in {None, Foreign} /\ sidecar = FALSE
               \/ /\ db = i /\ sidecar = TRUE
                  /\ meta = [args |-> a, stamp |-> [f \in Listed |-> 0], env |-> Envelope(built)]
  BY DEF Init
<1> DEFINE built == [args |-> a, read |-> [f \in Files |-> 0]]
<1> DEFINE cert == [args |-> a, stamp |-> [f \in Listed |-> 0], env |-> Envelope(built)]
<1>2. 0 \in Versions
  BY DEF Versions
<1>3. built \in Contents /\ built # Partial
  BY <1>2 DEF Contents
<1>4. cert \in Certificates /\ cert.env = Envelope(built) /\ Covers(built, cert)
  <2>1. Envelope(built) \in Envelopes
    BY <1>3 DEF Envelopes
  <2>2. Covers(built, cert)
    BY DEF Covers
  <2>3. QED
    BY <1>2, <2>1, <2>2 DEF Certificates
<1>5. /\ data \in [Inodes -> Contents \cup {Partial}] /\ data[i] = built
      /\ \A j \in Inodes : data[j] # Partial => data[j] = built
  BY <1>1, <1>3
<1>6. db \in {None, i} /\ meta \in {None, Foreign, cert} /\ (meta = cert => db = i)
      /\ sidecar \in BOOLEAN
  <2>1. cert \notin {None, Foreign}
    BY <1>4
  <2> HIDE DEF cert
  <2>2. \/ db = None /\ meta = None /\ sidecar \in BOOLEAN
        \/ db = i /\ meta \in {None, Foreign} /\ sidecar = FALSE
        \/ db = i /\ sidecar = TRUE /\ meta = cert
    BY <1>1 DEF cert
  <2>3. QED
    BY <2>1, <2>2
<1>7. NoPartialDb
  BY <1>3, <1>5, <1>6 DEF Init, NoPartialDb, Complete
<1>8. MetaDescribesDb
  BY <1>3, <1>4, <1>5, <1>6 DEF MetaDescribesDb, Complete
<1>9. VersionInv
  BY <1>5 DEF Init, VersionInv, Blank
<1>10. TypeInv
  <2>1. TypeOK
    BY <1>2, <1>4, <1>5, <1>6 DEF Init, TypeOK, Blank, Steps, Guardians
  <2>2. QED
    BY <2>1 DEF Init, TypeInv
<1>11. LockInv /\ StageInv /\ StageIsOwn
  BY DEF Init, LockInv, StageInv, StageIsOwn, Holding, Building
<1>12. QED
  BY <1>7, <1>8, <1>9, <1>10, <1>11 DEF IInv

(* The inductive invariant holds for any number of compilers, readers,     *)
(* files and command lines, and any function from databases to envelopes.  *)
THEOREM InductiveInvariant == Spec => []IInv
<1>1. IInv /\ [Next]_vars => IInv'
  BY TypeStep, VersionStep, LockStep, StageStep, CompleteStep, OwnStep, MetaStep DEF IInv
<1>2. QED
  BY InitIInv, <1>1, PTL DEF Spec

(* Every variable keeps its type. *)
THEOREM TypeCorrect == Spec => []TypeOK
<1>1. IInv => TypeOK
  BY DEF IInv, TypeInv
<1>2. QED
  BY InductiveInvariant, <1>1, PTL

(* A reader never observes a partially written database. *)
THEOREM ReadersSeeCompleteDbs == Spec => []NoPartialDb
<1>1. IInv => NoPartialDb
  BY DEF IInv
<1>2. QED
  BY InductiveInvariant, <1>1, PTL

(* Metadata, whenever it exists, is about the database next to it. *)
THEOREM MetadataNeverStale == Spec => []MetaDescribesDb
<1>1. IInv => MetaDescribesDb
  BY DEF IInv
<1>2. QED
  BY InductiveInvariant, <1>1, PTL

(* One writer, or the guardian of one dead writer, or any number of cache  *)
(* checks are inside the sidecar lock.                                     *)
THEOREM MutualExclusion == Spec => []WritersExclude
<1>1. IInv => WritersExclude
  BY ConstantsAssumption DEF IInv, LockInv, WritersExclude
<1>2. QED
  BY InductiveInvariant, <1>1, PTL

(* What is renamed is what was built. *)
THEOREM WritersPublishOwnWork == Spec => []StageIsOwn
<1>1. IInv => StageIsOwn
  BY DEF IInv
<1>2. QED
  BY InductiveInvariant, <1>1, PTL

(* A free lock and a guardian that lived leave no staging files. *)
THEOREM NoStagingLeak == Spec => []StagingConfined
<1>1. IInv => StagingConfined
  BY ConstantsAssumption DEF IInv, LockInv, StageInv, StagingConfined
<1>2. QED
  BY InductiveInvariant, <1>1, PTL

(* Only a cache check decides a hit, and it looks at the metadata. *)
LEMMA HitSteps ==
  ASSUME TypeOK, [Next]_vars, NEW c \in Compilers, pc[c] = "compare", pc'[c] = "hit"
  PROVE  meta = Certificate(Fingerprint(c), header[c])
<1> USE DEF TypeOK
<1>1. CASE UNCHANGED pc \/ \E f \in Files : Edit(f)
  BY <1>1 DEF Edit
<1>2. ASSUME NEW d \in Compilers, Start(d) \/ Stamped(d) \/ \E f \in Listed : StampFile(d, f)
      PROVE FALSE
  BY <1>2 DEF Start, Stamped, StampFile
<1>3. ASSUME NEW d \in Compilers, CacheCheck(d)
      PROVE meta = Certificate(Fingerprint(c), header[c])
  BY <1>3 DEF CacheCheck, ProbeMiss, ProbeLock, ReadHeader, CompareMeta, ReturnHit, Exits
<1>4. ASSUME NEW d \in Compilers, Prepare(d) \/ Build(d) PROVE FALSE
  BY <1>4 DEF Prepare, OpenSidecar, AcquireExclusive, RecoverStaging, StartGuardian,
              CreateStageDb, CreateStageMeta, Build, ReadSource, Elaborated, WriteStageDb
<1>5. ASSUME NEW d \in Compilers, Publish(d) \/ Finish(d) PROVE FALSE
  BY <1>5 DEF Publish, DescribeStage, InvalidateMeta, RenameDb, RenameMeta, Finish, Disarm,
              Hangup, Reap, SweepStageDb, SweepStageMeta, Release, Exits
<1>6. ASSUME NEW d \in Compilers, GuardianStep(d) \/ Fault(d) PROVE FALSE
  BY <1>6 DEF GuardianStep, GuardianDisarmed, GuardianSweepsDb, GuardianSweepsMeta, Fault,
              AcquireFails, RecoverFails, Fail, KillCompiler, KillGuardian, Exits, Building
<1>7. ASSUME NEW r \in Readers, ReaderStep(r) PROVE FALSE
  BY <1>7 DEF ReaderStep, ReaderOpen, ReaderLoad, ReaderClose
<1>8. QED
  BY <1>1, <1>2, <1>3, <1>4, <1>5, <1>6, <1>7 DEF Next, CompilerStep

(* A hit is right about every stamped file. *)
THEOREM HitsAreFresh == Spec => HitIsFresh
<1>1. ASSUME IInv, [Next]_vars, NEW c \in Compilers, pc[c] = "compare", pc'[c] = "hit"
      PROVE  Complete(db) /\ Covers(data[db], Fingerprint(c))
  <2>1. meta = Certificate(Fingerprint(c), header[c])
    BY <1>1, HitSteps DEF IInv, TypeInv
  <2>2. header[c] \in Envelopes /\ job[c].args \in Args /\ stamp[c] \in [Listed -> Versions]
    BY <1>1 DEF IInv, TypeInv, TypeOK
  <2>3. meta \in Certificates
    BY <2>1, <2>2 DEF Certificate, Fingerprint, Certificates
  <2>4. Complete(db) /\ Covers(data[db], meta)
    BY <1>1, <2>3 DEF IInv, MetaDescribesDb
  <2>5. QED
    BY <2>1, <2>4 DEF Covers, Certificate, Fingerprint
<1>2. IInv /\ [Next]_vars =>
        [\A c \in Compilers : pc[c] = "compare" /\ pc'[c] = "hit" =>
            Complete(db) /\ Covers(data[db], Fingerprint(c))]_vars
  BY <1>1
<1>3. QED
  BY InductiveInvariant, <1>2, PTL DEF Spec, HitIsFresh

(* A compile never replaces a database by one that read older files. *)
THEOREM Monotone == Spec => DbNeverRegresses
<1>1. ASSUME IInv, [Next]_vars, db' # db, db # None
      PROVE  db' # None /\ \A f \in Files : data[db].read[f] <= data'[db'].read[f]
  <2>1. PICK c \in Compilers : RenameDb(c)
    BY <1>1, DbSteps
  <2>2. /\ data[stageDb] = [args |-> job[c].args, read |-> seen[c]]
        /\ todo[c] = {} /\ \A f \in Files : data[db].read[f] <= seen[c][f]
    BY <1>1, <2>1 DEF IInv, StageIsOwn, StageInv, RenameDb, Building
  <2>3. QED
    BY <2>1, <2>2 DEF RenameDb
<1>2. IInv /\ [Next]_vars =>
        [db' # db /\ db # None =>
           db' # None /\ \A f \in Files : data[db].read[f] <= data'[db'].read[f]]_vars
  BY <1>1
<1>3. QED
  BY InductiveInvariant, <1>2, PTL DEF Spec, DbNeverRegresses

(* A mapped snapshot does not change. *)
THEOREM SnapshotsAreImmutable == Spec => SnapshotImmutable
<1>1. IInv /\ [Next]_vars =>
        [\A r \in Readers : mapped[r] # None /\ mapped'[r] = mapped[r] =>
           data'[mapped[r]] = data[mapped[r]]]_vars
  BY PublishedUntouched
<1>2. QED
  BY InductiveInvariant, <1>1, PTL DEF Spec, SnapshotImmutable

-----------------------------------------------------------------------------
(* Publication implements the abstract cache.                              *)

Certified == IF meta \in {None, Foreign} THEN None
             ELSE [args |-> meta.args, stamp |-> meta.stamp]
Fetched == [r \in Readers |-> Holds(opening[r])]
View == [r \in Readers |-> Holds(mapped[r])]

(* Steps that leave the names and the readers alone are invisible, because *)
(* what the names and the readers lead to is never written.                *)
LEMMA QuietSteps ==
  ASSUME IInv, [Next]_vars, UNCHANGED <<src, db, meta, opening, mapped>>
  PROVE  UNCHANGED Cache!vars
<1>1. Holds(db)' = Holds(db)
  BY PublishedUntouched DEF Holds
<1>2. Fetched' = Fetched /\ View' = View
  BY PublishedUntouched DEF Holds, Fetched, View
<1>3. QED
  BY <1>1, <1>2 DEF Cache!vars, Fetched, View

(* The initial files are an initial state of the cell.                     *)
LEMMA CacheInit == Init => Cache!Init
<1> SUFFICES ASSUME Init PROVE Cache!Init
  OBVIOUS
<1>1. IInv
  BY InitIInv
<1>2. src \in [Files -> Versions] /\ Fetched = [r \in Readers |-> None]
      /\ View = [r \in Readers |-> None]
  BY <1>1 DEF IInv, TypeInv, TypeOK, Init, Holds, Fetched, View
<1>3. Holds(db) \in Contents \cup {None}
  BY <1>1 DEF IInv, TypeInv, TypeOK, NoPartialDb, Complete, Holds
<1>4. CASE meta \in {None, Foreign}
  BY <1>2, <1>3, <1>4 DEF Cache!Init, Cache!Contents, Contents, Fetched, View
<1>5. CASE meta \notin {None, Foreign}
  <2>1. meta \in Certificates
    BY <1>1, <1>5 DEF IInv, TypeInv, TypeOK
  <2>2. /\ db # None /\ data[db] \in Contents
        /\ Covers(data[db], meta)
    BY <1>1, <2>1 DEF IInv, TypeInv, TypeOK, MetaDescribesDb, Complete
  <2>3. Holds(db) # None
    BY <2>2, TokensAssumption DEF Holds
  <2>4. Certified \in Cache!Fingerprints /\ Cache!Covers(Holds(db), Certified)
    BY <1>5, <2>1, <2>2 DEF Certified, Certificates, Cache!Fingerprints, Cache!Covers, Covers, Holds
  <2>5. QED
    BY <1>2, <1>3, <2>3, <2>4
    DEF Cache!Init, Cache!Contents, Contents, Certified, Fetched, View
<1>6. QED
  BY <1>4, <1>5

(* Every step of the files and the processes is a step of the cell or is   *)
(* invisible.                                                              *)
LEMMA CacheStep == IInv /\ IInv' /\ [Next]_vars => [Cache!Next]_(Cache!vars)
<1> SUFFICES ASSUME IInv, IInv', [Next]_vars PROVE Cache!Next \/ UNCHANGED Cache!vars
  OBVIOUS
<1> USE ConstantsAssumption, TokensAssumption
<1>1. /\ db # None => data[db] \in Contents
      /\ \A r \in Readers : /\ opening[r] # None => data[opening[r]] \in Contents
                            /\ mapped[r] # None => data[mapped[r]] \in Contents
  BY DEF IInv, TypeInv, TypeOK, NoPartialDb, Complete
<1>2. CASE UNCHANGED <<src, db, meta, opening, mapped>>
  BY <1>2, QuietSteps
<1>3. ASSUME NEW f \in Files, Edit(f) PROVE Cache!Next
  <2>1. UNCHANGED <<Holds(db), Certified, Fetched, View>>
    BY <1>3 DEF Edit, Holds, Certified, Fetched, View
  <2>2. QED
    BY <1>3, <2>1 DEF Edit, Cache!Next, Cache!Edit, Certified, Fetched, View
<1>4. ASSUME NEW c \in Compilers, InvalidateMeta(c) PROVE Cache!Next
  <2>1. UNCHANGED <<src, Holds(db), Fetched, View>> /\ Certified' = None
    BY <1>4 DEF InvalidateMeta, Holds, Certified, Fetched, View
  <2>2. QED
    BY <2>1 DEF Cache!Next, Cache!Withdraw, Certified, Fetched, View
<1>5. ASSUME NEW c \in Compilers, RenameDb(c) PROVE Cache!Next
  <2> DEFINE built == [args |-> job[c].args, read |-> seen[c]]
  <2>1. /\ pc[c] = "renameDb" /\ stageDb # None /\ db' = stageDb
        /\ UNCHANGED <<src, data, meta, opening, mapped>>
    BY <1>5 DEF RenameDb
  <2>2. data[stageDb] = built /\ todo[c] = {} /\ meta = None
    BY <2>1 DEF IInv, StageIsOwn, StageInv
  <2>3. built \in Contents
    BY <2>1, BuiltIsContents DEF IInv
  <2>4. \A f \in Files : built.read[f] <= src[f]
    BY DEF IInv, VersionInv
  <2>5. db # None => \A f \in Files : data[db].read[f] <= built.read[f]
    BY <2>1, <2>2 DEF IInv, StageInv, Building
  <2>6. Holds(db)' = built /\ Certified = None
    BY <2>1, <2>2 DEF Holds, Certified
  <2>7. UNCHANGED <<src, Certified, Fetched, View>>
    BY <2>1 DEF Holds, Certified, Fetched, View
  <2>8. Holds(db) # None => \A f \in Files : Holds(db).read[f] <= built.read[f]
    BY <2>5 DEF Holds
  <2> HIDE DEF built
  <2>9. Cache!Replace
    BY <2>3, <2>4, <2>6, <2>7, <2>8
    DEF Cache!Replace, Cache!Contents, Contents, Certified, Fetched, View
  <2>10. QED
    BY <2>9 DEF Cache!Next
<1>6. ASSUME NEW c \in Compilers, RenameMeta(c) PROVE Cache!Next
  <2>1. /\ pc[c] = "renameMeta" /\ meta' = stageMeta
        /\ UNCHANGED <<src, data, db, opening, mapped>>
    BY <1>6 DEF RenameMeta
  <2>2. meta = None /\ db # None
    BY <2>1 DEF IInv, StageIsOwn, StageInv
  <2>3. meta' \in Certificates
    BY <2>1, DescribedIsCertificate DEF IInv
  <2>4. Covers(data[db], meta')
    BY <2>1, <2>3 DEF IInv, MetaDescribesDb, Covers
  <2>5. /\ Certified = None
        /\ Certified' = [args |-> meta'.args, stamp |-> meta'.stamp]
        /\ Holds(db) # None
        /\ UNCHANGED <<src, Holds(db), Fetched, View>>
    BY <1>1, <2>1, <2>2, <2>3 DEF Certified, Holds, Fetched, View
  <2>6. Certified' \in Cache!Fingerprints /\ Cache!Covers(Holds(db), Certified')
    BY <2>2, <2>3, <2>4, <2>5 DEF Certificates, Cache!Fingerprints, Cache!Covers, Covers, Holds
  <2>7. Cache!Certify
    BY <2>5, <2>6 DEF Cache!Certify, Certified, Fetched, View
  <2>8. QED
    BY <2>7 DEF Cache!Next
<1>7. ASSUME NEW r \in Readers, ReaderOpen(r) PROVE Cache!Next
  <2>1. UNCHANGED <<src, Holds(db), Certified, View>>
    BY <1>7 DEF ReaderOpen, Holds, Certified, View
  <2>2. Holds(db) # None /\ Fetched' = [Fetched EXCEPT ![r] = Holds(db)]
    BY <1>1, <1>7 DEF ReaderOpen, Holds, Fetched, IInv, TypeInv, TypeOK
  <2>3. QED
    BY <2>1, <2>2 DEF Cache!Next, Cache!Fetch, Certified, Fetched, View
<1>8. ASSUME NEW r \in Readers, ReaderLoad(r) PROVE Cache!Next
  <2>1. Complete(opening[r])
    BY <1>8 DEF ReaderLoad, IInv, NoPartialDb
  <2>2. UNCHANGED <<src, Holds(db), Certified>>
    BY <1>8 DEF ReaderLoad, Holds, Certified
  <2>3. /\ Fetched[r] # None
        /\ View' = [View EXCEPT ![r] = Fetched[r]]
        /\ Fetched' = [Fetched EXCEPT ![r] = None]
    BY <1>1, <1>8, <2>1 DEF ReaderLoad, Holds, Fetched, View, IInv, TypeInv, TypeOK
  <2>4. QED
    BY <2>2, <2>3 DEF Cache!Next, Cache!Show, Certified, Fetched, View
<1>9. ASSUME NEW r \in Readers, ReaderClose(r) PROVE Cache!Next
  <2>1. UNCHANGED <<src, Holds(db), Certified, Fetched>>
    BY <1>9 DEF ReaderClose, Holds, Certified, Fetched
  <2>2. View' = [View EXCEPT ![r] = None]
    BY <1>9 DEF ReaderClose, Holds, View, IInv, TypeInv, TypeOK
  <2>3. QED
    BY <2>1, <2>2 DEF Cache!Next, Cache!Drop, Certified, Fetched, View
<1>10. QED
  BY <1>2, <1>3, <1>4, <1>5, <1>6, <1>7, <1>8, <1>9, VisibleSteps DEF ReaderStep

(* The published database is the abstract cache, for any number of         *)
(* compilers and readers and whatever they crash at.                       *)
THEOREM Refinement == Spec => ImplementsCache
<1>1. QED
  BY CacheInit, CacheStep, InductiveInvariant, PTL DEF Spec, ImplementsCache, Cache!Spec

=============================================================================
