-------------------------- MODULE GraphPublication --------------------------
(***************************************************************************)
(* How `rtl_trace compile` publishes a structural graph database: the      *)
(* sidecar lock, the staging files, the cleanup guardian, the metadata     *)
(* that certifies the database for `--incremental`, and the readers that   *)
(* map the database as a snapshot.                                         *)
(*                                                                         *)
(* Translated from standalone_trace/db/GraphPublication.h, RunCompile in   *)
(* compile/Compiler.cc, and SaveGraphDb, ComputeCompileFingerprint and     *)
(* LoadGraphDb in db/GraphDb.cc.                                           *)
(*                                                                         *)
(* One action is one system call that another process can observe.  The    *)
(* text of a database is abstracted to the arguments it was compiled with  *)
(* and the version of every source file that was read into it.             *)
(***************************************************************************)
EXTENDS Naturals, FiniteSets

CONSTANTS
    Compilers,      \* identities under which compile processes run
    Readers,        \* serve sessions and one-shot queries
    Args,           \* compile command lines that share one --db
    Files,          \* source files a compile reads
    Listed,         \* those that the fingerprint stamps (arguments, -f lists)
    Inodes,         \* storage for database files
    Envelope(_),    \* size and header bytes of a database, as metadata keeps them
    None,           \* no file, no process, no lock owner
    Partial,        \* the contents of a file whose writer has not closed it
    Foreign,        \* metadata in an older format, without an envelope
    MaxRuns,        \* bound: compile processes started
    MaxEdits,       \* bound: edits of source files
    MaxKills        \* bound: compile or guardian processes killed

ASSUME ConstantsAssumption ==
    /\ Listed \subseteq Files
    /\ None \notin Compilers \cup Inodes
    /\ MaxRuns \in Nat /\ MaxEdits \in Nat /\ MaxKills \in Nat

Versions == 0 .. MaxEdits

Contents == [args : Args, read : [Files -> Versions]]

Envelopes == {Envelope(d) : d \in Contents}

(* Metadata as Publish writes it: a fingerprint followed by an envelope.   *)
Certificates == [args : Args, stamp : [Listed -> Versions], env : Envelopes]

ASSUME TokensAssumption ==
    /\ {None, Partial} \cap Contents = {}
    /\ {None, Foreign, Partial} \cap Certificates = {}
    /\ None # Foreign /\ None # Partial

VARIABLES
    src,        \* version (modification time) of every source file
    data,       \* what each inode holds
    db,         \* <db>: the inode the name leads to
    meta,       \* <db>.meta
    stageDb,    \* .rtl_trace_stage_*.db.tmp
    stageMeta,  \* .rtl_trace_stage_*.meta.tmp
    sidecar,    \* does <db>.lock exist
    ex,         \* whose open file description holds LOCK_EX on it
    shared,     \* the compilers that hold LOCK_SH on it
    pc,         \* next step of each compile process
    job,        \* its command line: arguments, --incremental
    todo,       \* source files it has still to stamp or read
    stamp,      \* the modification times in its fingerprint
    seen,       \* the versions it read
    header,     \* cache check: envelope of the database it found
    guardian,   \* state of the guardian forked by each compile process
    opening,    \* reader: inode opened by LoadGraphDb, not validated yet
    mapped,     \* reader: inode its session maps
    lost,       \* auxiliary: the latest writer ran without a live guardian
    runs, edits, kills

sources == <<src, edits>>
files   == <<data, db, meta, stageDb, stageMeta, sidecar>>
locks   == <<ex, shared>>
locals  == <<job, todo, stamp, seen, header>>
readers == <<opening, mapped>>
vars == <<sources, files, locks, locals, readers, pc, guardian, lost, runs, kills>>

-----------------------------------------------------------------------------

(* The steps of a compile between its first flock(LOCK_EX) and the close   *)
(* of the lock descriptor, in the order of the code.                       *)
Building == {"createDb", "createMeta", "elaborate", "write", "describe",
             "invalidate", "renameDb", "renameMeta"}
Holding == {"recover", "guard"} \cup Building \cup
           {"disarm", "reap", "fail", "reapFailed", "sweepDb", "sweepMeta", "release"}
Steps == {"idle", "stamp", "probe", "header", "compare", "hit", "open", "wait"}
         \cup Holding
Guardians == {"none", "watch", "disarmed", "eof", "sweepMeta"}

Complete(i) == i # None /\ data[i] # Partial

(* Mutant: the fingerprint is taken when it is used, not before the build. *)
LateFingerprint(c) == [args |-> job[c].args, stamp |-> [f \in Listed |-> src[f]]]
Fingerprint(c) == [args |-> job[c].args, stamp |-> stamp[c]]
Certificate(fp, env) == [args |-> fp.args, stamp |-> fp.stamp, env |-> env]

Goto(c, from, to) == pc[c] = from /\ pc' = [pc EXCEPT ![c] = to]

(* Mutant: a lock of the process, which the guardian does not inherit.     *)
CompilerUnlocks(c) == ex' = IF ex = c THEN None ELSE ex

(* Mutant: the guardian never closes the descriptor it inherited.          *)
GuardianKeepsLock(c) == ex' = ex

(* A lock belongs to an open file description: the guardian inherits the   *)
(* compiler's, so the lock is free once both have closed it.               *)
CompilerCloses(c) ==
    ex' = IF ex = c /\ guardian[c] = "none" THEN None ELSE ex
GuardianCloses(c) ==
    ex' = IF ex = c /\ pc[c] \notin Holding THEN None ELSE ex

(* The memory of a process goes with it.                                   *)
Blank == [job |-> [args |-> None, incremental |-> FALSE],
          stamp |-> [f \in Listed |-> 0], seen |-> [f \in Files |-> 0]]
Exits(c) ==
    /\ pc' = [pc EXCEPT ![c] = "idle"]
    /\ job' = [job EXCEPT ![c] = Blank.job]
    /\ todo' = [todo EXCEPT ![c] = {}]
    /\ stamp' = [stamp EXCEPT ![c] = Blank.stamp]
    /\ seen' = [seen EXCEPT ![c] = Blank.seen]
    /\ header' = [header EXCEPT ![c] = None]

Unreferenced ==
    Inodes \ ({db, stageDb} \cup {mapped[r] : r \in Readers} \cup {opening[r] : r \in Readers})

-----------------------------------------------------------------------------

(* A user saves a source file.                                             *)
Edit(f) ==
    /\ edits < MaxEdits
    /\ src' = [src EXCEPT ![f] = @ + 1]
    /\ edits' = edits + 1
    /\ UNCHANGED <<files, locks, locals, readers, pc, guardian, lost, runs, kills>>

(* A compile process starts; its command line selects the sources and      *)
(* whether the cache may answer.                                           *)
Start(c) ==
    /\ runs < MaxRuns
    /\ Goto(c, "idle", "stamp")
    /\ \E a \in Args, incremental \in BOOLEAN :
         job' = [job EXCEPT ![c] = [args |-> a, incremental |-> incremental]]
    /\ todo' = [todo EXCEPT ![c] = Listed]
    /\ runs' = runs + 1
    /\ UNCHANGED <<sources, files, locks, readers, stamp, seen, header, guardian, lost, kills>>

(* ComputeCompileFingerprint takes one modification time after another.    *)
StampFile(c, f) ==
    /\ pc[c] = "stamp" /\ f \in todo[c]
    /\ stamp' = [stamp EXCEPT ![c][f] = src[f]]
    /\ todo' = [todo EXCEPT ![c] = @ \ {f}]
    /\ UNCHANGED <<sources, files, locks, readers, pc, job, seen, header, guardian, lost, runs, kills>>

(* With --incremental the cache is asked first, otherwise Prepare begins.  *)
Stamped(c) ==
    /\ todo[c] = {}
    /\ Goto(c, "stamp", IF job[c].incremental THEN "probe" ELSE "open")
    /\ UNCHANGED <<sources, files, locks, locals, readers, guardian, lost, runs, kills>>

-----------------------------------------------------------------------------
(* GraphCompileCacheHit                                                    *)

(* AcquireShared does not create the sidecar: a missing one is a miss.     *)
ProbeMiss(c) ==
    /\ ~sidecar
    /\ Goto(c, "probe", "open")
    /\ UNCHANGED <<sources, files, locks, locals, readers, guardian, lost, runs, kills>>

ProbeLock(c) ==
    /\ sidecar /\ ex = None
    /\ Goto(c, "probe", "header")
    /\ shared' = shared \cup {c}
    /\ UNCHANGED <<sources, files, ex, locals, readers, guardian, lost, runs, kills>>

(* ReadCacheHeader of the database the name leads to.  An absent file or   *)
(* one without a valid header is a miss.                                   *)
ReadHeader(c) ==
    /\ \/ /\ Complete(db)
          /\ Goto(c, "header", "compare")
          /\ header' = [header EXCEPT ![c] = Envelope(data[db])]
          /\ UNCHANGED shared
       \/ /\ ~Complete(db)
          /\ Goto(c, "header", "open")
          /\ shared' = shared \ {c}
          /\ UNCHANGED header
    /\ UNCHANGED <<sources, files, ex, job, todo, stamp, seen, readers, guardian, lost, runs, kills>>

(* The metadata must be the fingerprint and that envelope, byte for byte.  *)
CompareMeta(c) ==
    /\ Goto(c, "compare",
            IF meta = Certificate(Fingerprint(c), header[c]) THEN "hit" ELSE "open")
    /\ shared' = shared \ {c}
    /\ header' = [header EXCEPT ![c] = None]
    /\ UNCHANGED <<sources, files, ex, job, todo, stamp, seen, readers, guardian, lost, runs, kills>>

(* RunCompile returns 0 and leaves the database as it is.                  *)
ReturnHit(c) ==
    /\ pc[c] = "hit"
    /\ Exits(c)
    /\ UNCHANGED <<sources, files, locks, readers, guardian, lost, runs, kills>>

-----------------------------------------------------------------------------
(* AtomicGraphOutput::Prepare                                              *)

(* ScopedFileLock::Acquire opens the sidecar, creating it ...              *)
OpenSidecar(c) ==
    /\ Goto(c, "open", "wait")
    /\ sidecar' = TRUE
    /\ UNCHANGED <<sources, data, db, meta, stageDb, stageMeta, locks, locals, readers,
                   guardian, lost, runs, kills>>

(* Mutant: writers share the lock and exclude cache checks only.           *)
AcquireForWriting(c) ==
    /\ shared = {}
    /\ Goto(c, "wait", "recover")
    /\ ex' = c
    /\ UNCHANGED <<sources, files, shared, locals, readers, guardian, lost, runs, kills>>

(* ... and blocks in flock(LOCK_EX).                                       *)
AcquireExclusive(c) ==
    /\ ex = None /\ shared = {}
    /\ Goto(c, "wait", "recover")
    /\ ex' = c
    /\ UNCHANGED <<sources, files, shared, locals, readers, guardian, lost, runs, kills>>

(* The sidecar cannot be opened or locked: the compile fails before it     *)
(* has named its staging files, so the destructor removes nothing.         *)
AcquireFails(c) ==
    /\ pc[c] \in {"open", "wait"}
    /\ Exits(c)
    /\ UNCHANGED <<sources, files, locks, readers, guardian, lost, runs, kills>>

(* Both staging names are cleared of what a dead writer left.              *)
RecoverStaging(c) ==
    /\ Goto(c, "recover", "guard")
    /\ stageDb' = None /\ stageMeta' = None
    /\ lost' = FALSE
    /\ UNCHANGED <<sources, data, db, meta, sidecar, locks, locals, readers, guardian, runs, kills>>

(* fork() may fail: a warning, and the compile goes on without a guardian. *)
StartGuardian(c) ==
    /\ Goto(c, "guard", "createDb")
    /\ \/ guardian' = [guardian EXCEPT ![c] = "watch"] /\ UNCHANGED lost
       \/ lost' = TRUE /\ UNCHANGED guardian
    /\ UNCHANGED <<sources, files, locks, locals, readers, runs, kills>>

(* Mutant: an existing database is truncated and written in place.         *)
TruncateDb(c) ==
    /\ Goto(c, "createDb", "createMeta")
    /\ \E i \in IF db = None THEN Unreferenced ELSE {db} :
         /\ stageDb' = i
         /\ data' = [data EXCEPT ![i] = Partial]
    /\ UNCHANGED <<sources, db, meta, stageMeta, sidecar, locks, locals, readers,
                   guardian, lost, runs, kills>>

(* CreateTemporary opens with O_EXCL: the name must be free.               *)
CreateStageDb(c) ==
    /\ Goto(c, "createDb", "createMeta")
    /\ stageDb = None
    /\ \E i \in Unreferenced :
         /\ stageDb' = i
         /\ data' = [data EXCEPT ![i] = Partial]
    /\ UNCHANGED <<sources, db, meta, stageMeta, sidecar, locks, locals, readers,
                   guardian, lost, runs, kills>>

CreateStageMeta(c) ==
    /\ Goto(c, "createMeta", "elaborate")
    /\ stageMeta = None
    /\ stageMeta' = Partial
    /\ todo' = [todo EXCEPT ![c] = Files]
    /\ UNCHANGED <<sources, data, db, meta, stageDb, sidecar, locks, job, stamp, seen, header,
                   readers, guardian, lost, runs, kills>>

-----------------------------------------------------------------------------
(* Elaboration and SaveGraphDb                                             *)

(* The driver reads one source file after another.                         *)
ReadSource(c, f) ==
    /\ pc[c] = "elaborate" /\ f \in todo[c]
    /\ seen' = [seen EXCEPT ![c][f] = src[f]]
    /\ todo' = [todo EXCEPT ![c] = @ \ {f}]
    /\ UNCHANGED <<sources, files, locks, readers, pc, job, stamp, header, guardian, lost, runs, kills>>

Elaborated(c) ==
    /\ todo[c] = {}
    /\ Goto(c, "elaborate", "write")
    /\ UNCHANGED <<sources, files, locks, locals, readers, guardian, lost, runs, kills>>

(* SaveGraphDb fills the staging file and closes it.                       *)
WriteStageDb(c) ==
    /\ Goto(c, "write", "describe")
    /\ stageDb # None
    /\ data' = [data EXCEPT ![stageDb] = [args |-> job[c].args, read |-> seen[c]]]
    /\ UNCHANGED <<sources, db, meta, stageDb, stageMeta, sidecar, locks, locals, readers,
                   guardian, lost, runs, kills>>

-----------------------------------------------------------------------------
(* AtomicGraphOutput::Publish                                              *)

(* The envelope is read back from the completed staging file, and the      *)
(* metadata is written next to it.                                         *)
DescribeStage(c) ==
    /\ Goto(c, "describe", "invalidate")
    /\ Complete(stageDb)
    /\ stageMeta' = Certificate(Fingerprint(c), Envelope(data[stageDb]))
    /\ UNCHANGED <<sources, data, db, meta, stageDb, sidecar, locks, locals, readers,
                   guardian, lost, runs, kills>>

(* Mutant: the old metadata stays until the new one is renamed over it.    *)
KeepMeta(c) ==
    /\ Goto(c, "invalidate", "renameDb")
    /\ UNCHANGED <<sources, files, locks, locals, readers, guardian, lost, runs, kills>>

InvalidateMeta(c) ==
    /\ Goto(c, "invalidate", "renameDb")
    /\ meta' = None
    /\ UNCHANGED <<sources, data, db, stageDb, stageMeta, sidecar, locks, locals, readers,
                   guardian, lost, runs, kills>>

RenameDb(c) ==
    /\ Goto(c, "renameDb", "renameMeta")
    /\ stageDb # None
    /\ db' = stageDb /\ stageDb' = None
    /\ UNCHANGED <<sources, data, meta, stageMeta, sidecar, locks, locals, readers,
                   guardian, lost, runs, kills>>

RenameMeta(c) ==
    /\ Goto(c, "renameMeta", "disarm")
    /\ stageMeta # None
    /\ meta' = stageMeta /\ stageMeta' = None
    /\ UNCHANGED <<sources, data, db, stageDb, sidecar, locks, locals, readers,
                   guardian, lost, runs, kills>>

-----------------------------------------------------------------------------
(* FinishGuardian, the destructor and the guardian                         *)

(* After a publication the guardian is told to do nothing ...              *)
Disarm(c) ==
    /\ Goto(c, "disarm", "reap")
    /\ guardian' = [guardian EXCEPT ![c] = IF @ = "watch" THEN "disarmed" ELSE @]
    /\ UNCHANGED <<sources, files, locks, locals, readers, lost, runs, kills>>

(* ... and after a failure the socket is closed, which it reads as EOF.    *)
Hangup(c) ==
    /\ Goto(c, "fail", "reapFailed")
    /\ guardian' = [guardian EXCEPT ![c] = IF @ = "watch" THEN "eof" ELSE @]
    /\ UNCHANGED <<sources, files, locks, locals, readers, lost, runs, kills>>

(* waitpid: the guardian is gone before the compile goes on.               *)
Reap(c) ==
    /\ guardian[c] = "none"
    /\ \/ Goto(c, "reap", "release")
       \/ Goto(c, "reapFailed", "sweepDb")
    /\ UNCHANGED <<sources, files, locks, locals, readers, guardian, lost, runs, kills>>

SweepStageDb(c) ==
    /\ Goto(c, "sweepDb", "sweepMeta")
    /\ stageDb' = None
    /\ UNCHANGED <<sources, data, db, meta, stageMeta, sidecar, locks, locals, readers,
                   guardian, lost, runs, kills>>

SweepStageMeta(c) ==
    /\ Goto(c, "sweepMeta", "release")
    /\ stageMeta' = None
    /\ UNCHANGED <<sources, data, db, meta, stageDb, sidecar, locks, locals, readers,
                   guardian, lost, runs, kills>>

Release(c) ==
    /\ pc[c] = "release"
    /\ Exits(c)
    /\ CompilerCloses(c)
    /\ UNCHANGED <<sources, files, shared, readers, guardian, lost, runs, kills>>

(* The directory cannot be opened, or a staging name cannot be cleared:    *)
(* there is no guardian yet, and the destructor fares no better.           *)
RecoverFails(c) ==
    /\ Goto(c, "recover", "release")
    /\ stageDb' \in {stageDb, None}
    /\ UNCHANGED <<sources, data, db, meta, stageMeta, sidecar, locks, locals, readers,
                   guardian, lost, runs, kills>>

(* Any later step before the end of the publication can fail: staging that *)
(* cannot be created, a source that does not parse, a full disk, a rename  *)
(* that is refused.                                                        *)
Fail(c) ==
    /\ pc[c] \in Building
    /\ pc' = [pc EXCEPT ![c] = "fail"]
    /\ UNCHANGED <<sources, files, locks, locals, readers, guardian, lost, runs, kills>>

GuardianDisarmed(c) ==
    /\ guardian[c] = "disarmed"
    /\ guardian' = [guardian EXCEPT ![c] = "none"]
    /\ GuardianCloses(c)
    /\ UNCHANGED <<sources, files, shared, locals, readers, pc, lost, runs, kills>>

(* Mutant: the guardian removes only the metadata.                         *)
GuardianSkipsDb(c) ==
    /\ guardian[c] = "eof"
    /\ guardian' = [guardian EXCEPT ![c] = "sweepMeta"]
    /\ UNCHANGED <<sources, files, locks, locals, readers, pc, lost, runs, kills>>

GuardianSweepsDb(c) ==
    /\ guardian[c] = "eof"
    /\ guardian' = [guardian EXCEPT ![c] = "sweepMeta"]
    /\ stageDb' = None
    /\ UNCHANGED <<sources, data, db, meta, stageMeta, sidecar, locks, locals, readers, pc, lost, runs, kills>>

(* Mutant: the guardian exits after the first of the two files.            *)
GuardianSkipsMeta(c) ==
    /\ guardian[c] = "sweepMeta"
    /\ guardian' = [guardian EXCEPT ![c] = "none"]
    /\ GuardianCloses(c)
    /\ UNCHANGED <<sources, files, shared, locals, readers, pc, lost, runs, kills>>

GuardianSweepsMeta(c) ==
    /\ guardian[c] = "sweepMeta"
    /\ guardian' = [guardian EXCEPT ![c] = "none"]
    /\ stageMeta' = None
    /\ GuardianCloses(c)
    /\ UNCHANGED <<sources, data, db, meta, stageDb, sidecar, shared, locals, readers, pc, lost, runs, kills>>

(* SIGKILL of the compiler, at any point.  Its descriptors close: the      *)
(* guardian sees EOF, and keeps the lock it inherited.                     *)
KillCompiler(c) ==
    /\ kills < MaxKills
    /\ pc[c] # "idle"
    /\ Exits(c)
    /\ guardian' = [guardian EXCEPT ![c] = IF @ = "watch" THEN "eof" ELSE @]
    /\ CompilerCloses(c)
    /\ shared' = shared \ {c}
    /\ kills' = kills + 1
    /\ UNCHANGED <<sources, files, readers, lost, runs>>

(* SIGKILL of the guardian.  With the previous action it also makes the    *)
(* SIGKILL of the whole process group.                                     *)
KillGuardian(c) ==
    /\ kills < MaxKills
    /\ guardian[c] # "none"
    /\ guardian' = [guardian EXCEPT ![c] = "none"]
    /\ GuardianCloses(c)
    /\ lost' = TRUE
    /\ kills' = kills + 1
    /\ UNCHANGED <<sources, files, shared, locals, readers, pc, runs>>

-----------------------------------------------------------------------------
(* Readers: LoadGraphDb behind `open`, `reload` and the one-shot commands  *)

ReaderOpen(r) ==
    /\ opening[r] = None /\ db # None
    /\ opening' = [opening EXCEPT ![r] = db]
    /\ UNCHANGED <<sources, files, locks, locals, pc, guardian, lost, mapped, runs, kills>>

(* Mutant: the file is validated, and then mapped by name.                 *)
ReaderReopens(r) ==
    /\ opening[r] # None
    /\ opening' = [opening EXCEPT ![r] = None]
    /\ mapped' = [mapped EXCEPT ![r] = IF Complete(opening[r]) THEN db ELSE @]
    /\ UNCHANGED <<sources, files, locks, locals, pc, guardian, lost, runs, kills>>

(* The opened descriptor is mapped and validated; only a valid file        *)
(* replaces the snapshot of the session.                                   *)
ReaderLoad(r) ==
    /\ opening[r] # None
    /\ opening' = [opening EXCEPT ![r] = None]
    /\ mapped' = [mapped EXCEPT ![r] = IF Complete(opening[r]) THEN opening[r] ELSE @]
    /\ UNCHANGED <<sources, files, locks, locals, pc, guardian, lost, runs, kills>>

ReaderClose(r) ==
    /\ mapped[r] # None /\ opening[r] = None
    /\ mapped' = [mapped EXCEPT ![r] = None]
    /\ UNCHANGED <<sources, files, locks, locals, pc, guardian, lost, opening, runs, kills>>

-----------------------------------------------------------------------------

(* Before the first compile: no database, a database of an older release   *)
(* (no sidecar, metadata without envelope or none), or one that an earlier *)
(* compile published.                                                      *)
Init ==
    /\ src = [f \in Files |-> 0] /\ edits = 0
    /\ \E a \in Args, i \in Inodes :
         LET built == [args |-> a, read |-> [f \in Files |-> 0]]
         IN  /\ data = [j \in Inodes |-> IF j = i THEN built ELSE Partial]
             /\ \/ db = None /\ meta = None /\ sidecar \in BOOLEAN
                \/ db = i /\ meta \in {None, Foreign} /\ sidecar = FALSE
                \/ /\ db = i /\ sidecar = TRUE
                   /\ meta = [args |-> a, stamp |-> [f \in Listed |-> 0], env |-> Envelope(built)]
    /\ stageDb = None /\ stageMeta = None
    /\ ex = None /\ shared = {}
    /\ pc = [c \in Compilers |-> "idle"]
    /\ job = [c \in Compilers |-> Blank.job] /\ todo = [c \in Compilers |-> {}]
    /\ stamp = [c \in Compilers |-> Blank.stamp]
    /\ seen = [c \in Compilers |-> Blank.seen]
    /\ header = [c \in Compilers |-> None]
    /\ guardian = [c \in Compilers |-> "none"]
    /\ opening = [r \in Readers |-> None] /\ mapped = [r \in Readers |-> None]
    /\ lost = FALSE /\ runs = 0 /\ kills = 0

CacheCheck(c) ==
    ProbeMiss(c) \/ ProbeLock(c) \/ ReadHeader(c) \/ CompareMeta(c) \/ ReturnHit(c)

Prepare(c) ==
    \/ OpenSidecar(c) \/ AcquireExclusive(c) \/ RecoverStaging(c)
    \/ StartGuardian(c) \/ CreateStageDb(c) \/ CreateStageMeta(c)

Build(c) ==
    Elaborated(c) \/ WriteStageDb(c) \/ \E f \in Files : ReadSource(c, f)

Publish(c) ==
    DescribeStage(c) \/ InvalidateMeta(c) \/ RenameDb(c) \/ RenameMeta(c)

Finish(c) ==
    Disarm(c) \/ Hangup(c) \/ Reap(c) \/ SweepStageDb(c) \/ SweepStageMeta(c) \/ Release(c)

(* What a compile process does once it runs.                               *)
CompilerStep(c) ==
    \/ Stamped(c) \/ \E f \in Listed : StampFile(c, f)
    \/ CacheCheck(c) \/ Prepare(c) \/ Build(c) \/ Publish(c) \/ Finish(c)

GuardianStep(c) ==
    GuardianDisarmed(c) \/ GuardianSweepsDb(c) \/ GuardianSweepsMeta(c)

Fault(c) == AcquireFails(c) \/ RecoverFails(c) \/ Fail(c) \/ KillCompiler(c) \/ KillGuardian(c)

ReaderStep(r) == ReaderOpen(r) \/ ReaderLoad(r) \/ ReaderClose(r)

Next ==
    \/ \E f \in Files : Edit(f)
    \/ \E c \in Compilers : Start(c) \/ CompilerStep(c) \/ GuardianStep(c) \/ Fault(c)
    \/ \E r \in Readers : ReaderStep(r)

Spec == Init /\ [][Next]_vars

(* A running process is scheduled: its next system call, once possible,    *)
(* is eventually made.  Nothing forces a user to edit, start or kill, nor  *)
(* a call to fail.                                                         *)
FairSpec ==
    Spec /\ \A c \in Compilers : WF_vars(CompilerStep(c)) /\ WF_vars(GuardianStep(c))

-----------------------------------------------------------------------------

TypeOK ==
    /\ src \in [Files -> Versions] /\ edits \in Versions
    /\ data \in [Inodes -> Contents \cup {Partial}]
    /\ db \in Inodes \cup {None} /\ stageDb \in Inodes \cup {None}
    /\ meta \in Certificates \cup {None, Foreign}
    /\ stageMeta \in Certificates \cup {None, Partial}
    /\ sidecar \in BOOLEAN
    /\ ex \in Compilers \cup {None} /\ shared \subseteq Compilers
    /\ pc \in [Compilers -> Steps]
    /\ job \in [Compilers -> [args : Args \cup {None}, incremental : BOOLEAN]]
    /\ todo \in [Compilers -> SUBSET Files]
    /\ stamp \in [Compilers -> [Listed -> Versions]]
    /\ seen \in [Compilers -> [Files -> Versions]]
    /\ header \in [Compilers -> Envelopes \cup {None}]
    /\ guardian \in [Compilers -> Guardians]
    /\ opening \in [Readers -> Inodes \cup {None}]
    /\ mapped \in [Readers -> Inodes \cup {None}]
    /\ lost \in BOOLEAN /\ runs \in Nat /\ kills \in Nat

(* Every database a name or a reader leads to is complete: a reader never  *)
(* observes a partially written database, whatever dies and whenever.      *)
NoPartialDb ==
    /\ db # None => Complete(db)
    /\ \A r \in Readers : /\ opening[r] # None => Complete(opening[r])
                          /\ mapped[r] # None => Complete(mapped[r])

(* A database built from command line a covers a fingerprint when every    *)
(* stamped file was read at that time or later.                            *)
Covers(d, fp) ==
    /\ d.args = fp.args
    /\ \A f \in Listed : fp.stamp[f] <= d.read[f]

(* Metadata is never stale: whenever it certifies anything, it is the      *)
(* database the name leads to, also between the two renames, after a crash *)
(* at any step, and when two databases have the same size and header.      *)
MetaDescribesDb ==
    meta \in Certificates =>
        Complete(db) /\ Covers(data[db], meta) /\ meta.env = Envelope(data[db])

(* The sidecar lock serializes writers, cache checks and the guardians of  *)
(* dead writers, although the guardian of a writer shares its lock.        *)
WritersExclude ==
    \A c, d \in Compilers :
        /\ pc[c] \in Holding =>
             /\ pc[d] \in Holding => c = d
             /\ guardian[d] # "none" => c = d
             /\ pc[d] \notin {"header", "compare"}
        /\ guardian[c] # "none" => guardian[d] = "none" \/ c = d

(* What a writer renames is what it built: no recovery, no sweep and no    *)
(* guardian of another writer ever touches its staging files.              *)
StageIsOwn ==
    \A c \in Compilers :
        LET built == [args |-> job[c].args, read |-> seen[c]] IN
        /\ pc[c] \in {"createMeta", "elaborate", "write", "describe", "invalidate", "renameDb"}
             => stageDb # None
        /\ pc[c] \in {"describe", "invalidate", "renameDb"} => data[stageDb] = built
        /\ pc[c] \in {"invalidate", "renameDb", "renameMeta"}
             => stageMeta = Certificate(Fingerprint(c), Envelope(built))
        /\ pc[c] = "renameMeta" => db # None /\ data[db] = built

(* When nobody holds the lock, staging files remain only if a writer died  *)
(* together with its guardian or never had one.                            *)
StagingConfined ==
    ex = None /\ ~lost => stageDb = None /\ stageMeta = None

(* A cache hit is right about every file the fingerprint stamps: the       *)
(* database is no older than those files were when the check began.        *)
HitIsFresh ==
    [][\A c \in Compilers :
         pc[c] = "compare" /\ pc'[c] = "hit" =>
             Complete(db) /\ Covers(data[db], Fingerprint(c))]_vars

(* A slower compile never replaces a database by one that read an older    *)
(* version of some file: sources are read under the exclusive lock.        *)
DbNeverRegresses ==
    [][db' # db /\ db # None =>
         db' # None /\ \A f \in Files : data[db].read[f] <= data'[db'].read[f]]_vars

(* A session's snapshot is immutable for as long as it is mapped.          *)
SnapshotImmutable ==
    [][\A r \in Readers :
         mapped[r] # None /\ mapped'[r] = mapped[r] => data'[mapped[r]] = data[mapped[r]]]_vars

(* The files, seen as the abstract cell.                                   *)
Holds(i) == IF i = None THEN None ELSE data[i]
Cache == INSTANCE GraphCache WITH
    current <- Holds(db),
    certified <- IF meta \in {None, Foreign} THEN None
                 ELSE [args |-> meta.args, stamp |-> meta.stamp],
    fetched <- [r \in Readers |-> Holds(opening[r])],
    view <- [r \in Readers |-> Holds(mapped[r])]

(* Publication implements the abstract cache: the many files, the crashes  *)
(* and the concurrent compiles are invisible to readers and cache checks.  *)
ImplementsCache == Cache!Spec

(* No writer keeps the lock for ever, also one whose guardian dies, or     *)
(* that dies itself while its guardian cleans up.                          *)
LockIsReleased == \A c \in Compilers : ex = c ~> ex # c

(* Staging files whose writer had a guardian to the end are removed.       *)
StagingIsSwept == (stageDb # None \/ stageMeta # None) ~> (lost \/ (stageDb = None /\ stageMeta = None))

-----------------------------------------------------------------------------
(* The inductive invariant behind the theorems, in four parts.             *)

(* Types, with the bounds that keep versions inside them.                  *)
TypeInv ==
    /\ TypeOK
    /\ \A f \in Files : src[f] <= edits
    /\ \A c \in Compilers :
         /\ pc[c] # "idle" => job[c].args \in Args
         /\ pc[c] = "compare" => header[c] \in Envelopes

(* Nothing was read at a version that does not exist yet.                  *)
VersionInv ==
    /\ \A c \in Compilers :
         /\ \A f \in Listed : stamp[c][f] <= src[f]
         /\ \A f \in Files : seen[c][f] <= src[f]
    /\ \A i \in Inodes : data[i] # Partial => \A f \in Files : data[i].read[f] <= src[f]

(* Who holds the sidecar lock, and what its guardian may be doing.         *)
LockInv ==
    /\ ex # None => shared = {}
    /\ \A c \in Compilers :
         /\ pc[c] \in {"header", "compare"} => c \in shared
         /\ pc[c] \in Holding => ex = c
         /\ guardian[c] # "none" => ex = c
         /\ guardian[c] = "watch" => pc[c] \in Building \cup {"disarm", "fail"}
         /\ pc[c] \in {"recover", "guard", "sweepDb", "sweepMeta", "release"}
              => guardian[c] = "none"
         /\ pc[c] \in Building \cup {"disarm", "fail"} => guardian[c] \in {"none", "watch"}
         /\ pc[c] = "reap" => guardian[c] \in {"none", "disarmed"}

(* The staging files belong to the lock, and the database to nobody.       *)
StageInv ==
    /\ stageDb # None =>
         stageDb # db /\ \A r \in Readers : opening[r] # stageDb /\ mapped[r] # stageDb
    /\ \A c \in Compilers :
         /\ pc[c] \in {"disarm", "reap"} \/ guardian[c] = "disarmed"
              => stageDb = None /\ stageMeta = None
         /\ pc[c] \in {"renameMeta", "sweepMeta"} \/ guardian[c] = "sweepMeta" => stageDb = None
         /\ pc[c] \in {"renameDb", "renameMeta"} => meta = None
         /\ pc[c] \in {"write", "describe", "invalidate", "renameDb", "renameMeta"}
              => todo[c] = {}
         /\ pc[c] \in Building \ {"createDb", "createMeta"} =>
              \A f \in Files \ todo[c] :
                 /\ f \in Listed => stamp[c][f] <= seen[c][f]
                 /\ db # None => data[db].read[f] <= seen[c][f]
         /\ pc[c] \in Building => guardian[c] = "watch" \/ lost
    /\ (stageDb # None \/ stageMeta # None) /\ ~lost =>
         \E c \in Compilers : guardian[c] \in {"watch", "eof", "sweepMeta"}

IInv ==
    /\ TypeInv /\ VersionInv /\ LockInv /\ StageInv
    /\ NoPartialDb /\ StageIsOwn /\ MetaDescribesDb

=============================================================================
