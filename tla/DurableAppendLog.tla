-------------------------- MODULE DurableAppendLog --------------------------
(***************************************************************************)
(* The hash-chained append log under the journals and coordinator state:   *)
(* appendUtf8RecordIfUnchanged and readLatestUtf8Record, run by processes  *)
(* that take the log's own ProcessLease around every append.               *)
(*                                                                         *)
(* A record is its sequence number, the record it is chained to and a      *)
(* payload; payloads are version numbers, each written once, so a payload  *)
(* stands for its digest.  A crash inside a write leaves a torn tail: some *)
(* prefix of the record, without the newline.                              *)
(***************************************************************************)
EXTENDS ProcessLease, Sequences, SequencesExt

CONSTANTS
    Garbage,        \* a line that is no record
    MaxLines,       \* bound: lines in the file, for MAX_LOG_BYTES
    MaxVersions     \* bound: payloads ever submitted

ASSUME DurableAppendLogAssumption ==
    /\ MaxLines \in Nat \ {0, 1}    \* a record fits beside a torn one
    /\ MaxVersions \in Nat

VARIABLES
    lines,      \* the complete lines of the file
    torn,       \* an incomplete line follows them
    version,    \* payloads submitted so far
    job,        \* where each process is in its append
    expected,   \* expectedContents of its append, 0 for undefined
    contents,   \* contents of its append
    sequence,   \* the sequence number its append read for the new record
    committed   \* auxiliary: the last payload an append returned for

logVars == <<lines, torn>>
jobVars == <<job, expected, contents, sequence>>
vars == <<leaseVars, logVars, version, jobVars, committed>>

Init ==
    /\ LeaseInit
    /\ lines = <<>>
    /\ torn = FALSE
    /\ version = 0
    /\ job = [p \in Process |-> "rest"]
    /\ expected = [p \in Process |-> 0]
    /\ contents = [p \in Process |-> 0]
    /\ sequence = [p \in Process |-> 0]
    /\ committed = 0

(* UnchangedUncompared, ConflictRetried and CheckpointKeepsSequence are the *)
(* definitions after them with a slip made: the mutants a property must    *)
(* catch.                                                                  *)
-----------------------------------------------------------------------------
(* parseLog: an incomplete tail is dropped, every complete line must chain. *)

Latest(log) == IF log = <<>> THEN 0 ELSE Last(log).payload

Valid(log) ==
    \A i \in DOMAIN log :
        /\ log[i] # Garbage
        /\ log[i].sequence = i - 1
        /\ log[i].previous = IF i = 1 THEN 0 ELSE log[i - 1].payload

Readable == Valid(lines)

Record(number, previous, payload) ==
    [sequence |-> number, previous |-> previous, payload |-> payload]

Submit(p, to) == job' = [job EXCEPT ![p] = to]

-----------------------------------------------------------------------------
(* The caller reads the latest record, without the lease, and derives the  *)
(* next one from it.                                                       *)
ReadLatest(p) ==
    /\ p \in alive /\ job[p] = "rest" /\ pc[p] = "idle"
    /\ Readable
    /\ version < MaxVersions
    /\ version' = version + 1
    /\ expected' = [expected EXCEPT ![p] = Latest(lines)]
    /\ contents' = [contents EXCEPT ![p] = version + 1]
    /\ Submit(p, "call")
    /\ UNCHANGED <<leaseVars, logVars, sequence, committed>>

TakeLease(p) ==
    /\ job[p] = "call"
    /\ Start(p) \/ Acquire(p)
    /\ UNCHANGED <<logVars, version, jobVars, committed>>

(* Under the lease: the log is read again and must still end in what the   *)
(* caller saw; a full file is replaced by a checkpoint.                    *)
UnchangedUncompared(p) == Readable
Unchanged(p) == Readable /\ Latest(lines) = expected[p]

Fits == Len(lines) + (IF torn THEN 1 ELSE 0) < MaxLines

Place == IF Fits THEN "append" ELSE "checkpoint"
ConflictRetried(p) == IF Unchanged(p) THEN Place ELSE "call"
AfterComparison(p) == IF Unchanged(p) THEN Place ELSE "leave"

CheckUnchanged(p) ==
    /\ p \in alive /\ pc[p] = "held" /\ job[p] = "call"
    /\ Submit(p, AfterComparison(p))
    /\ sequence' = [sequence EXCEPT ![p] = Len(lines)]
    /\ UNCHANGED <<leaseVars, logVars, version, expected, contents, committed>>

(* O_APPEND write and fsync.  What is written joins a torn tail, if there  *)
(* is one, in a single line.                                               *)
WriteLine(p) ==
    /\ lines' = Append(lines, IF torn THEN Garbage
                              ELSE Record(sequence[p], expected[p], contents[p]))
    /\ torn' = FALSE

AppendRecord(p) ==
    /\ p \in alive /\ job[p] = "append"
    /\ WriteLine(p)
    /\ Submit(p, "verify")
    /\ UNCHANGED <<leaseVars, version, expected, contents, sequence, committed>>

CrashInWrite(p) ==
    /\ job[p] = "append"
    /\ Crash(p)
    /\ torn' = TRUE
    /\ UNCHANGED <<lines, version, jobVars, committed>>

(* A write or fsync that throws (a full disk) may have written nothing, a  *)
(* part of the line or all of it.                                          *)
AppendFails(p) ==
    /\ WritesFail
    /\ p \in alive /\ job[p] = "append"
    /\ WriteLine(p) \/ (torn' \in {torn, TRUE} /\ UNCHANGED lines)
    /\ Submit(p, "leave")
    /\ UNCHANGED <<leaseVars, version, expected, contents, sequence, committed>>

(* replaceWithCheckpoint: a temporary file, fsynced and renamed over the   *)
(* log.  A crash before the rename changes nothing.                        *)
CheckpointKeepsSequence(p) == <<Record(sequence[p], 0, contents[p])>>
CheckpointOf(p) == <<Record(0, 0, contents[p])>>

ReplaceWithCheckpoint(p) ==
    /\ p \in alive /\ job[p] = "checkpoint"
    /\ lines' = CheckpointOf(p)
    /\ torn' = FALSE
    /\ Submit(p, "verify")
    /\ UNCHANGED <<leaseVars, version, expected, contents, sequence, committed>>

(* The append reads its record back before it returns.                     *)
Verify(p) ==
    /\ p \in alive /\ job[p] = "verify"
    /\ Submit(p, "leave")
    /\ committed' = IF Readable /\ Latest(lines) = contents[p]
                    THEN contents[p] ELSE committed
    /\ UNCHANGED <<leaseVars, logVars, version, expected, contents, sequence>>

(* finally { lease.release() }, and the end of a call that threw.          *)
LeaveLease(p) ==
    /\ job[p] = "leave" /\ Release(p)
    /\ Submit(p, IF pc'[p] = "idle" THEN "rest" ELSE "leave")
    /\ UNCHANGED <<logVars, version, expected, contents, sequence, committed>>

Throw(p) ==
    /\ Recall(p)
    /\ Submit(p, "rest")
    /\ UNCHANGED <<logVars, version, expected, contents, sequence, committed>>

CrashElsewhere(p) ==
    /\ Crash(p)
    /\ UNCHANGED <<logVars, version, jobVars, committed>>

AppendStep(p) ==
    \/ TakeLease(p) \/ CheckUnchanged(p) \/ AppendRecord(p) \/ AppendFails(p)
    \/ ReplaceWithCheckpoint(p) \/ Verify(p) \/ LeaveLease(p) \/ Throw(p)

AppendNext ==
    \E p \in Process :
        ReadLatest(p) \/ AppendStep(p) \/ CrashInWrite(p) \/ CrashElsewhere(p)

AppendSpec == Init /\ [][AppendNext]_vars

(* A call that has begun goes on. *)
FairAppendSpec == AppendSpec /\ \A p \in Process : WF_vars(AppendStep(p))

-----------------------------------------------------------------------------
(* Properties. *)

Jobs == {"rest", "call", "append", "checkpoint", "verify", "leave"}

Records == [sequence : Nat, previous : Nat, payload : Nat]

(* Every variable has its type, and under the lease the file never grows   *)
(* beyond its limit.                                                       *)
LogTypeOK ==
    /\ LeaseTypeOK
    /\ lines \in Seq(Records \cup {Garbage})
    /\ ~stolen => Len(lines) <= MaxLines
    /\ torn \in BOOLEAN
    /\ version \in 0 .. MaxVersions
    /\ job \in [Process -> Jobs]
    /\ expected \in [Process -> 0 .. MaxVersions]
    /\ contents \in [Process -> 0 .. MaxVersions]
    /\ sequence \in [Process -> Nat]
    /\ committed \in 0 .. MaxVersions

(* Compare and append is one atomic operation although the comparison and  *)
(* the write are steps of a process that others run between: a record only *)
(* ever follows the very record its caller derived it from.                *)
FollowsExpected ==
    ~stolen /\ Readable /\ lines' # lines =>
        \E p \in Process : job[p] # job'[p] /\ expected[p] = Latest(lines)

CompareAndAppend == [][FollowsExpected]_vars

(* Nothing but a torn tail that was written over breaks the hash chain,    *)
(* and while the log can be read it never falls back behind a record whose *)
(* append returned: not through conflicts, crashes or checkpoints.         *)
OnlyTornTailsBreakChain ==
    ~stolen =>
        /\ (\A i \in DOMAIN lines : lines[i] # Garbage) => Readable
        /\ Readable => Latest(lines) >= committed

(* A record whose append returned stays readable after an incomplete tail. *)
CommittedStaysReadable == committed # 0 => Readable /\ Latest(lines) >= committed

(* Every append that has begun returns or throws.                          *)
AppendEnds == \A p \in Process : job[p] = "call" ~> job[p] = "rest" \/ p \notin alive
=============================================================================
