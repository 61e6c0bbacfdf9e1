---------------------- MODULE DurableAppendLog_proofs ----------------------
(***************************************************************************)
(* Compare and append, proved for every number of processes, attempts,     *)
(* crashes, lines and payloads.                                            *)
(*                                                                         *)
(* The argument has two halves.  LeaseInv is about the lease alone: until  *)
(* a live process's lease is taken from it, a process between creating the *)
(* file and unlinking it finds its own file at the path, so there is only  *)
(* one.  LogInv carries that over to the log: the process that has         *)
(* compared and not yet written holds the lease, so what it compared is    *)
(* still the log when it writes.                                           *)
(***************************************************************************)
EXTENDS DurableAppendLog, TLAPS

-----------------------------------------------------------------------------
(* The lease. *)

LeaseTypes ==
    /\ path \in Process \cup {NoFile}
    /\ written \subseteq Process
    /\ alive \subseteq Process
    /\ pc \in [Process -> PcValues]
    /\ attempt \in [Process -> 0 .. Attempts]
    /\ stolen \in BOOLEAN

InLoop == {"open", "created", "asserted", "exists", "stale"}
WithinAttempts == \A p \in Process : pc[p] \in InLoop => attempt[p] < Attempts

OwnsFile == {"created", "asserted", "held", "unlink"}
FilesAtPath == \A p \in alive : pc[p] \in OwnsFile => path = p

LeaseInv == LeaseTypes /\ WithinAttempts /\ (~stolen => FilesAtPath)

(* Before anything has happened the lease is free and nobody wants it.     *)
LEMMA LeaseInitInv == LeaseInit => LeaseInv
<1> SUFFICES ASSUME LeaseInit PROVE LeaseInv
  OBVIOUS
<1>1. LeaseTypes
  <2>1. pc \in [Process -> PcValues]
    BY DEF LeaseInit, PcValues
  <2>2. attempt \in [Process -> 0 .. Attempts]
    <3>1. 0 \in 0 .. Attempts
      BY ProcessLeaseAssumption
    <3> QED
      BY <3>1 DEF LeaseInit
  <2> QED
    BY <2>1, <2>2 DEF LeaseInit, LeaseTypes
<1>2. \A p \in Process : pc[p] \notin InLoop /\ pc[p] \notin OwnsFile
  BY DEF LeaseInit, InLoop, OwnsFile
<1> QED
  BY <1>1, <1>2 DEF LeaseInv, WithinAttempts, FilesAtPath, LeaseTypes

(* Every step of the lease keeps the types.                                *)
LEMMA LeaseStepTypes ==
  ASSUME LeaseInv, NEW p \in Process,
         Start(p) \/ Acquire(p) \/ Release(p) \/ Recall(p) \/ Crash(p)
  PROVE  LeaseTypes' /\ WithinAttempts'
<1> USE ProcessLeaseAssumption DEF LeaseInv, LeaseTypes, WithinAttempts, PcValues, InLoop, Goto
<1>1. CASE Start(p)
  BY <1>1 DEF Start
<1>2. CASE Create(p)
  BY <1>2 DEF Create
<1>3. CASE FindExisting(p)
  BY <1>3 DEF FindExisting
<1>4. CASE AssertCreated(p)
  BY <1>4 DEF AssertCreated
<1>5. CASE WriteRecord(p)
  BY <1>5 DEF WriteRecord
<1>6. CASE WriteRecordFails(p)
  BY <1>6 DEF WriteRecordFails
<1>7. CASE ReadExisting(p)
  BY <1>7 DEF ReadExisting
<1>8. CASE Quarantine(p)
  <2>1. attempt[p] + 1 \in 0 .. Attempts
    BY <1>8 DEF Quarantine
  <2>2. attempt' \in [Process -> 0 .. Attempts] /\ attempt'[p] = attempt[p] + 1
    BY <1>8, <2>1 DEF Quarantine
  <2>3. \A q \in Process : q # p => attempt'[q] = attempt[q] /\ pc'[q] = pc[q]
    BY <1>8 DEF Quarantine
  <2>4. pc' \in [Process -> PcValues]
    BY <1>8 DEF Quarantine
  <2>5. pc'[p] = IF attempt[p] + 1 < Attempts THEN "open" ELSE "failed"
    BY <1>8 DEF Quarantine
  <2>6. WithinAttempts'
    BY <2>2, <2>3, <2>5
  <2>7. path' \in Process \cup {NoFile} /\ stolen' \in BOOLEAN
        /\ written' \subseteq Process /\ alive' \subseteq Process
    <3>1. CASE path = NoFile
      BY <1>8, <3>1 DEF Quarantine
    <3>2. CASE path # NoFile
      BY <1>8, <3>2 DEF Quarantine, TakeAway
    <3> QED
      BY <3>1, <3>2
  <2> QED
    BY <2>2, <2>4, <2>6, <2>7
<1>9. CASE CheckOwnership(p)
  BY <1>9 DEF CheckOwnership
<1>10. CASE Unlink(p)
  BY <1>10 DEF Unlink, TakeAway
<1>11. CASE Recall(p)
  BY <1>11 DEF Recall
<1>12. CASE Crash(p)
  BY <1>12 DEF Crash
<1> QED
  BY <1>1, <1>2, <1>3, <1>4, <1>5, <1>6, <1>7, <1>8, <1>9, <1>10, <1>11, <1>12
  DEF Acquire, Release

(* While nothing is stolen, a live process's file stays at the path until   *)
(* that process removes it: whoever takes another's file steals it.        *)
LEMMA LeaseStepFiles ==
  ASSUME LeaseInv, NEW p \in Process,
         Start(p) \/ Acquire(p) \/ Release(p) \/ Recall(p) \/ Crash(p)
  PROVE  ~stolen' => ~stolen /\ FilesAtPath'
<1> USE ProcessLeaseAssumption DEF LeaseInv, LeaseTypes, FilesAtPath, OwnsFile, Goto
<1>1. CASE Start(p)
  BY <1>1 DEF Start
<1>2. CASE Create(p)
  BY <1>2 DEF Create
<1>3. CASE FindExisting(p)
  BY <1>3 DEF FindExisting
<1>4. CASE AssertCreated(p)
  BY <1>4 DEF AssertCreated
<1>5. CASE WriteRecord(p)
  BY <1>5 DEF WriteRecord
<1>6. CASE WriteRecordFails(p)
  BY <1>6 DEF WriteRecordFails
<1>7. CASE ReadExisting(p)
  BY <1>7 DEF ReadExisting
<1>8. CASE Quarantine(p)
  BY <1>8 DEF Quarantine, TakeAway
<1>9. CASE CheckOwnership(p)
  BY <1>9 DEF CheckOwnership
<1>10. CASE Unlink(p)
  BY <1>10 DEF Unlink, TakeAway
<1>11. CASE Recall(p)
  BY <1>11 DEF Recall
<1>12. CASE Crash(p)
  BY <1>12 DEF Crash
<1> QED
  BY <1>1, <1>2, <1>3, <1>4, <1>5, <1>6, <1>7, <1>8, <1>9, <1>10, <1>11, <1>12
  DEF Acquire, Release

(* No step of the lease leaves the invariant.                              *)
LEMMA LeaseInductive == LeaseInv /\ [Next]_leaseVars => LeaseInv'
<1>1. ASSUME LeaseInv, Next PROVE LeaseInv'
  BY <1>1, LeaseStepTypes, LeaseStepFiles DEF Next, LeaseInv
<1>2. ASSUME LeaseInv, UNCHANGED leaseVars PROVE LeaseInv'
  BY <1>2 DEF LeaseInv, LeaseTypes, WithinAttempts, FilesAtPath, leaseVars
<1> QED
  BY <1>1, <1>2

(* For any number of runners, attempts and crashes: an acquisition ends     *)
(* within its attempts, and two live processes both believe they hold the  *)
(* lease only after one of them had its file taken from the path alive.    *)
THEOREM LeaseTheorem == Spec => [](LeaseTypeOK /\ (~stolen => MutualExclusion))
<1>1. LeaseInv => LeaseTypeOK
  BY DEF LeaseInv, LeaseTypes, WithinAttempts, InLoop, LeaseTypeOK
<1>2. LeaseInv => (~stolen => MutualExclusion)
  BY DEF LeaseInv, FilesAtPath, OwnsFile, MutualExclusion, Holder
<1> QED
  BY <1>1, <1>2, LeaseInitInv, LeaseInductive, PTL DEF Spec

-----------------------------------------------------------------------------
(* What a log says after a write. *)

Lines == Seq(Records \cup {Garbage})

(* A log with one more line can be read exactly when the log could and the *)
(* line chains to it (the loop of parseLog).                               *)
LEMMA ValidAppend ==
  ASSUME NEW log \in Lines, NEW x \in Records \cup {Garbage}
  PROVE  /\ Append(log, x) \in Lines
         /\ Len(Append(log, x)) = Len(log) + 1
         /\ Latest(Append(log, x)) = x.payload
         /\ \A i \in DOMAIN log : Append(log, x)[i] = log[i]
         /\ Append(log, x)[Len(log) + 1] = x
         /\ Valid(Append(log, x)) <=>
                /\ Valid(log)
                /\ x # Garbage /\ x.sequence = Len(log) /\ x.previous = Latest(log)
<1> DEFINE new == Append(log, x)
<1>1. new \in Lines /\ Len(new) = Len(log) + 1 /\ new[Len(log) + 1] = x
      /\ new # <<>> /\ DOMAIN new = 1 .. Len(log) + 1 /\ DOMAIN log = 1 .. Len(log)
      /\ Len(log) \in Nat
  BY DEF Lines
<1>2. \A i \in DOMAIN log : new[i] = log[i]
  BY DEF Lines
<1>3. Latest(new) = x.payload
  BY <1>1 DEF Latest, Last
<1>4. Latest(log) = IF Len(log) = 0 THEN 0 ELSE log[Len(log)].payload
  BY DEF Latest, Last, Lines
<1> DEFINE n == Len(log)
           Chained(l, i) == /\ l[i] # Garbage
                            /\ l[i].sequence = i - 1
                            /\ l[i].previous = IF i = 1 THEN 0 ELSE l[i - 1].payload
<1>5. Valid(log) <=> \A i \in 1 .. n : Chained(log, i)
  BY <1>1 DEF Valid
<1>6. Valid(new) <=> \A i \in 1 .. n + 1 : Chained(new, i)
  BY <1>1 DEF Valid
<1>7. \A i \in 1 .. n : Chained(new, i) <=> Chained(log, i)
  BY <1>1, <1>2
<1>8. Chained(new, n + 1) <=>
        x # Garbage /\ x.sequence = n /\ x.previous = Latest(log)
  <2>1. new[n + 1] = x /\ n + 1 - 1 = n /\ n \in Nat
    BY <1>1
  <2>2. CASE n = 0
    <3>1. Latest(log) = 0 /\ n + 1 = 1
      BY <2>2, <1>4
    <3> QED
      BY <2>1, <3>1
  <2>3. CASE n # 0
    <3>1. n \in DOMAIN log /\ n + 1 # 1
      BY <2>1, <2>3, <1>1
    <3>2. new[n + 1 - 1] = log[n]
      BY <2>1, <3>1, <1>2
    <3>3. Latest(log) = log[n].payload
      BY <2>3, <1>4
    <3> HIDE DEF new
    <3> QED
      BY <2>1, <3>1, <3>2, <3>3
  <2> QED
    BY <2>2, <2>3
<1>9. 1 .. n + 1 = (1 .. n) \cup {n + 1}
  BY <1>1
<1> HIDE DEF Chained
<1>10. Valid(new) <=> Valid(log) /\ Chained(new, n + 1)
  BY <1>5, <1>6, <1>7, <1>9
<1> QED
  BY <1>1, <1>2, <1>3, <1>8, <1>10

(* A checkpoint is a log of one record that chains to nothing.             *)
LEMMA ValidCheckpoint ==
  ASSUME NEW v \in Nat
  PROVE  LET log == <<Record(0, 0, v)>>
         IN  /\ log \in Lines /\ Len(log) = 1 /\ Latest(log) = v
             /\ (\A i \in DOMAIN log : log[i] # Garbage) => Valid(log)
<1> DEFINE r == Record(0, 0, v)
<1>1. r \in Records /\ r.sequence = 0 /\ r.previous = 0 /\ r.payload = v
  BY DEF Record, Records
<1> HIDE DEF r
<1>2. <<r>> \in Lines /\ Len(<<r>>) = 1 /\ <<r>> # <<>> /\ <<r>>[1] = r /\ DOMAIN <<r>> = {1}
  BY <1>1 DEF Lines
<1>3. Latest(<<r>>) = v
  BY <1>1, <1>2 DEF Latest, Last
<1>4. (\A i \in DOMAIN <<r>> : <<r>>[i] # Garbage) => Valid(<<r>>)
  BY <1>1, <1>2 DEF Valid
<1> QED
  BY <1>2, <1>3, <1>4 DEF r

(* The latest payload of a log that can be read is a payload.              *)
LEMMA LatestOfReadable ==
  ASSUME NEW log \in Lines, Valid(log)
  PROVE  Latest(log) \in Nat
<1>1. CASE log = <<>>
  BY <1>1 DEF Latest
<1>2. CASE log # <<>>
  <2>1. Len(log) \in DOMAIN log
    BY <1>2 DEF Lines
  <2>2. log[Len(log)] \in Records
    BY <2>1 DEF Valid, Lines
  <2> QED
    BY <1>2, <2>2 DEF Latest, Last, Records
<1> QED
  BY <1>1, <1>2

-----------------------------------------------------------------------------
(* The log under the lease. *)

LogTypes ==
    /\ lines \in Lines
    /\ torn \in BOOLEAN
    /\ version \in 0 .. MaxVersions
    /\ job \in [Process -> Jobs]
    /\ expected \in [Process -> 0 .. MaxVersions]
    /\ contents \in [Process -> 0 .. MaxVersions]
    /\ sequence \in [Process -> Nat]
    /\ committed \in 0 .. MaxVersions

UnderLease == {"append", "checkpoint", "verify"}
WritesUnderLease == \A p \in alive : job[p] \in UnderLease => pc[p] = "held"

(* Payloads grow: the log holds none that was never submitted, and a       *)
(* caller's is newer than what it was derived from.                        *)
PayloadsGrow ==
    /\ Readable => Latest(lines) <= version
    /\ \A p \in Process :
        /\ contents[p] <= version
        /\ job[p] # "rest" => expected[p] < contents[p]

(* What a process compared is still the log when it comes to write.        *)
ToWrite == {"append", "checkpoint"}
StillCompared ==
    \A p \in alive : job[p] \in ToWrite =>
        /\ Readable
        /\ Latest(lines) = expected[p]
        /\ sequence[p] = Len(lines)
        /\ job[p] = "append" => Fits

LinesFit == Len(lines) <= MaxLines

Sound == (~stolen => StillCompared /\ LinesFit) /\ OnlyTornTailsBreakChain

LogInv == LeaseInv /\ LogTypes /\ WritesUnderLease /\ PayloadsGrow /\ Sound

(* An empty log that nobody uses satisfies the invariant.                  *)
LEMMA InitLogInv == Init => LogInv
<1> SUFFICES ASSUME Init PROVE LogInv
  OBVIOUS
<1> USE DurableAppendLogAssumption
<1>1. LeaseInv
  BY LeaseInitInv DEF Init
<1>2. LogTypes
  <2>1. 0 \in 0 .. MaxVersions /\ 0 \in Nat /\ "rest" \in Jobs /\ <<>> \in Lines
    BY DEF Jobs, Lines
  <2> QED
    BY <2>1 DEF Init, LogTypes
<1>3. Latest(lines) = 0 /\ Readable /\ Len(lines) = 0
  BY DEF Init, Latest, Readable, Valid
<1>4. \A p \in Process : job[p] = "rest" /\ contents[p] = 0
  BY DEF Init
<1>5. alive \subseteq Process /\ version = 0 /\ committed = 0
  BY DEF Init, LeaseInit
<1> QED
  BY <1>1, <1>2, <1>3, <1>4, <1>5
  DEF LogInv, WritesUnderLease, UnderLease, PayloadsGrow, Sound, StillCompared, ToWrite,
      LinesFit, OnlyTornTailsBreakChain

(* Every step of the log is a step of the lease, or none: the log uses the *)
(* lease as acquireProcessLease and release() allow.                       *)
LEMMA LogStepIsLeaseStep == [AppendNext]_vars => [Next]_leaseVars
<1>1. ASSUME NEW p \in Process, ReadLatest(p) \/ CheckUnchanged(p) \/ AppendRecord(p)
             \/ AppendFails(p) \/ ReplaceWithCheckpoint(p) \/ Verify(p)
      PROVE  UNCHANGED leaseVars
  BY <1>1 DEF ReadLatest, CheckUnchanged, AppendRecord, AppendFails,
              ReplaceWithCheckpoint, Verify
<1>2. ASSUME NEW p \in Process, TakeLease(p) \/ LeaveLease(p) \/ Throw(p)
             \/ CrashInWrite(p) \/ CrashElsewhere(p)
      PROVE  Next
  BY <1>2 DEF TakeLease, LeaveLease, Throw, CrashInWrite, CrashElsewhere, Next
<1>3. UNCHANGED vars => UNCHANGED leaseVars
  BY DEF vars
<1> QED
  BY <1>1, <1>2, <1>3 DEF AppendNext, AppendStep

(* What a step of another process leaves of this one's place in the lease. *)
LEMMA OthersStay ==
  ASSUME LeaseInv, NEW p \in Process, NEW q \in Process, q # p,
         Start(p) \/ Acquire(p) \/ Release(p) \/ Recall(p) \/ Crash(p)
  PROVE  pc'[q] = pc[q]
  BY DEF LeaseInv, LeaseTypes, Start, Acquire, Release, Recall, Crash, Create, FindExisting,
         AssertCreated, WriteRecord, WriteRecordFails, ReadExisting, Quarantine,
         CheckOwnership, Unlink, Goto

(* A process that is dead stays dead.                                      *)
LEMMA NobodyRises ==
  ASSUME NEW p \in Process,
         Start(p) \/ Acquire(p) \/ Release(p) \/ Recall(p) \/ Crash(p)
  PROVE  alive' \subseteq alive
  BY DEF Start, Acquire, Release, Recall, Crash, Create, FindExisting,
         AssertCreated, WriteRecord, WriteRecordFails, ReadExisting, Quarantine,
         CheckOwnership, Unlink

(* Only one live process is between its comparison and its release.        *)
LEMMA Alone ==
  ASSUME LogInv, ~stolen, NEW p \in alive, NEW q \in alive,
         job[p] \in UnderLease, job[q] \in UnderLease
  PROVE  p = q
  BY DEF LogInv, LeaseInv, FilesAtPath, OwnsFile, WritesUnderLease

(* The line a process writes: its record, or no record behind a torn tail. *)
LEMMA LineWritten ==
  ASSUME LogInv, NEW p \in Process, WriteLine(p)
  PROVE  /\ lines' \in Lines /\ torn' = FALSE
         /\ Len(lines') = Len(lines) + 1
         /\ Readable' => Readable /\ ~torn /\ Latest(lines') = contents[p]
         /\ /\ \A i \in DOMAIN lines' : lines'[i] # Garbage
            /\ Readable
            /\ sequence[p] = Len(lines)
            /\ expected[p] = Latest(lines)
            => Readable'
         /\ (\A i \in DOMAIN lines' : lines'[i] # Garbage) =>
                ~torn /\ \A i \in DOMAIN lines : lines[i] # Garbage
<1> DEFINE r == Record(sequence[p], expected[p], contents[p])
           x == IF torn THEN Garbage ELSE r
<1>1. r \in Records /\ r.sequence = sequence[p] /\ r.previous = expected[p]
      /\ r.payload = contents[p]
  BY DEF Record, Records, LogInv, LogTypes
<1>2. x \in Records \cup {Garbage} /\ lines \in Lines /\ torn \in BOOLEAN
  BY <1>1 DEF LogInv, LogTypes
<1>3. lines' = Append(lines, x) /\ torn' = FALSE
  BY DEF WriteLine
<1> HIDE DEF x, r
<1>4. /\ lines' \in Lines /\ Len(lines') = Len(lines) + 1
      /\ Latest(lines') = x.payload
      /\ \A i \in DOMAIN lines : lines'[i] = lines[i]
      /\ lines'[Len(lines) + 1] = x
      /\ Valid(lines') <=> /\ Valid(lines)
                           /\ x # Garbage /\ x.sequence = Len(lines) /\ x.previous = Latest(lines)
  BY <1>2, <1>3, ValidAppend
<1>5. Readable' <=> Valid(lines')
  BY DEF Readable
<1>6. torn => x = Garbage
  BY DEF x
<1>7. ~torn => x = r
  BY DEF x
<1>8. DOMAIN lines' = 1 .. Len(lines) + 1 /\ DOMAIN lines = 1 .. Len(lines)
      /\ Len(lines) \in Nat
  BY <1>2, <1>4 DEF Lines
<1>9. (\A i \in DOMAIN lines' : lines'[i] # Garbage) =>
         x # Garbage /\ \A i \in DOMAIN lines : lines[i] # Garbage
  BY <1>4, <1>8
<1> QED
  BY <1>1, <1>2, <1>3, <1>4, <1>5, <1>6, <1>7, <1>9 DEF Readable

(* Every step keeps the types of the log.                                  *)
LEMMA StepLogTypes ==
  ASSUME LogInv, NEW p \in Process,
         ReadLatest(p) \/ AppendStep(p) \/ CrashInWrite(p) \/ CrashElsewhere(p)
  PROVE  LogTypes'
<1> USE DurableAppendLogAssumption DEF LogInv, LogTypes, Jobs, Submit
<1>1. CASE ReadLatest(p)
  <2>1. Latest(lines) \in 0 .. MaxVersions
    BY <1>1, LatestOfReadable DEF ReadLatest, PayloadsGrow, Readable
  <2>2. version + 1 \in 0 .. MaxVersions
    BY <1>1 DEF ReadLatest
  <2> QED
    BY <1>1, <2>1, <2>2 DEF ReadLatest, logVars
<1>2. CASE TakeLease(p)
  BY <1>2 DEF TakeLease, logVars, jobVars
<1>3. CASE CheckUnchanged(p)
  <2>1. AfterComparison(p) \in Jobs /\ Len(lines) \in Nat
    BY DEF AfterComparison, Place, Lines
  <2> QED
    BY <1>3, <2>1 DEF CheckUnchanged, logVars
<1>4. CASE AppendRecord(p)
  BY <1>4, LineWritten DEF AppendRecord
<1>5. CASE AppendFails(p)
  BY <1>5, LineWritten DEF AppendFails
<1>6. CASE ReplaceWithCheckpoint(p)
  <2>1. CheckpointOf(p) \in Lines
    BY ValidCheckpoint DEF CheckpointOf
  <2> QED
    BY <1>6, <2>1 DEF ReplaceWithCheckpoint
<1>7. CASE Verify(p)
  BY <1>7 DEF Verify, logVars, jobVars
<1>8. CASE LeaveLease(p)
  BY <1>8 DEF LeaveLease, logVars, jobVars
<1>9. CASE Throw(p)
  BY <1>9 DEF Throw, logVars, jobVars
<1>10. CASE CrashInWrite(p)
  BY <1>10 DEF CrashInWrite, logVars, jobVars
<1>11. CASE CrashElsewhere(p)
  BY <1>11 DEF CrashElsewhere, logVars, jobVars
<1> QED
  BY <1>1, <1>2, <1>3, <1>4, <1>5, <1>6, <1>7, <1>8, <1>9, <1>10, <1>11 DEF AppendStep

(* A process that has compared and not yet released holds the lease.       *)
LEMMA StepUnderLease ==
  ASSUME LogInv, NEW p \in Process,
         ReadLatest(p) \/ AppendStep(p) \/ CrashInWrite(p) \/ CrashElsewhere(p)
  PROVE  WritesUnderLease'
<1> USE DEF LogInv, LogTypes, WritesUnderLease, UnderLease, Submit
<1>0. alive \subseteq Process /\ pc \in [Process -> PcValues]
  BY DEF LeaseInv, LeaseTypes
<1>1. CASE ReadLatest(p)
  BY <1>0, <1>1 DEF ReadLatest, leaseVars, jobVars
<1>2. CASE TakeLease(p)
  <2>1. alive' \subseteq alive /\ \A q \in Process : q # p => pc'[q] = pc[q]
    BY <1>2, OthersStay, NobodyRises DEF TakeLease
  <2>2. job[p] \notin UnderLease /\ job'[p] \notin UnderLease
    BY <1>2, <1>0 DEF TakeLease, jobVars
  <2>3. \A q \in Process : q # p => job'[q] = job[q]
    BY <1>2 DEF TakeLease, jobVars
  <2> QED
    BY <1>0, <2>1, <2>2, <2>3
<1>3. CASE CheckUnchanged(p)
  BY <1>0, <1>3 DEF CheckUnchanged, leaseVars, jobVars
<1>4. CASE AppendRecord(p)
  BY <1>0, <1>4 DEF AppendRecord, leaseVars, jobVars
<1>5. CASE AppendFails(p)
  BY <1>0, <1>5 DEF AppendFails, leaseVars, jobVars
<1>6. CASE ReplaceWithCheckpoint(p)
  BY <1>0, <1>6 DEF ReplaceWithCheckpoint, leaseVars, jobVars
<1>7. CASE Verify(p)
  BY <1>0, <1>7 DEF Verify, leaseVars, jobVars
<1>8. CASE LeaveLease(p)
  <2>1. alive' \subseteq alive /\ \A q \in Process : q # p => pc'[q] = pc[q]
    BY <1>8, OthersStay, NobodyRises DEF LeaveLease
  <2>2. job[p] \notin UnderLease /\ job'[p] \notin UnderLease
    BY <1>8, <1>0 DEF LeaveLease, jobVars
  <2>3. \A q \in Process : q # p => job'[q] = job[q]
    BY <1>8 DEF LeaveLease, jobVars
  <2> QED
    BY <1>0, <2>1, <2>2, <2>3
<1>9. CASE Throw(p)
  <2>1. alive' \subseteq alive /\ \A q \in Process : q # p => pc'[q] = pc[q]
    BY <1>9, OthersStay, NobodyRises DEF Throw
  <2>2. job'[p] \notin UnderLease
    BY <1>9, <1>0 DEF Throw, jobVars, Recall, Goto
  <2>3. \A q \in Process : q # p => job'[q] = job[q]
    BY <1>9 DEF Throw, jobVars
  <2> QED
    BY <1>0, <2>1, <2>2, <2>3
<1>10. CASE CrashInWrite(p)
  BY <1>0, <1>10 DEF CrashInWrite, Crash, jobVars
<1>11. CASE CrashElsewhere(p)
  BY <1>0, <1>11 DEF CrashElsewhere, Crash, jobVars
<1> QED
  BY <1>1, <1>2, <1>3, <1>4, <1>5, <1>6, <1>7, <1>8, <1>9, <1>10, <1>11 DEF AppendStep

(* What is read depends on the lines alone.                                *)
LEMMA SameLog ==
  ASSUME lines' = lines
  PROVE  (Readable' <=> Readable) /\ (Latest(lines))' = Latest(lines)
<1>1. Valid(lines') = Valid(lines) /\ Latest(lines') = Latest(lines)
  OBVIOUS
<1> QED
  BY <1>1 DEF Readable

(* Every step keeps the payloads growing: a caller takes a new one, and    *)
(* writes what it took.                                                    *)
LEMMA StepPayloadsGrow ==
  ASSUME LogInv, NEW p \in Process,
         ReadLatest(p) \/ AppendStep(p) \/ CrashInWrite(p) \/ CrashElsewhere(p)
  PROVE  PayloadsGrow'
<1> USE DurableAppendLogAssumption DEF LogInv, LogTypes, PayloadsGrow, Submit
<1>1. CASE ReadLatest(p)
  <2>1. Latest(lines) \in Nat
    BY LatestOfReadable, <1>1 DEF ReadLatest, Readable
  <2> QED
    BY <1>1, <2>1, SameLog DEF ReadLatest, logVars
<1>2. CASE TakeLease(p)
  BY <1>2, SameLog DEF TakeLease, logVars, jobVars
<1>3. CASE CheckUnchanged(p)
  BY <1>3, SameLog DEF CheckUnchanged, logVars, jobVars
<1>4. CASE AppendRecord(p)
  BY <1>4, LineWritten DEF AppendRecord
<1>5. CASE AppendFails(p)
  <2>1. CASE WriteLine(p)
    BY <1>5, <2>1, LineWritten DEF AppendFails
  <2>2. CASE UNCHANGED lines
    BY <1>5, <2>2, SameLog DEF AppendFails
  <2> QED
    BY <1>5, <2>1, <2>2 DEF AppendFails
<1>6. CASE ReplaceWithCheckpoint(p)
  <2>1. Latest(lines') = contents[p]
    BY <1>6, ValidCheckpoint DEF ReplaceWithCheckpoint, CheckpointOf
  <2> QED
    BY <1>6, <2>1 DEF ReplaceWithCheckpoint
<1>7. CASE Verify(p)
  BY <1>7, SameLog DEF Verify, logVars, jobVars
<1>8. CASE LeaveLease(p)
  BY <1>8, SameLog DEF LeaveLease, logVars, jobVars
<1>9. CASE Throw(p)
  BY <1>9, SameLog DEF Throw, logVars, jobVars
<1>10. CASE CrashInWrite(p)
  BY <1>10, SameLog DEF CrashInWrite, logVars, jobVars
<1>11. CASE CrashElsewhere(p)
  BY <1>11, SameLog DEF CrashElsewhere, logVars, jobVars
<1> QED
  BY <1>1, <1>2, <1>3, <1>4, <1>5, <1>6, <1>7, <1>8, <1>9, <1>10, <1>11 DEF AppendStep

(* A step that leaves the log's lines alone, of a process that will not     *)
(* write next.                                                             *)
LEMMA QuietStep ==
  ASSUME LogInv, NEW p \in Process,
         lines' = lines, alive' \subseteq alive, ~stolen' => ~stolen,
         sequence' = sequence, torn' = torn \/ (p \in alive /\ job[p] = "append"),
         \A q \in Process \ {p} : job'[q] = job[q] /\ expected'[q] = expected[q],
         job'[p] \notin ToWrite \/ p \notin alive',
         Readable => Latest(lines) >= committed' \/ stolen'
  PROVE  Sound'
<1>1. (Readable' <=> Readable) /\ (Latest(lines))' = Latest(lines)
  BY SameLog
<1>2. alive \subseteq Process
  BY DEF LogInv, LeaseInv, LeaseTypes
<1>3. ASSUME ~stolen', NEW q \in alive', job'[q] \in ToWrite
      PROVE  /\ Readable' /\ (Latest(lines) = expected[q])'
             /\ (sequence[q] = Len(lines))' /\ (job[q] = "append" => Fits)'
  <2>1. q # p /\ q \in alive /\ q \in Process
    BY <1>2, <1>3
  <2>2. job'[q] = job[q] /\ expected'[q] = expected[q]
    BY <2>1
  <2>3. /\ Readable /\ Latest(lines) = expected[q] /\ sequence[q] = Len(lines)
        /\ job[q] = "append" => Fits
    BY <1>3, <2>1, <2>2 DEF LogInv, Sound, StillCompared
  <2>4. job[q] = "append" => torn' = torn
    BY <1>3, <2>1, Alone DEF UnderLease
  <2> QED
    BY <1>1, <2>2, <2>3, <2>4 DEF Fits
<1>4. ~stolen' => StillCompared' /\ LinesFit'
  <2>1. ~stolen' => StillCompared'
    BY <1>3 DEF StillCompared
  <2> QED
    BY <2>1 DEF LinesFit, LogInv, Sound
<1>5. OnlyTornTailsBreakChain'
  BY <1>1 DEF OnlyTornTailsBreakChain, LogInv, Sound
<1> QED
  BY <1>4, <1>5 DEF Sound

(* A step that writes, of the one process that has compared.               *)
LEMMA WritingStep ==
  ASSUME LogInv, NEW p \in alive, job[p] \in ToWrite,
         alive' = alive, stolen' = stolen, committed' = committed,
         \A q \in Process \ {p} : job'[q] = job[q],
         job'[p] \notin ToWrite,
         ~stolen => Len(lines') <= MaxLines,
         ~stolen /\ (\A i \in DOMAIN lines' : lines'[i] # Garbage) => Readable',
         ~stolen /\ Readable' => Latest(lines') = contents[p]
  PROVE  Sound'
<1>1. p \in Process /\ alive \subseteq Process
  BY DEF LogInv, LeaseInv, LeaseTypes
<1>2. ~stolen => \A q \in alive : job'[q] \notin ToWrite
  BY <1>1, Alone DEF UnderLease, ToWrite
<1>3. ~stolen' => StillCompared' /\ LinesFit'
  BY <1>2 DEF StillCompared, LinesFit
<1>4. ASSUME ~stolen, Readable' PROVE (Latest(lines))' >= committed'
  <2>1. Readable /\ Latest(lines) = expected[p]
    BY <1>4 DEF LogInv, Sound, StillCompared
  <2>2. expected[p] >= committed
    BY <1>4, <2>1 DEF LogInv, Sound, OnlyTornTailsBreakChain
  <2>3. contents[p] > expected[p]
    BY <1>1 DEF LogInv, PayloadsGrow, ToWrite
  <2>4. contents[p] \in Nat /\ expected[p] \in Nat /\ committed \in Nat
    BY <1>1, DurableAppendLogAssumption DEF LogInv, LogTypes
  <2> QED
    BY <1>4, <2>2, <2>3, <2>4
<1>5. OnlyTornTailsBreakChain'
  BY <1>4 DEF OnlyTornTailsBreakChain
<1> QED
  BY <1>3, <1>5 DEF Sound

(* Every step of the log keeps what was compared true until it is written, *)
(* and the chain whole.                                                    *)
LEMMA StepSound ==
  ASSUME LogInv, NEW p \in Process,
         ReadLatest(p) \/ AppendStep(p) \/ CrashInWrite(p) \/ CrashElsewhere(p)
  PROVE  Sound'
<1>b. /\ alive \subseteq Process /\ job \in [Process -> Jobs] /\ Len(lines) \in Nat
      /\ expected \in [Process -> 0 .. MaxVersions] /\ sequence \in [Process -> Nat]
      /\ contents \in [Process -> 0 .. MaxVersions]
      /\ Readable => Latest(lines) >= committed \/ stolen
      /\ torn \in BOOLEAN /\ stolen \in BOOLEAN /\ MaxLines \in Nat \ {0, 1}
  BY DurableAppendLogAssumption
  DEF LogInv, LogTypes, LeaseInv, LeaseTypes, Sound, OnlyTornTailsBreakChain, Lines
<1>a. [Next]_leaseVars /\ alive' \subseteq alive /\ (~stolen' => ~stolen)
  <2>1. [Next]_leaseVars
    BY LogStepIsLeaseStep DEF AppendNext
  <2>2. CASE Next
    BY <2>2, NobodyRises, LeaseStepFiles DEF Next, LogInv
  <2>3. CASE UNCHANGED leaseVars
    BY <2>3 DEF leaseVars
  <2> QED
    BY <2>1, <2>2, <2>3
<1> USE DEF ToWrite, Submit
<1>1. CASE ReadLatest(p)
  <2>1. /\ UNCHANGED <<lines, torn, sequence>> /\ job'[p] \notin ToWrite
        /\ \A q \in Process \ {p} : job'[q] = job[q] /\ expected'[q] = expected[q]
        /\ torn' = torn \/ (p \in alive /\ job[p] = "append")
    BY <1>b, <1>1 DEF ReadLatest, leaseVars, logVars
  <2>2. Readable => Latest(lines) >= committed' \/ stolen'
    BY <1>b, <1>a, <1>1 DEF ReadLatest, leaseVars, logVars
  <2> QED
    BY <1>a, <2>1, <2>2, QuietStep
<1>2. CASE TakeLease(p)
  <2>1. /\ UNCHANGED <<lines, torn, sequence>> /\ job'[p] \notin ToWrite
        /\ \A q \in Process \ {p} : job'[q] = job[q] /\ expected'[q] = expected[q]
        /\ torn' = torn \/ (p \in alive /\ job[p] = "append")
    BY <1>b, <1>2 DEF TakeLease, logVars, jobVars
  <2>2. Readable => Latest(lines) >= committed' \/ stolen'
    BY <1>b, <1>a, <1>2 DEF TakeLease, logVars, jobVars
  <2> QED
    BY <1>a, <2>1, <2>2, QuietStep
<1>3. CASE CheckUnchanged(p)
  <2>1. UNCHANGED <<lines, torn, stolen, alive, expected, committed>>
    BY <1>3 DEF CheckUnchanged, leaseVars, logVars
  <2>2. job'[p] = AfterComparison(p) /\ sequence'[p] = Len(lines)
        /\ \A q \in Process \ {p} : job'[q] = job[q] /\ sequence'[q] = sequence[q]
    BY <1>b, <1>3 DEF CheckUnchanged
  <2>3. (Readable' <=> Readable) /\ (Latest(lines))' = Latest(lines)
    BY <2>1, SameLog
  <2>4. job'[p] \in ToWrite => /\ Readable /\ Latest(lines) = expected[p]
                               /\ job'[p] = "append" => Fits
    BY <2>2 DEF AfterComparison, Unchanged, Place
  <2>5. ~stolen => StillCompared'
    <3> SUFFICES ASSUME ~stolen, NEW q \in alive', job'[q] \in ToWrite
                 PROVE  /\ Readable' /\ (Latest(lines) = expected[q])'
                        /\ (sequence[q] = Len(lines))' /\ (job[q] = "append" => Fits)'
      BY DEF StillCompared
    <3>1. CASE q = p
      <4>1. Fits' <=> Fits
        BY <2>1 DEF Fits
      <4>2. Readable /\ Latest(lines) = expected[p] /\ (job'[p] = "append" => Fits)
        BY <2>4, <3>1
      <4>3. Readable' /\ (Latest(lines) = expected[p])'
        BY <2>1, <2>3, <4>2
      <4>4. (sequence[p] = Len(lines))'
        BY <2>1, <2>2
      <4> QED
        BY <3>1, <4>1, <4>2, <4>3, <4>4
    <3>2. CASE q # p
      BY <1>b, <2>1, <2>2, <2>3, <3>2 DEF Fits, LogInv, Sound, StillCompared
    <3> QED
      BY <3>1, <3>2
  <2>6. ~stolen => LinesFit'
    BY <2>1 DEF LinesFit, LogInv, Sound
  <2>7. OnlyTornTailsBreakChain'
    BY <2>1, <2>3 DEF OnlyTornTailsBreakChain, LogInv, Sound
  <2> QED
    BY <2>1, <2>5, <2>6, <2>7 DEF Sound
<1>4. CASE AppendRecord(p)
  <2>1. ASSUME WriteLine(p) PROVE Sound'
    <3>1. /\ p \in alive /\ job[p] = "append" /\ job'[p] \notin ToWrite
          /\ UNCHANGED <<alive, stolen, committed>>
          /\ \A q \in Process \ {p} : job'[q] = job[q]
      BY <1>b, <1>4 DEF AppendRecord, leaseVars
    <3>2. ~stolen => Fits /\ Readable /\ Latest(lines) = expected[p] /\ sequence[p] = Len(lines)
      BY <3>1 DEF LogInv, Sound, StillCompared
    <3>3. ~stolen => Len(lines') <= MaxLines
      <4>1. Len(lines') = Len(lines) + 1
        BY <2>1, LineWritten
      <4>2. Fits => Len(lines) < MaxLines
        BY <1>b DEF Fits
      <4> QED
        BY <1>b, <3>2, <4>1, <4>2
    <3>4. ~stolen /\ (\A i \in DOMAIN lines' : lines'[i] # Garbage) => Readable'
      BY <2>1, <3>2, LineWritten
    <3>5. Readable' => Latest(lines') = contents[p]
      BY <2>1, LineWritten
    <3> QED
      BY <3>1, <3>3, <3>4, <3>5, WritingStep
  <2> QED
    BY <1>4, <2>1 DEF AppendRecord
<1>5. CASE AppendFails(p)
  <2>1. ASSUME WriteLine(p) PROVE Sound'
    <3>1. /\ p \in alive /\ job[p] = "append" /\ job'[p] \notin ToWrite
          /\ UNCHANGED <<alive, stolen, committed>>
          /\ \A q \in Process \ {p} : job'[q] = job[q]
      BY <1>b, <1>5 DEF AppendFails, leaseVars
    <3>2. ~stolen => Fits /\ Readable /\ Latest(lines) = expected[p] /\ sequence[p] = Len(lines)
      BY <3>1 DEF LogInv, Sound, StillCompared
    <3>3. ~stolen => Len(lines') <= MaxLines
      <4>1. Len(lines') = Len(lines) + 1
        BY <2>1, LineWritten
      <4>2. Fits => Len(lines) < MaxLines
        BY <1>b DEF Fits
      <4> QED
        BY <1>b, <3>2, <4>1, <4>2
    <3>4. ~stolen /\ (\A i \in DOMAIN lines' : lines'[i] # Garbage) => Readable'
      BY <2>1, <3>2, LineWritten
    <3>5. Readable' => Latest(lines') = contents[p]
      BY <2>1, LineWritten
    <3> QED
      BY <3>1, <3>3, <3>4, <3>5, WritingStep
  <2>2. ASSUME torn' \in {torn, TRUE}, UNCHANGED lines PROVE Sound'
    <3>1. /\ p \in alive /\ job[p] = "append" /\ job'[p] \notin ToWrite
          /\ UNCHANGED <<alive, stolen, committed, expected, sequence>>
          /\ \A q \in Process \ {p} : job'[q] = job[q]
      BY <1>b, <1>5 DEF AppendFails, leaseVars
    <3>2. torn' = torn \/ (p \in alive /\ job[p] = "append")
      BY <3>1
    <3> QED
      BY <1>b, <1>a, <2>2, <3>1, <3>2, QuietStep
  <2> QED
    BY <1>5, <2>1, <2>2 DEF AppendFails
<1>6. CASE ReplaceWithCheckpoint(p)
  <2>1. /\ p \in alive /\ job[p] = "checkpoint" /\ job'[p] \notin ToWrite
        /\ UNCHANGED <<alive, stolen, committed>>
        /\ \A q \in Process \ {p} : job'[q] = job[q]
    BY <1>b, <1>6 DEF ReplaceWithCheckpoint, leaseVars
  <2>2. lines' = <<Record(0, 0, contents[p])>> /\ contents[p] \in Nat
    BY <1>b, <1>6, DurableAppendLogAssumption DEF ReplaceWithCheckpoint, CheckpointOf
  <2>3. Len(lines') <= MaxLines /\ Latest(lines') = contents[p]
    BY <1>b, <2>2, ValidCheckpoint
  <2>4. (\A i \in DOMAIN lines' : lines'[i] # Garbage) => Readable'
    <3>1. (\A i \in DOMAIN lines' : lines'[i] # Garbage) => Valid(lines')
      BY <2>2, ValidCheckpoint
    <3> QED
      BY <3>1 DEF Readable
  <2> QED
    BY <2>1, <2>3, <2>4, WritingStep
<1>7. CASE Verify(p)
  <2>1. /\ UNCHANGED <<lines, torn, sequence>> /\ job'[p] \notin ToWrite
        /\ \A q \in Process \ {p} : job'[q] = job[q] /\ expected'[q] = expected[q]
        /\ torn' = torn \/ (p \in alive /\ job[p] = "append")
    BY <1>b, <1>7 DEF Verify, leaseVars, logVars
  <2>2. Readable => Latest(lines) >= committed' \/ stolen'
    BY <1>b, <1>7 DEF Verify, leaseVars, logVars
  <2> QED
    BY <1>a, <2>1, <2>2, QuietStep
<1>8. CASE LeaveLease(p)
  <2>1. /\ UNCHANGED <<lines, torn, sequence>> /\ job'[p] \notin ToWrite
        /\ \A q \in Process \ {p} : job'[q] = job[q] /\ expected'[q] = expected[q]
        /\ torn' = torn \/ (p \in alive /\ job[p] = "append")
    BY <1>b, <1>8 DEF LeaveLease, logVars
  <2>2. Readable => Latest(lines) >= committed' \/ stolen'
    BY <1>b, <1>a, <1>8 DEF LeaveLease, logVars
  <2> QED
    BY <1>a, <2>1, <2>2, QuietStep
<1>9. CASE Throw(p)
  <2>1. /\ UNCHANGED <<lines, torn, sequence>> /\ job'[p] \notin ToWrite
        /\ \A q \in Process \ {p} : job'[q] = job[q] /\ expected'[q] = expected[q]
        /\ torn' = torn \/ (p \in alive /\ job[p] = "append")
    BY <1>b, <1>9 DEF Throw, logVars
  <2>2. Readable => Latest(lines) >= committed' \/ stolen'
    BY <1>b, <1>a, <1>9 DEF Throw, logVars
  <2> QED
    BY <1>a, <2>1, <2>2, QuietStep
<1>10. CASE CrashInWrite(p)
  <2>1. /\ UNCHANGED <<lines, sequence>> /\ p \notin alive'
        /\ \A q \in Process \ {p} : job'[q] = job[q] /\ expected'[q] = expected[q]
        /\ torn' = torn \/ (p \in alive /\ job[p] = "append")
    BY <1>b, <1>10 DEF CrashInWrite, jobVars, Crash
  <2>2. Readable => Latest(lines) >= committed' \/ stolen'
    BY <1>b, <1>a, <1>10 DEF CrashInWrite, jobVars, Crash
  <2> QED
    BY <1>a, <2>1, <2>2, QuietStep
<1>11. CASE CrashElsewhere(p)
  <2>1. /\ UNCHANGED <<lines, torn, sequence>> /\ p \notin alive'
        /\ \A q \in Process \ {p} : job'[q] = job[q] /\ expected'[q] = expected[q]
        /\ torn' = torn \/ (p \in alive /\ job[p] = "append")
    BY <1>b, <1>11 DEF CrashElsewhere, logVars, jobVars, Crash
  <2>2. Readable => Latest(lines) >= committed' \/ stolen'
    BY <1>b, <1>a, <1>11 DEF CrashElsewhere, logVars, jobVars, Crash
  <2> QED
    BY <1>a, <2>1, <2>2, QuietStep
<1> QED
  BY <1>1, <1>2, <1>3, <1>4, <1>5, <1>6, <1>7, <1>8, <1>9, <1>10, <1>11 DEF AppendStep

(* No step of the log leaves the invariant.                                *)
LEMMA LogInductive == LogInv /\ [AppendNext]_vars => LogInv'
<1>1. ASSUME LogInv, [AppendNext]_vars PROVE LeaseInv'
  BY <1>1, LogStepIsLeaseStep, LeaseInductive DEF LogInv
<1>2. ASSUME LogInv, AppendNext PROVE (LogTypes /\ WritesUnderLease /\ PayloadsGrow /\ Sound)'
  BY <1>2, StepLogTypes, StepUnderLease, StepPayloadsGrow, StepSound DEF AppendNext
<1>3. ASSUME LogInv, UNCHANGED vars PROVE (LogTypes /\ WritesUnderLease /\ PayloadsGrow /\ Sound)'
  <2>1. UNCHANGED <<lines, torn, version, job, expected, contents, sequence, committed,
                    alive, pc, stolen>>
    BY <1>3 DEF vars, leaseVars, logVars, jobVars
  <2>2. (Readable' <=> Readable) /\ (Latest(lines))' = Latest(lines)
    BY <2>1, SameLog
  <2>3. LogTypes'
    BY <1>3, <2>1 DEF LogInv, LogTypes
  <2>6. WritesUnderLease'
    BY <1>3, <2>1 DEF LogInv, WritesUnderLease
  <2>7. PayloadsGrow'
    BY <1>3, <2>1, <2>2 DEF LogInv, PayloadsGrow
  <2>4. StillCompared <=> StillCompared'
    BY <2>1, <2>2 DEF StillCompared, Fits
  <2>5. OnlyTornTailsBreakChain <=> OnlyTornTailsBreakChain'
    BY <2>1, <2>2 DEF OnlyTornTailsBreakChain
  <2> QED
    BY <1>3, <2>1, <2>3, <2>4, <2>5, <2>6, <2>7 DEF LogInv, Sound, LinesFit
<1> QED
  BY <1>1, <1>2, <1>3 DEF LogInv

(* The invariant holds throughout.                                         *)
THEOREM LogInvariant == AppendSpec => []LogInv
  BY InitLogInv, LogInductive, PTL DEF AppendSpec

(* The log uses the lease only as acquireProcessLease and release() allow, *)
(* so whatever is shown of the lease alone holds of the log's lease.       *)
THEOREM LogUsesLease == AppendSpec => Spec
<1>1. Init => LeaseInit
  BY DEF Init
<1> QED
  BY <1>1, LogStepIsLeaseStep, PTL DEF AppendSpec, Spec

(* Every variable keeps its type, and under the lease the file never grows *)
(* beyond its limit.                                                       *)
THEOREM LogTypeCorrect == AppendSpec => []LogTypeOK
<1>1. LogInv => LogTypeOK
  BY DEF LogInv, LogTypes, Lines, Sound, LinesFit, LogTypeOK, LeaseInv, LeaseTypes,
         WithinAttempts, InLoop, LeaseTypeOK
<1> QED
  BY <1>1, LogInvariant, PTL

(* appendUtf8RecordIfUnchanged is atomic for any number of processes that  *)
(* run it at once, however they crash and whatever writes fail: while no   *)
(* lease was taken from a live process, a record only ever follows the one *)
(* its caller derived it from.                                             *)
THEOREM CompareAndAppendAtomic == AppendSpec => CompareAndAppend
<1>1. LogInv /\ [AppendNext]_vars => [FollowsExpected]_vars
  <2> SUFFICES ASSUME LogInv, AppendNext, ~stolen, lines' # lines
               PROVE  \E p \in Process : job[p] # job'[p] /\ expected[p] = Latest(lines)
    BY DEF FollowsExpected
  <2>1. PICK p \in Process : ReadLatest(p) \/ AppendStep(p) \/ CrashInWrite(p) \/ CrashElsewhere(p)
    BY DEF AppendNext
  <2>2. AppendRecord(p) \/ AppendFails(p) \/ ReplaceWithCheckpoint(p)
    BY <2>1 DEF ReadLatest, AppendStep, CrashInWrite, CrashElsewhere, TakeLease, CheckUnchanged,
                Verify, LeaveLease, Throw, logVars
  <2>3. p \in alive /\ job[p] \in ToWrite /\ job'[p] \notin ToWrite
    BY <2>2 DEF AppendRecord, AppendFails, ReplaceWithCheckpoint, Submit, ToWrite, LogInv, LogTypes
  <2>4. expected[p] = Latest(lines)
    BY <2>3 DEF LogInv, Sound, StillCompared
  <2> QED
    BY <2>3, <2>4
<1> QED
  BY <1>1, LogInvariant, PTL DEF AppendSpec, CompareAndAppend

(* While no lease was taken from a live process, only a record written     *)
(* behind a torn tail can break the chain, and a log that can be read has  *)
(* lost no record whose append returned.                                   *)
THEOREM ChainKept == AppendSpec => []OnlyTornTailsBreakChain
<1>1. LogInv => OnlyTornTailsBreakChain
  BY DEF LogInv, Sound
<1> QED
  BY <1>1, LogInvariant, PTL

=============================================================================
