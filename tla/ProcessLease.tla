---------------------------- MODULE ProcessLease ----------------------------
(***************************************************************************)
(* acquireProcessLease and the release() it returns: mutual exclusion      *)
(* between operating-system processes by an exclusively created file.      *)
(* Every synchronous file-system call another process can come between is  *)
(* a step of its own; calls nobody can observe apart are one step.         *)
(*                                                                         *)
(* A process is its pid and never comes back after a crash.  A lease file  *)
(* is named by the process that created it: a process has no second lease  *)
(* while its first is at the path.                                         *)
(***************************************************************************)
EXTENDS FiniteSets, Integers

CONSTANTS
    Process,        \* the runners that contend for the lease
    NoFile,         \* nothing at leasePath
    Attempts,       \* 4 in the code
    MaxCrashes,     \* bound: processes that die
    WritesFail      \* whether writing the record can fail (a full disk)

ASSUME ProcessLeaseAssumption ==
    /\ NoFile \notin Process
    /\ Attempts \in Nat \ {0}
    /\ MaxCrashes \in Nat
    /\ WritesFail \in BOOLEAN

VARIABLES
    path,       \* whose lease file is at leasePath
    written,    \* the processes whose lease file holds its full record
    alive,      \* what process.kill(pid, 0) would find
    pc,         \* where each process is in acquire or release
    attempt,    \* the loop counter of acquireProcessLease
    stolen      \* auxiliary: a live process's lease was taken from the path

leaseVars == <<path, written, alive, pc, attempt, stolen>>

LeaseInit ==
    /\ path = NoFile
    /\ written = {}
    /\ alive = Process
    /\ pc = [p \in Process |-> "idle"]
    /\ attempt = [p \in Process |-> 0]
    /\ stolen = FALSE

Goto(p, from, to) ==
    /\ p \in alive /\ pc[p] = from
    /\ pc' = [pc EXCEPT ![p] = to]

(* The file at the path goes: by its own process, or by another. *)
TakeAway(p) ==
    /\ path' = NoFile
    /\ stolen' = (stolen \/ (path # p /\ path \in alive))

(* UnlinkForgotten is the definition after it with a slip made: the mutant *)
(* a property must catch.  No behaviour of Spec uses it.                   *)
-----------------------------------------------------------------------------
(* The loop of acquireProcessLease. *)

Start(p) ==
    /\ Goto(p, "idle", "open")
    /\ attempt' = [attempt EXCEPT ![p] = 0]
    /\ UNCHANGED <<path, written, alive, stolen>>

(* openSync with O_CREAT | O_EXCL *)
Create(p) ==
    /\ path = NoFile
    /\ Goto(p, "open", "created")
    /\ path' = p
    /\ written' = written \ {p}
    /\ UNCHANGED <<alive, attempt, stolen>>

FindExisting(p) ==
    /\ path # NoFile
    /\ Goto(p, "open", "exists")
    /\ UNCHANGED <<path, written, alive, attempt, stolen>>

(* restrictAndAssertPrivateRegularFile: the descriptor is still the path's. *)
AssertCreated(p) ==
    /\ Goto(p, "created", IF path = p THEN "asserted" ELSE "failed")
    /\ UNCHANGED <<path, written, alive, attempt, stolen>>

(* writeFileSync, fsyncSync and closeSync of the record: through the        *)
(* descriptor, wherever the file is by now.                                *)
WriteRecord(p) ==
    /\ Goto(p, "asserted", "held")
    /\ written' = written \cup {p}
    /\ UNCHANGED <<path, alive, attempt, stolen>>

WriteRecordFails(p) ==
    /\ WritesFail
    /\ Goto(p, "asserted", "failed")
    /\ UNCHANGED <<path, written, alive, attempt, stolen>>

(* EEXIST: read and parse the lease that is there, and see whether its      *)
(* process still runs.  A file that is gone or incomplete is an error.     *)
Reclaimable == path # NoFile /\ path \in written /\ path \notin alive
ReadExisting(p) ==
    /\ Goto(p, "exists", IF Reclaimable THEN "stale" ELSE "failed")
    /\ UNCHANGED <<path, written, alive, attempt, stolen>>

(* renameSync to a quarantine name and unlinkSync: of whatever is at the    *)
(* path by now; nothing there is tolerated.                                *)
Quarantine(p) ==
    /\ Goto(p, "stale", IF attempt[p] + 1 < Attempts THEN "open" ELSE "failed")
    /\ attempt' = [attempt EXCEPT ![p] = @ + 1]
    /\ IF path = NoFile THEN UNCHANGED <<path, stolen>> ELSE TakeAway(p)
    /\ UNCHANGED <<written, alive>>

-----------------------------------------------------------------------------
(* release(): nothing to do when the file is gone, an error when it is not  *)
(* this process's, and otherwise an unlink, which comes after the check.   *)

CheckOwnership(p) ==
    /\ Goto(p, "held", IF path = NoFile THEN "idle"
                       ELSE IF path = p THEN "unlink" ELSE "failed")
    /\ UNCHANGED <<path, written, alive, attempt, stolen>>

UnlinkForgotten(p) ==
    /\ Goto(p, "unlink", "idle")
    /\ UNCHANGED <<path, written, alive, attempt, stolen>>

Unlink(p) ==
    /\ Goto(p, "unlink", IF path = NoFile THEN "failed" ELSE "idle")
    /\ IF path = NoFile THEN UNCHANGED <<path, stolen>> ELSE TakeAway(p)
    /\ UNCHANGED <<written, alive, attempt>>

(* A caller whose call threw may call again. *)
Recall(p) ==
    /\ Goto(p, "failed", "idle")
    /\ UNCHANGED <<path, written, alive, attempt, stolen>>

Crash(p) ==
    /\ Cardinality(Process \ alive) < MaxCrashes
    /\ p \in alive
    /\ alive' = alive \ {p}
    /\ UNCHANGED <<path, written, pc, attempt, stolen>>

Acquire(p) ==
    \/ Create(p) \/ FindExisting(p) \/ AssertCreated(p)
    \/ WriteRecord(p) \/ WriteRecordFails(p)
    \/ ReadExisting(p) \/ Quarantine(p)

Release(p) == CheckOwnership(p) \/ Unlink(p)

Next ==
    \E p \in Process : Start(p) \/ Acquire(p) \/ Release(p) \/ Recall(p) \/ Crash(p)

Spec == LeaseInit /\ [][Next]_leaseVars
-----------------------------------------------------------------------------
(* Properties. *)

PcValues == {"idle", "open", "created", "asserted", "exists", "stale",
             "held", "unlink", "failed"}

Holder(p) == p \in alive /\ pc[p] \in {"held", "unlink"}

(* Every variable has its type, and no acquisition goes round its loop     *)
(* more often than the code allows.                                        *)
LeaseTypeOK ==
    /\ path \in Process \cup {NoFile}
    /\ written \subseteq Process
    /\ alive \subseteq Process
    /\ pc \in [Process -> PcValues]
    /\ attempt \in [Process -> 0 .. Attempts]
    /\ \A p \in Process : pc[p] = "open" => attempt[p] < Attempts
    /\ stolen \in BOOLEAN

(* Two live processes never both believe that they hold the lease.         *)
MutualExclusion == \A p, q \in Process : Holder(p) /\ Holder(q) => p = q

(* Unless a process died or a record write failed, the lease is free again *)
(* and again: no order of acquisitions and releases strands a file.        *)
Abandoned ==
    path # NoFile /\ path \notin written /\ pc[path] \notin {"created", "asserted"}
LeaseAlwaysFreedAgain == []<>(path = NoFile \/ alive # Process \/ Abandoned)
=============================================================================
