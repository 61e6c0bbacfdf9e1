---------------------------- MODULE RecoveryJournal ----------------------------
(***************************************************************************)
(* The operations of FundedRecoveryJournal (scripts/funded-recovery-       *)
(* journal.ts) as operators over one journal record.  For an operation Op, *)
(* MayOp says that the code does not throw and Op is the state it has in   *)
(* memory before it persists.  Labels name the operations of a run;        *)
(* a transaction is one label signed at one nonce, which stands for the    *)
(* hash.  What a signed payload contains is abstracted to whether the      *)
(* journal still holds it.  An operator named for a slip (OweNothing,      *)
(* MayPrepareAgain...) is the definition after it with that slip made: the *)
(* mutant a property must catch.                                           *)
(***************************************************************************)
EXTENDS Naturals

CONSTANT Labels

Mined == {"mined-success", "mined-failure"}
Unsettled == {"prepared", "broadcast", "outcome-unknown"}
RunStatuses == {"active", "passed", "failed"}

Entries == [nonce : Nat, status : Unsettled \cup Mined, payload : BOOLEAN]

\* parseState: what a journal must satisfy to be opened again
Readable(j) ==
    \A l \in DOMAIN j.tx : j.tx[l].status \in {"prepared", "outcome-unknown"} => j.tx[l].payload

\* owed: a private allowance that must be cleared before the run can end
IsJournal(j) ==
    /\ DOMAIN j.tx \subseteq Labels /\ \A l \in DOMAIN j.tx : j.tx[l] \in Entries
    /\ \A l \in DOMAIN j.tx : j.tx[l].status \in Mined => ~j.tx[l].payload
    /\ j.run \in RunStatuses /\ j.owed \in BOOLEAN
EmptyJournal == [tx |-> [l \in {} |-> {}], run |-> "active", owed |-> FALSE]

Known(j, l) == l \in DOMAIN j.tx
StatusIn(j, l) == IF Known(j, l) THEN j.tx[l].status ELSE "none"
UnsettledIn(j) == {l \in DOMAIN j.tx : j.tx[l].status \in Unsettled}
TerminalRun(j) == j.run \in {"passed", "failed"} /\ ~j.owed

\* a label is signed once: only the same hash, payload still held, may come again
OtherHash(j, l, n) == Known(j, l) /\ j.tx[l].nonce # n
MayPrepareAgain(j, l, n) == ~TerminalRun(j)
MayPrepare(j, l, n) ==
    ~TerminalRun(j) /\ ~OtherHash(j, l, n) /\ (Known(j, l) => j.tx[l].payload)
Prepare(j, l, n) ==
    IF Known(j, l) THEN j
    ELSE [j EXCEPT !.tx = [k \in DOMAIN @ \cup {l} |->
              IF k = l THEN [nonce |-> n, status |-> "prepared", payload |-> TRUE] ELSE @[k]]]

MayBroadcast(j, l) == StatusIn(j, l) = "prepared"
Broadcasted(j, l) == [j EXCEPT !.tx[l].status = "broadcast"]

\* rebroadcastIdenticalTransaction: what it accepts
ResendablePrepared(e) == e.status = "prepared" /\ e.payload
Resendable(e) == e.status \in {"prepared", "outcome-unknown"} /\ e.payload

\* recordTransaction drops the payload of a mined transaction and checks no order
Settle(e, s) == [e EXCEPT !.status = s, !.payload = IF s \in Mined THEN FALSE ELSE @]
Outcome(j, l, s) == [j EXCEPT !.tx[l] = Settle(@, s)]

\* recordAllowanceObligation and markAllowanceCleared
OweNothing(j) == j
Owe(j) == [j EXCEPT !.owed = TRUE]
MayClear(j, hashes) == \A l \in hashes : StatusIn(j, l) = "mined-success"
Clear(j) == [j EXCEPT !.owed = FALSE]

MarkRun(j, s) == [j EXCEPT !.run = s]
================================================================================
