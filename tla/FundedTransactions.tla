--------------------------- MODULE FundedTransactions ---------------------------
(***************************************************************************)
(* One signer's funded transactions, from the launcher to the chain:       *)
(*   scripts/run-fresh-hardhat.mjs       leases, settling, one target      *)
(*   scripts/funded-process-coordinator.mjs   the signer's nonce record    *)
(*   scripts/funded-recovery-journal.ts       one journal for each run     *)
(*   scripts/funded-transaction-wallet.ts     sign, journal, reserve, send *)
(*   scripts/testnet-transaction-evidence.ts  waiting for the receipt      *)
(*   scripts/recover-funded-deployment.ts     the recovery tool            *)
(* The process may crash between any two writes, an append may fail before *)
(* or after its record is durable, an RPC answer may be lost, and the chain*)
(* may evict a pending transaction or replace its unconfirmed head.        *)
(*                                                                         *)
(* The execution leases are taken as exclusive here (ProcessLease models   *)
(* them), so there is at most one process.  Signing is deterministic: the  *)
(* same label at the same nonce is the same hash.  This module is the      *)
(* submission engine; FundedRuns adds the scripts that call it.            *)
(***************************************************************************)
EXTENDS RecoveryJournal

CONSTANTS
    Runs,        \* journals: one runner at one source commit
    RunOf,       \* the run of a label
    Canonical,   \* runs that wait for the canonical depth (deploy-protocol)
    Recoverable, \* runs recover-funded-deployment can open
    Marking,     \* runs that are marked failed by a catch around all they do (testnet-harness)
    Historical,  \* labels whose source commit provably journals before it sends
    MaxNonce,    \* the model's nonces are 0..MaxNonce
    MaxMishaps   \* how many crashes, failed appends, reorganisations and evictions together

ASSUME RunOfLabels == \A l \in Labels : RunOf[l] \in Runs
ASSUME Bounds == MaxNonce \in Nat /\ MaxMishaps \in Nat

VARIABLES
    journal,  \* durable: the journal of each run
    signer,   \* durable: the signer's record, the status of each known hash
    chain,    \* where each transaction is that an RPC node was ever handed
    pc, run,  \* the process and the run it works for
    target,   \* "run", or the recovery tool: "recover", then "poll"
    tx,       \* the transaction in hand
    mem,      \* the journal object in memory
    fresh,    \* persistedEnvelope is the latest record on disk
    todo,     \* labels reconcileTransactions has still to inspect
    err,      \* how the last submission ended
    step,     \* position in the script (FundedRuns)
    givenUp,  \* history: the transactions ever abandoned
    mishaps   \* how many of each kind there were

disk == <<journal, signer, givenUp>>
process == <<pc, run, target, tx, mem, fresh, todo, err, step>>
vars == <<journal, signer, givenUp, chain, pc, run, target, tx, mem, fresh, todo, err, step,
          mishaps>>

Nonces == 0..MaxNonce
Txs == [label : Labels, nonce : Nonces]
Reserved == {"prepared", "broadcast", "outcome-unknown"}
Terminal == Mined \cup {"abandoned-prebroadcast"}
Final == {"final-success", "final-failure"}
Included == Mined \cup Final

Put(f, t, x) == [u \in DOMAIN f \cup {t} |-> IF u = t THEN x ELSE f[u]]
Recorded(t) == IF t \in DOMAIN signer THEN signer[t] ELSE "none"
Handed == DOMAIN chain
OnChain(t) == IF t \in Handed THEN chain[t] ELSE "none"
Seen(t) == OnChain(t) \in {"pending"} \cup Included
Succeeded(t) == OnChain(t) \in {"mined-success", "final-success"}

\* getTransactionCount(signer, "pending") and (signer, "latest")
NoncesOf(where) == {t.nonce : t \in {u \in Handed : chain[u] \in where}}
FirstGap(S) == CHOOSE n \in 0..(MaxNonce + 1) : n \notin S /\ 0..(n - 1) \subseteq S
PendingNonce == FirstGap(NoncesOf({"pending"} \cup Included))
LatestNonce == FirstGap(NoncesOf(Included))

\* inspectFundedTransaction with the default two confirmations
Confirmed(t) == OnChain(t) \in Final
Absent(t) == ~Seen(t)
StatusOf(t) == IF Succeeded(t) THEN "mined-success" ELSE "mined-failure"

NoTx == [label |-> CHOOSE l \in Labels : TRUE, nonce |-> 0]
Idle ==
    /\ pc' = "idle" /\ run' = (CHOOSE r \in Runs : TRUE) /\ target' = "run" /\ tx' = NoTx
    /\ mem' = EmptyJournal /\ fresh' = TRUE /\ todo' = {} /\ err' = "none" /\ step' = "start"

--------------------------------------------------------------------------------
\* Appends: they succeed, or fail with the record lost, or fail with it durable.

Mishaps == {"loss", "fault", "reorg"}
Suffer(kind) ==
    /\ mishaps["loss"] + mishaps["fault"] + mishaps["reorg"] < MaxMishaps
    /\ mishaps' = [mishaps EXCEPT ![kind] = @ + 1]
Fail == Suffer("fault")

\* journal.persist() of a memory already changed to j
PersistLazily(j) == fresh /\ UNCHANGED <<journal, fresh, mishaps>>
Persist(j) ==
    fresh /\ journal' = [journal EXCEPT ![run] = j] /\ UNCHANGED <<fresh, mishaps>>
PersistFails(j) ==
    \/ ~fresh /\ UNCHANGED <<journal, fresh, mishaps>>
    \/ fresh /\ Fail /\ UNCHANGED <<journal, fresh>>
    \/ fresh /\ Fail /\ journal' = [journal EXCEPT ![run] = j] /\ fresh' = FALSE

AppendSigner(t, s) == signer' = Put(signer, t, s) /\ UNCHANGED mishaps
AppendSignerFails(t, s) ==
    Fail /\ (UNCHANGED signer \/ signer' = Put(signer, t, s))

\* recordPreparedSignerTransaction
NonceFree(t) == \A u \in DOMAIN signer \ {t} : u.nonce = t.nonce => signer[u] \notin Reserved
MayReserve(t) ==
    \/ Recorded(t) \in {"none", "abandoned-prebroadcast"} /\ NonceFree(t)
    \/ Recorded(t) = "prepared"
\* recordSignerTransactionStatus
MayRecord(t, s) == t \in DOMAIN signer /\ (signer[t] \in Terminal => signer[t] = s)

--------------------------------------------------------------------------------
\* The launcher: settle what the signer left, then run one target.

SettledIfKnown == \A t \in DOMAIN signer : signer[t] # "outcome-unknown"
Settled == \A t \in DOMAIN signer : signer[t] \notin Reserved
Launch(r) ==
    /\ pc = "idle" /\ pc' = "settling" /\ run' = r
    /\ UNCHANGED <<disk, chain, target, tx, mem, fresh, todo, err, step, mishaps>>

\* reconcileSignerExecutionLeases, one transaction
SettleSigner(t) ==
    /\ pc = "settling" /\ Recorded(t) \in Reserved
    /\ \/ Confirmed(t) /\ AppendSigner(t, StatusOf(t)) /\ UNCHANGED pc
       \/ Confirmed(t) /\ AppendSignerFails(t, StatusOf(t)) /\ pc' = "exit"
       \/ ~Confirmed(t) /\ pc' = "exit" /\ UNCHANGED <<signer, mishaps>>
    /\ UNCHANGED <<journal, givenUp, chain, run, target, tx, mem, fresh, todo, err, step>>

\* The spawned target opens its journal and starts reconcileTransactions.
OpenJournal ==
    /\ pc = "settling" /\ Settled
    /\ mem' = journal[run] /\ fresh' = TRUE
    /\ IF Readable(journal[run])
       THEN pc' = "reconcile" /\ todo' = UnsettledIn(journal[run])
       ELSE pc' = "exit" /\ UNCHANGED todo
    /\ UNCHANGED <<disk, chain, run, target, tx, err, step, mishaps>>

Exit ==
    /\ pc = "exit" /\ Idle /\ UNCHANGED <<disk, chain, mishaps>>

Crash ==
    /\ pc # "idle" /\ Suffer("loss")
    /\ Idle /\ UNCHANGED <<disk, chain>>

--------------------------------------------------------------------------------
\* reconcileTransactions

InHand(l) == [label |-> l, nonce |-> mem.tx[l].nonce]

\* What one inspection writes: the settled status, "outcome-unknown", or nothing
Verdict(l) ==
    LET e == mem.tx[l] IN
    IF e.payload /\ Confirmed(InHand(l)) THEN StatusOf(InHand(l))
    ELSE IF ~e.payload \/ Absent(InHand(l)) THEN "outcome-unknown" ELSE e.status

\* an error in it ends the process, where the run has no catch that marks it first
Stopped ==
    IF target = "run" /\ run \in Marking
    THEN pc' = "script" /\ step' = "mark-failed"
    ELSE pc' = "exit" /\ UNCHANGED step
Reconcile(l) ==
    /\ pc = "reconcile" /\ l \in todo /\ todo' = todo \ {l}
    /\ LET j == Outcome(mem, l, Verdict(l)) IN
       IF j = mem THEN UNCHANGED <<journal, mem, fresh, mishaps, pc, step>>
       ELSE /\ mem' = j
            /\ \/ Persist(j) /\ UNCHANGED <<pc, step>>
               \/ PersistFails(j) /\ Stopped
    /\ UNCHANGED <<signer, givenUp, chain, run, target, tx, err>>

\* Anything unresolved stops a run; the recovery tool goes on with its one hash.
ReconcileDone ==
    /\ pc = "reconcile" /\ todo = {}
    /\ LET open == UnsettledIn(mem) IN
       \/ target = "run" /\ open = {} /\ pc' = "script" /\ UNCHANGED <<todo, step>>
       \/ target = "run" /\ open # {} /\ Stopped /\ UNCHANGED todo
       \/ target # "run" /\ tx.label \notin open /\ pc' = "settle" /\ UNCHANGED <<todo, step>>
       \/ target = "recover" /\ tx.label \in open /\ pc' = "rebroadcast" /\ UNCHANGED <<todo, step>>
       \/ target = "poll" /\ tx.label \in open /\ pc' = "exit" /\ UNCHANGED <<todo, step>>
       \/ target = "poll" /\ tx.label \in open /\ todo' = open /\ UNCHANGED <<pc, step>>
    /\ UNCHANGED <<disk, chain, run, target, tx, mem, fresh, err, mishaps>>

--------------------------------------------------------------------------------
\* sendPreparedFundedTransaction and the submit wrapper of the scripts

Returned(e) == pc' = "returned" /\ err' = e

\* A script submits label l: populate with the pending nonce, and sign.
Sign(l) ==
    /\ pc = "script" /\ RunOf[l] = run /\ PendingNonce \in Nonces
    /\ tx' = [label |-> l, nonce |-> PendingNonce] /\ pc' = "signed"
    /\ UNCHANGED <<disk, chain, run, target, mem, fresh, todo, err, step, mishaps>>

JournalPrepared ==
    /\ pc = "signed"
    /\ LET l == tx.label  j == Prepare(mem, tx.label, tx.nonce) IN
       \/ /\ MayPrepare(mem, l, tx.nonce) /\ j = mem /\ pc' = "journaled"
          /\ UNCHANGED <<journal, mem, fresh, mishaps, err>>
       \/ /\ MayPrepare(mem, l, tx.nonce) /\ j # mem /\ mem' = j
          /\ \/ Persist(j) /\ pc' = "journaled" /\ UNCHANGED err
             \/ PersistFails(j) /\ Returned("unknown")
       \/ /\ ~MayPrepare(mem, l, tx.nonce)
          /\ Returned(IF OtherHash(mem, l, tx.nonce) /\ ~TerminalRun(mem)
                      THEN "plain" ELSE "unknown")    \* FundedOperationIdentityError
          /\ UNCHANGED <<journal, mem, fresh, mishaps>>
    /\ UNCHANGED <<signer, givenUp, chain, run, target, tx, todo, step>>

ReserveNonce ==
    /\ pc = "journaled"
    /\ \/ MayReserve(tx) /\ AppendSigner(tx, "prepared") /\ pc' = "reserved" /\ UNCHANGED err
       \/ MayReserve(tx) /\ AppendSignerFails(tx, "prepared") /\ Returned("unknown")
       \/ ~MayReserve(tx) /\ Returned("unknown") /\ UNCHANGED <<signer, mishaps>>
    /\ UNCHANGED <<journal, givenUp, chain, run, target, tx, mem, fresh, todo, step>>

\* The RPC node takes a transaction unless another one has its nonce already.
Acceptable(t) == \A u \in Handed \ {t} : u.nonce = t.nonce => ~Seen(u)
Arrives(t) == chain' = IF Seen(t) THEN chain ELSE Put(chain, t, "pending")
InFlight(t) == chain' = IF Seen(t) THEN chain ELSE Put(chain, t, "absent")

BroadcastTransaction ==
    /\ pc = "reserved"
    /\ \/ Acceptable(tx) /\ Arrives(tx) /\ pc' = "accepted"
       \/ Acceptable(tx) /\ Arrives(tx) /\ pc' = "unknown"   \* the answer is lost
       \/ InFlight(tx) /\ pc' = "unknown"                    \* the request is delayed
       \/ UNCHANGED chain /\ pc' = "unknown"                 \* it never left
    /\ UNCHANGED <<disk, run, target, tx, mem, fresh, todo, err, step, mishaps>>

RecordBroadcast ==
    /\ pc = "accepted"
    /\ LET j == Broadcasted(mem, tx.label) IN
       \/ /\ MayBroadcast(mem, tx.label) /\ mem' = j
          /\ \/ Persist(j) /\ pc' = "recorded"
             \/ PersistFails(j) /\ pc' = "unknown"
       \/ ~MayBroadcast(mem, tx.label) /\ pc' = "unknown" /\ UNCHANGED <<journal, mem, fresh, mishaps>>
    /\ UNCHANGED <<signer, givenUp, chain, run, target, tx, todo, err, step>>

RecordSignerBroadcast ==
    /\ pc = "recorded"
    /\ \/ MayRecord(tx, "broadcast") /\ AppendSigner(tx, "broadcast") /\ pc' = "waiting"
       \/ MayRecord(tx, "broadcast") /\ AppendSignerFails(tx, "broadcast") /\ pc' = "unknown"
       \/ ~MayRecord(tx, "broadcast") /\ pc' = "unknown" /\ UNCHANGED <<signer, mishaps>>
    /\ UNCHANGED <<journal, givenUp, chain, run, target, tx, mem, fresh, todo, err, step>>

\* recordUnknownBroadcastOutcome: both records are tried, each failure is kept aside
RecordUnknown ==
    /\ pc = "unknown" /\ pc' = "unknown-signer"
    /\ LET j == Outcome(mem, tx.label, "outcome-unknown") IN
       mem' = j /\ (Persist(j) \/ PersistFails(j))
    /\ UNCHANGED <<signer, givenUp, chain, run, target, tx, todo, err, step>>

RecordSignerUnknown ==
    /\ pc = "unknown-signer" /\ pc' = "unknown-outcome"
    /\ IF MayRecord(tx, "outcome-unknown")
       THEN AppendSigner(tx, "outcome-unknown") \/ AppendSignerFails(tx, "outcome-unknown")
       ELSE UNCHANGED <<signer, mishaps>>
    /\ UNCHANGED <<journal, givenUp, chain, run, target, tx, mem, fresh, todo, err, step>>

\* requireMinedReceipt: a receipt at one confirmation, or an unknown outcome
Wait ==
    /\ pc = "waiting"
    /\ \/ /\ OnChain(tx) \in Included
          /\ pc' = (IF run \in Canonical THEN "confirming" ELSE StatusOf(tx))
       \/ pc' = "unknown-outcome"
    /\ UNCHANGED <<disk, chain, run, target, tx, mem, fresh, todo, err, step, mishaps>>

\* waitForCanonicalDeploymentConfirmation
AwaitCanonical ==
    /\ pc = "confirming"
    /\ \/ Confirmed(tx) /\ pc' = StatusOf(tx)
       \/ pc' = "unknown-outcome"
    /\ UNCHANGED <<disk, chain, run, target, tx, mem, fresh, todo, err, step, mishaps>>

\* submit: the outcome is journalled; when that fails, its own error is thrown
RecordOutcome ==
    /\ pc \in Mined \cup {"unknown-outcome"}
    /\ LET s == IF pc = "unknown-outcome" THEN "outcome-unknown" ELSE pc
           j == Outcome(mem, tx.label, s)
       IN /\ mem' = j
          /\ \/ Persist(j) /\ Returned(CASE s = "mined-success" -> "none"
                                         [] s = "mined-failure" -> "plain"
                                         [] OTHER -> "unknown")
             \/ PersistFails(j) /\ Returned("plain")
    /\ UNCHANGED <<signer, givenUp, chain, run, target, tx, todo, step>>

--------------------------------------------------------------------------------
\* recover-funded-deployment for one transaction

\* assertSoleRecoverableSignerTransaction
LaunchRecovery(t) ==
    /\ pc = "idle" /\ RunOf[t.label] \in Recoverable
    /\ Recorded(t) \in Reserved \cup {"abandoned-prebroadcast"}
    /\ \A u \in DOMAIN signer \ {t} : signer[u] \notin Reserved
    /\ pc' = "recovering" /\ run' = RunOf[t.label] /\ target' = "recover" /\ tx' = t
    /\ UNCHANGED <<disk, chain, mem, fresh, todo, err, step, mishaps>>

Journaled(j, t) == Known(j, t.label) /\ j.tx[t.label].nonce = t.nonce
\* nothing can have been sent: the old order, the RPC node and both nonce counts say so
ProvenByNonces(t) ==
    Recorded(t) = "prepared" /\ Absent(t) /\ LatestNonce = t.nonce /\ PendingNonce = t.nonce
ProvenUnsent(t) ==
    /\ Recorded(t) = "prepared" /\ t.label \in Historical
    /\ Absent(t) /\ LatestNonce = t.nonce /\ PendingNonce = t.nonce

OpenRecovery ==
    /\ pc = "recovering"
    /\ LET j == journal[run] IN
       /\ mem' = j /\ fresh' = TRUE /\ todo' = UnsettledIn(j)
       /\ \/ ~Readable(j) /\ pc' = "exit"
          \/ /\ Readable(j) /\ ~Journaled(j, tx)
             /\ pc' = IF ProvenUnsent(tx) THEN "abandon" ELSE "exit"
          \/ /\ Readable(j) /\ Journaled(j, tx)
             /\ pc' = IF Recorded(tx) = "abandoned-prebroadcast" THEN "reserve-again" ELSE "reconcile"
    /\ UNCHANGED <<disk, chain, run, target, tx, err, step, mishaps>>

Abandon ==
    /\ pc = "abandon" /\ pc' = "exit"
    /\ \/ AppendSigner(tx, "abandoned-prebroadcast")
       \/ AppendSignerFails(tx, "abandoned-prebroadcast")
    /\ givenUp' = givenUp \cup {tx}
    /\ UNCHANGED <<journal, chain, run, target, tx, mem, fresh, todo, err, step>>

ReserveAgain ==
    /\ pc = "reserve-again"
    /\ \/ MayReserve(tx) /\ AppendSigner(tx, "prepared") /\ pc' = "reconcile"
       \/ MayReserve(tx) /\ AppendSignerFails(tx, "prepared") /\ pc' = "exit"
       \/ ~MayReserve(tx) /\ pc' = "exit" /\ UNCHANGED <<signer, mishaps>>
    /\ UNCHANGED <<journal, givenUp, chain, run, target, tx, mem, fresh, todo, err, step>>

\* rebroadcastIdenticalTransaction up to the RPC call
Rebroadcast ==
    /\ pc = "rebroadcast"
    /\ LET e == mem.tx[tx.label]
           eligible == Resendable(e)
           j == Outcome(mem, tx.label, StatusOf(tx))
       IN \/ ~eligible /\ pc' = "exit" /\ UNCHANGED <<journal, chain, mem, fresh, mishaps>>
          \/ /\ eligible /\ Confirmed(tx) /\ mem' = j /\ UNCHANGED chain
             /\ \/ Persist(j) /\ pc' = "polling"
                \/ PersistFails(j) /\ pc' = "exit"
          \/ /\ eligible /\ Seen(tx) /\ ~Confirmed(tx) /\ pc' = "polling"
             /\ UNCHANGED <<journal, chain, mem, fresh, mishaps>>
          \/ /\ eligible /\ Absent(tx)
             /\ \/ Acceptable(tx) /\ Arrives(tx) /\ pc' = "rebroadcasted"
                \/ Acceptable(tx) /\ Arrives(tx) /\ pc' = "exit"
                \/ InFlight(tx) /\ pc' = "exit"
             /\ UNCHANGED <<journal, mem, fresh, mishaps>>
    /\ UNCHANGED <<signer, givenUp, run, target, tx, todo, err, step>>

RecordRebroadcast ==
    /\ pc = "rebroadcasted"
    /\ LET j == Broadcasted(mem, tx.label) IN
       /\ mem' = j
       /\ \/ Persist(j) /\ pc' = "polling"
          \/ PersistFails(j) /\ pc' = "exit"
    /\ UNCHANGED <<signer, givenUp, chain, run, target, tx, todo, err, step>>

Poll ==
    /\ pc = "polling" /\ pc' = "reconcile" /\ target' = "poll" /\ todo' = UnsettledIn(mem)
    /\ UNCHANGED <<disk, chain, run, tx, mem, fresh, err, step, mishaps>>

\* the journal is settled; now the signer's record
SettleRecovered ==
    /\ pc = "settle" /\ pc' = "exit"
    /\ LET s == mem.tx[tx.label].status IN
       \/ MayRecord(tx, s) /\ (AppendSigner(tx, s) \/ AppendSignerFails(tx, s))
       \/ ~MayRecord(tx, s) /\ UNCHANGED <<signer, mishaps>>
    /\ UNCHANGED <<journal, givenUp, chain, run, target, tx, mem, fresh, todo, err, step>>

--------------------------------------------------------------------------------
\* The chain and its nodes

offchain == <<disk, process>>
Below(t, where) == 0..(t.nonce - 1) \subseteq NoncesOf(where)

\* CanSucceed(t): the contract lets t succeed in the present state (FundedRuns)
Mine(t, s) ==
    /\ chain[t] = "pending" /\ Below(t, Included) /\ t.nonce \notin NoncesOf(Included)
    /\ chain' = [chain EXCEPT ![t] = s]
    /\ UNCHANGED <<offchain, mishaps>>

Finalize(t) ==
    /\ chain[t] \in Mined /\ Below(t, Final)
    /\ chain' = [chain EXCEPT ![t] = IF Succeeded(t) THEN "final-success" ELSE "final-failure"]
    /\ UNCHANGED <<offchain, mishaps>>

\* the unconfirmed head is replaced: its last transaction waits again, or is gone
Reorg(t) ==
    /\ chain[t] \in Mined /\ t.nonce + 1 \notin NoncesOf(Included)
    /\ Suffer("reorg")
    /\ \E w \in {"pending", "absent"} : chain' = [chain EXCEPT ![t] = w]
    /\ UNCHANGED offchain

Evict(t) ==
    /\ chain[t] = "pending" /\ Suffer("loss")
    /\ chain' = [chain EXCEPT ![t] = "absent"]
    /\ UNCHANGED offchain

\* a delayed request, or a node that still had it
ArriveLate(t) ==
    /\ chain[t] = "absent" /\ Acceptable(t) /\ chain' = [chain EXCEPT ![t] = "pending"]
    /\ UNCHANGED <<offchain, mishaps>>

--------------------------------------------------------------------------------
Engine ==
    \/ \E t \in DOMAIN signer : SettleSigner(t) \/ LaunchRecovery(t)
    \/ OpenJournal \/ Exit \/ (\E l \in todo : Reconcile(l)) \/ ReconcileDone
    \/ JournalPrepared \/ ReserveNonce \/ BroadcastTransaction \/ RecordBroadcast
    \/ RecordSignerBroadcast \/ RecordUnknown \/ RecordSignerUnknown \/ Wait \/ AwaitCanonical
    \/ RecordOutcome
    \/ OpenRecovery \/ Abandon \/ ReserveAgain \/ Rebroadcast \/ RecordRebroadcast \/ Poll
    \/ SettleRecovered
================================================================================
