------------------------------- MODULE FundedRuns -------------------------------
(***************************************************************************)
(* Two runs that share one funded signer: a deployment (deploy-protocol)   *)
(* and the direct harness (testnet-harness), which approves a private      *)
(* allowance, spends it in a swap and must leave it at zero.  Each submits *)
(* through FundedTransactions and keeps its own journal.                   *)
(***************************************************************************)
EXTENDS FundedTransactions, Sequences

CONSTANTS
    Deploy, Harness,  \* the two runs
    Deployments       \* the labels of the deployment, in order

Drains == {"swap", "cleanup", "recovery"}
HarnessLabels == {"quote", "approve"} \cup Drains

ASSUME RunsCovered ==
    /\ Deploy \in Canonical \cap Recoverable /\ Harness \in Runs \ (Canonical \cup Recoverable)
    /\ Harness \in Marking /\ Deploy \notin Marking
    /\ Deployments \in Seq(Labels) \ {<< >>} /\ HarnessLabels \subseteq Labels
    /\ \A i \in DOMAIN Deployments : RunOf[Deployments[i]] = Deploy
    /\ \A l \in HarnessLabels : RunOf[l] = Harness

\* The private allowance of the pool, as the included transactions leave it
Allowance ==
    \E t \in Handed : /\ t.label = "approve" /\ Succeeded(t)
                      /\ \A u \in Handed : u.label \in Drains /\ Succeeded(u) => u.nonce < t.nonce
\* a swap reverts without its allowance; anything may revert
CanSucceed(t) == t.label = "swap" => Allowance

\* What the signer may hold from an earlier source commit, whose wallet reserved
\* the nonce before it journalled: nothing, a transaction that commit provably
\* had not sent, or one of a commit for which there is no such proof.
Leftover(t, where) ==
    /\ signer = [u \in {t} |-> "prepared"]
    /\ chain = IF where = "none" THEN [u \in {} |-> where] ELSE [u \in {t} |-> where]

Init ==
    /\ journal = [r \in Runs |-> EmptyJournal] /\ givenUp = {}
    /\ \/ signer = [t \in {} |-> "none"] /\ chain = [t \in {} |-> "none"]
       \/ \E l \in Labels \ HarnessLabels :
             IF l \in Historical THEN Leftover([label |-> l, nonce |-> 0], "none")
             ELSE \E w \in {"none", "absent", "pending"} :
                    l \notin {Deployments[i] : i \in DOMAIN Deployments}
                    /\ Leftover([label |-> l, nonce |-> 0], w)
    /\ pc = "idle" /\ run = (CHOOSE r \in Runs : TRUE) /\ target = "run" /\ tx = NoTx
    /\ mem = EmptyJournal /\ fresh = TRUE /\ todo = {} /\ err = "none" /\ step = "start"
    /\ mishaps = [k \in Mishaps |-> 0]

--------------------------------------------------------------------------------
\* Script moves that write nothing, and those that persist the journal

Goto(p, s) ==
    /\ pc' = p /\ step' = s /\ err' = "none"
    /\ UNCHANGED <<disk, chain, run, target, tx, mem, fresh, todo, mishaps>>
PersistThen(j, p, s, badP, badS) ==
    /\ mem' = j /\ err' = "none"
    /\ \/ Persist(j) /\ pc' = p /\ step' = s
       \/ PersistFails(j) /\ pc' = badP /\ step' = badS
    /\ UNCHANGED <<signer, givenUp, chain, run, target, tx, todo>>

At(r, s) == pc = "script" /\ run = r /\ step = s
Back(r, s) == pc = "returned" /\ run = r /\ step = s

--------------------------------------------------------------------------------
\* deployProtocol: one label after the other, any error ends it

DeployNext ==
    /\ pc = "script" /\ run = Deploy
    /\ IF step = "start" THEN Sign(Deployments[1]) ELSE Sign(step)

DeployReturned ==
    /\ pc = "returned" /\ run = Deploy
    /\ LET i == CHOOSE k \in DOMAIN Deployments : Deployments[k] = tx.label IN
       IF err = "none" /\ i < Len(Deployments)
       THEN Goto("script", Deployments[i + 1]) ELSE Goto("exit", step)

--------------------------------------------------------------------------------
\* testnet-harness main

\* its last catch: an unknown outcome is left alone, any other error ends the run
Caught == IF err = "unknown" THEN Goto("exit", step) ELSE Goto("script", "mark-failed")
ThrowPlain == Goto("script", "mark-failed")

\* recoverPrivateAllowanceObligations
HarnessRecover ==
    \/ At(Harness, "start") /\ ~mem.owed /\ Goto("script", "quote")
    \/ At(Harness, "start") /\ mem.owed /\ Allowance /\ Sign("recovery")
    \/ At(Harness, "start") /\ mem.owed /\ ~Allowance
       /\ PersistThen(Clear(mem), "script", "quote", "script", "mark-failed")
    \/ Back(Harness, "start") /\ err = "none" /\ ~Allowance /\ MayClear(mem, {"recovery"})
       /\ PersistThen(Clear(mem), "script", "quote", "script", "mark-failed")
    \/ Back(Harness, "start") /\ err = "none" /\ (Allowance \/ ~MayClear(mem, {"recovery"})) /\ ThrowPlain
    \/ Back(Harness, "start") /\ err # "none" /\ Caught

HarnessQuote ==
    \/ At(Harness, "quote") /\ Sign("quote")
    \/ Back(Harness, "quote") /\ IF err = "none" THEN Goto("script", "owe") ELSE Caught

\* setRecoverablePrivateAllowance(amountIn): the obligation is durable first
HarnessApprove ==
    \/ At(Harness, "owe")
       /\ IF mem.owed THEN Goto("script", "approve")
          ELSE PersistThen(Owe(mem), "script", "approve", "script", "mark-failed")
    \/ At(Harness, "approve")
       /\ IF Allowance THEN Goto("script", "swap") ELSE Sign("approve")
    \/ Back(Harness, "approve") /\ err = "none"
       /\ IF Allowance THEN Goto("script", "swap") ELSE ThrowPlain
    \/ Back(Harness, "approve") /\ err # "none" /\ Caught

\* the swap, the zero check and setRecoverablePrivateAllowance(0)
HarnessSwap ==
    \/ At(Harness, "swap") /\ Sign("swap")
    \/ At(Harness, "swap") /\ Goto("script", "cleanup")  \* an error before it is signed
    \/ Back(Harness, "swap") /\ err = "none" /\ ~Allowance
       /\ PersistThen(Clear(mem), "script", "pass", "script", "cleanup")
    \/ Back(Harness, "swap") /\ err = "none" /\ Allowance /\ Goto("script", "cleanup")
    \/ Back(Harness, "swap") /\ err = "unknown" /\ Goto("exit", step)
    \/ Back(Harness, "swap") /\ err = "plain" /\ Goto("script", "cleanup")

\* the catch around the swap: clear what is left, or leave the run unresolved
HarnessCleanup ==
    \/ At(Harness, "cleanup") /\ Allowance /\ mem.owed /\ Sign("cleanup")
    \/ At(Harness, "cleanup") /\ ~Allowance /\ mem.owed
       /\ PersistThen(Clear(mem), "script", "mark-failed", "exit", step)
    \/ At(Harness, "cleanup") /\ ~Allowance /\ ~mem.owed /\ Goto("script", "mark-failed")
    \/ Back(Harness, "cleanup") /\ err = "none" /\ ~Allowance /\ MayClear(mem, {"cleanup"})
       /\ PersistThen(Clear(mem), "script", "mark-failed", "exit", step)
    \/ Back(Harness, "cleanup") /\ (err # "none" \/ Allowance \/ ~MayClear(mem, {"cleanup"}))
       /\ Goto("exit", step)

HarnessEnd ==
    \/ At(Harness, "pass")
       /\ PersistThen(MarkRun(mem, "passed"), "exit", step, "script", "mark-failed")
    \/ At(Harness, "mark-failed")
       /\ PersistThen(MarkRun(mem, "failed"), "exit", step, "exit", step)

--------------------------------------------------------------------------------
Scripts ==
    \/ DeployNext \/ DeployReturned
    \/ HarnessRecover \/ HarnessQuote \/ HarnessApprove \/ HarnessSwap \/ HarnessCleanup
    \/ HarnessEnd

Chain ==
    \E t \in Handed :
        \/ CanSucceed(t) /\ Mine(t, "mined-success")
        \/ Mine(t, "mined-failure")
        \/ Finalize(t) \/ Reorg(t) \/ Evict(t) \/ ArriveLate(t)

Next == Engine \/ Scripts \/ Chain \/ Crash \/ (\E r \in {Deploy, Harness} : Launch(r))

Spec == Init /\ [][Next]_vars

\* A process that runs goes on; blocks are mined and confirmed; the operator comes
\* back, and a node takes one of the retried requests in the end.
FairSpec ==
    /\ Spec
    /\ WF_vars(pc # "idle" /\ (Engine \/ Scripts))
    /\ WF_vars(\E t \in Handed : Mine(t, "mined-success") \/ Finalize(t))
    /\ SF_vars(\E t \in DOMAIN signer : signer[t] \in Reserved /\ LaunchRecovery(t))
    /\ SF_vars(Rebroadcast /\ pc' = "rebroadcasted")
    /\ SF_vars(target = "poll" /\ ReconcileDone /\ pc' = "exit")

--------------------------------------------------------------------------------
\* Every variable has its type, no journal keeps the payload of a mined transaction,
\* and each can be opened again after any crash (J:588-668).
TypeOK ==
    /\ DOMAIN journal = Runs /\ (\A r \in Runs : IsJournal(journal[r]) /\ Readable(journal[r]))
    /\ IsJournal(mem)
    /\ DOMAIN signer \cup Handed \cup givenUp \subseteq Txs
    /\ \A t \in DOMAIN signer : signer[t] \in Reserved \cup Terminal
    /\ \A t \in Handed : chain[t] \in {"absent", "pending"} \cup Included
    /\ run \in Runs /\ tx \in Txs /\ todo \subseteq Labels /\ fresh \in BOOLEAN
    /\ target \in {"run", "recover", "poll"} /\ err \in {"none", "unknown", "plain"}
    /\ mishaps \in [Mishaps -> Nat]

Current == HarnessLabels \cup {Deployments[i] : i \in DOMAIN Deployments}

\* Whatever an RPC node was ever handed, the signer's record and the journal of its
\* run hold on disk, at the nonce it was signed with (W:225-268, before the send).
SentIsRecorded ==
    \A t \in Handed : t.label \in Current =>
        t \in DOMAIN signer /\ Journaled(journal[RunOf[t.label]], t)

\* A transaction given up and not prepared again was never sent (recover-funded-deployment).
GivenUpIsUnsent == \A t \in Handed : Recorded(t) # "abandoned-prebroadcast"

\* As long as the chain replaced no head, at most one reserved transaction has
\* no receipt, so the recovery tool's sole-transaction rule leaves it a way out.
AtMostOneInDoubt ==
    LET doubtful == {t \in DOMAIN signer : signer[t] \in Reserved /\ OnChain(t) \notin Included}
    IN mishaps["reorg"] = 0 /\ mishaps["fault"] = 0 => \A t, u \in doubtful : t = u

\* An allowance on the chain, or on its way there, is an obligation on disk
\* (funded-private-allowance), and a run that passed left none, and nothing unsettled.
AllowanceIsOwed ==
    mishaps["reorg"] = 0 =>
        /\ Allowance \/ (\E t \in Handed : t.label = "approve" /\ chain[t] = "pending")
               => journal[Harness].owed
        /\ journal[Harness].run = "passed" =>
               ~Allowance /\ ~journal[Harness].owed /\ UnsettledIn(journal[Harness]) = {}

\* A deployment transaction the signer's record holds open is settled in the end.
OpenDeployment == \E t \in DOMAIN signer : signer[t] \in Reserved /\ RunOf[t.label] = Deploy
DeploymentSettles == OpenDeployment ~> (givenUp = {} => ~OpenDeployment)

\* The promise of SubmittedOnce, of everything that was not given up.
Kept == Handed \ givenUp
NonceOf(l) == (CHOOSE t \in Kept : t.label = l).nonce
Word(status) == IF status \in {"mined-success", "final-success"} THEN "success" ELSE "failure"
Told == {t \in DOMAIN signer \ givenUp : signer[t] \in Mined}
Ledger == INSTANCE SubmittedOnce WITH
    sent <- [l \in {t.label : t \in Kept} |-> NonceOf(l)],
    fate <- [l \in {t.label : t \in {u \in Kept : Confirmed(u)}} |->
                 Word(chain[CHOOSE t \in Kept : t.label = l])],
    told <- [l \in {t.label : t \in Told} |-> Word(signer[CHOOSE t \in Told : t.label = l])]

\* Each operation is submitted at one nonce of its own, and what the signer's
\* record says of it is what the chain decided: the runners implement SubmittedOnce.
SubmitsOnce == Ledger!Spec
================================================================================
