----------------------------- MODULE FundedScenarios -----------------------------
(***************************************************************************)
(* One funded test script over its durable journal: what it has signed,    *)
(* the resources and allowances it must give back, and the status the last *)
(* launch left.  A launch opens the journal, finishes what an earlier one  *)
(* left, and only then runs its steps; an error ends it in the script's    *)
(* catch, which gives the funds back where the script can.                 *)
(***************************************************************************)
EXTENDS LaunchpadScenario, BestExecutionScenario, FeeScenario, ProbeScenarios,
        DeploymentScenarios, EvidencePolicy

CONSTANTS
    Scripts,
    MaxMishaps,   \* how many things may go wrong, for each script
    NoEvidence,   \* scripts whose evidence does not meet their own policy
    OpensFirst,   \* scripts that learn of a pool only after it holds funds
    Unowed,       \* scripts with an allowance that is no obligation
    Wedges,       \* scripts whose journal may stay open after the funds are back
    NoRecovery    \* scripts that may never give back what an interrupted run left

VARIABLES
    script,    \* the script whose journal this is
    mode,      \* "down", "up" in main, "rescuing" in its catch
    at, todo,  \* the next step of the program, and steps that come before it
    run,       \* runStatus
    log,       \* the settled transactions, as the journal lists them
    doubt,     \* the one that was sent and whose outcome is not known
    unsent,    \* labels of journalled transactions that were never sent
    res,       \* resources: "active" or "recovered"
    owed,      \* active allowance obligations
    shares,    \* on chain: who holds funds of the owner
    allowed,   \* on chain: standing allowances, the private ones and a deployment's public ones
    record,    \* a deployment: the transactions its record in the private runtime names
    published, \* and the record its repository was given
    mishaps
vars == <<script, mode, at, todo, run, log, doubt, unsent, res, owed, shares, allowed,
          record, published, mishaps>>
chain == <<shares, allowed>>
journal == <<run, log, unsent, res, owed>>

Active == {id \in DOMAIN res : res[id] = "active"}
Succeeded == {log[i].label : i \in {j \in DOMAIN log : log[j].ok}}
Signed == {log[i].label : i \in DOMAIN log} \cup {doubt[i].label : i \in DOMAIN doubt} \cup unsent
NothingOwed == Active = {} /\ owed = {}
\* recordPreparedTransaction signs nothing more for a run in this state
Closed == run \in {"passed", "failed", "recovery-failed"} /\ NothingOwed

Clearing == FlattenSeq(SetToSeq({RevokeOwed(a) : a \in owed}))

--------------------------------------------------------------------------------
\* The scripts: what a launch does first, then; and what their catch gives back

Launchpads == {"launchpad", "configured-launchpad"}
BestExecutions == {"best-execution", "configured-compatibility"}
PublicDeployments == {"public-deployment-testnet", "public-deployment-mainnet"}
Deployments == PublicDeployments \cup {"deployment", "observable-confidential-deployment"}
Opening(s) ==
    CASE s \in Launchpads -> LaunchpadOpening
      [] s \in BestExecutions -> BestExecutionOpening
      [] s = "fee-collection" -> FeeOpening
      [] s = "best-execution-feasibility" -> FeasibilityOpening
      [] s = "position-read" -> PositionOpening
      [] s = "private-lp-accounting-probe" -> PrivateLPOpening
      [] s = "private-it-packing-probe" -> PrivateITOpening
      [] s = "quote-call-probe" -> QuoteCallOpening
      [] s = "observable-price-probe" -> ObservablePriceOpening
      [] s = "observable-confidential" -> ObservableConfidentialOpening
      [] s = "observable-confidential-deployment" -> ObservableOpening
      [] s \in PublicDeployments \cup {"deployment"} -> RecordOpening
Main(s) ==
    CASE s \in Launchpads -> LaunchpadMain(s = "configured-launchpad")
      [] s = "best-execution" -> BestExecutionMain
      [] s = "configured-compatibility" -> CompatibilityMain
      [] s = "fee-collection" -> FeeMain
      [] s = "best-execution-feasibility" -> FeasibilityMain
      [] s = "position-read" -> PositionMain
      [] s = "private-lp-accounting-probe" -> PrivateLPMain
      [] s = "private-it-packing-probe" -> PrivateITMain
      [] s = "quote-call-probe" -> QuoteCallMain
      [] s = "observable-price-probe" -> ObservablePriceMain
      [] s = "observable-confidential" -> ObservableConfidentialMain
      [] s = "deployment" -> ProtocolMain
      [] s \in PublicDeployments -> PublicMain(s = "public-deployment-mainnet")
      [] s = "observable-confidential-deployment" -> ObservableMain
Program == [s \in Scripts |-> Opening(s) \o Main(s)]
Place(s, step) == CHOOSE i \in DOMAIN Program[s] : Program[s][i] = step

Recovery ==
    CASE script \in Launchpads -> LaunchpadRescue(script = "configured-launchpad", Active,
                                                  "atomic launchpad migration" \in Succeeded)
      [] script \in BestExecutions ->
            RecoverJournalPools(script = "configured-compatibility", Active, shares)
      [] script = "fee-collection" -> RecoverFeePool(Active)
      [] script = "best-execution-feasibility" -> RecoverJournalProbes(Active, Succeeded)
      [] script = "position-read" -> RecoverActivePool(Active, shares)
      [] script = "private-lp-accounting-probe" -> RecoverActiveProbe(Active, shares)
      [] script = "private-it-packing-probe" -> RecoverPackingProbes(Active)
      [] OTHER -> << >>
\* whose catch clears the allowances as well; whose catch only marks the run; and
\* whose catch leaves even that
CatchClears == Launchpads \cup {"position-read", "private-lp-accounting-probe"}
CatchMarks ==
    {"observable-price-probe", "observable-confidential", "observable-confidential-deployment"}
CatchLeaves == {"quote-call-probe", "deployment"} \cup PublicDeployments

Created ==
    CASE script \in Launchpads -> LaunchpadCreated(script = "configured-launchpad")
      [] script = "best-execution" -> BestExecutionCreated
      [] script = "configured-compatibility" -> CompatibilityCreated
      [] script = "fee-collection" -> FeeCreated
      [] script = "best-execution-feasibility" -> FeasibilityCreated
Found ==
    CASE script \in Launchpads -> LaunchpadFound(script = "configured-launchpad")
      [] script = "best-execution" -> BestExecutionFound
      [] script = "configured-compatibility" -> CompatibilityFound
      [] script = "fee-collection" -> FeeFound
      [] script = "best-execution-feasibility" -> {}
EvidenceAccepted == Accepts(PolicyOf(script), Created, Found, log)

Init ==
    /\ script \in Scripts /\ mode = "down" /\ at = 1 /\ todo = << >> /\ run = "active"
    /\ log = << >> /\ doubt = << >> /\ unsent = {} /\ res = [id \in {} |-> "active"]
    /\ owed = {} /\ shares = {} /\ allowed = {}
    /\ record = << >> /\ published = << >> /\ mishaps = 0

--------------------------------------------------------------------------------
\* Control

Cur == IF todo # << >> THEN Head(todo) ELSE Program[script][at]
Advance ==
    /\ IF todo # << >> THEN todo' = Tail(todo) /\ at' = at ELSE todo' = todo /\ at' = at + 1
    /\ UNCHANGED <<script, mode, published>>
Go == Advance /\ UNCHANGED record
Push(steps) ==
    /\ todo' = steps \o (IF todo # << >> THEN Tail(todo) ELSE << >>)
    /\ at' = IF todo # << >> THEN at ELSE at + 1
    /\ UNCHANGED <<script, mode, record, published>>
\* the launcher deletes the runtime, and the record in it
Ends == mode' = "down" /\ at' = 1 /\ todo' = << >> /\ record' = << >> /\ UNCHANGED script
Down == Ends /\ UNCHANGED published
Mishap == mishaps < MaxMishaps[script] /\ mishaps' = mishaps + 1
Still == UNCHANGED mishaps

\* what a deployment does before its try is outside its catch
BeforeTry == script \in Deployments /\ at <= Len(Opening(script))
\* main().catch; an error in the recovery itself ends the launch; what the catch of a
\* deployment writes into its record is deleted with it
Throw ==
    IF mode = "rescuing"
    THEN Down /\ run' = IF script = "private-it-packing-probe" THEN run ELSE "recovery-failed"
    ELSE IF script \in CatchMarks THEN Down /\ run' = IF BeforeTry THEN run ELSE "failed"
    ELSE IF script \in CatchLeaves \/ run = "evidence-failed" THEN Down /\ run' = run
    ELSE /\ mode' = "rescuing"
         /\ todo' = (IF script \in CatchClears THEN Clearing ELSE << >>) \o Recovery
         /\ UNCHANGED <<script, at, run, record, published>>
\* UnknownBroadcastOutcomeError: nothing is given back while an outcome is open
Uncertain ==
    IF mode = "rescuing" THEN Throw
    ELSE Down /\ run' = IF script \in CatchLeaves THEN run ELSE "failed"

\* The operator starts a run again until it is over, or once more by mistake; the
\* launcher waits until the signer's last transaction is settled.
Launch ==
    /\ mode = "down" /\ doubt = << >> /\ (IF Closed THEN Mishap ELSE Still)
    /\ mode' = "up" /\ at' = 1 /\ todo' = << >>
    /\ UNCHANGED <<script, doubt, journal, chain, record, published>>
\* or lets a later commit give back what a disturbed run left
LaunchRecovery ==
    /\ mode = "down" /\ doubt = << >> /\ ~Closed /\ mishaps > 0 /\ script = "best-execution"
    /\ mode' = "up" /\ at' = 1 /\ todo' = RecoverySource
    /\ UNCHANGED <<script, doubt, journal, chain, record, published, mishaps>>

--------------------------------------------------------------------------------
\* Transactions

\* there is something for the step to move
Pays(step) == step.empties \cap shares # {}
Sends(step) ==
    \/ step.op \in {"call", "refused", "approve", "try"}
    \/ step.op = "unproven" /\ step.label \notin Signed
    \/ step.op = "reset" /\ step.grant \in allowed
    \/ step.op = "exit" /\ Pays(step)
CanSucceed(step) == step.spends \subseteq allowed

\* what gives funds back: full exits, closures, allowance resets, claims that pay
Returning(step) ==
    \/ step.op = "reset"
    \/ step.empties \ {FractionalFees} # {} /\ (step.op = "try" => Pays(step))
Entry(step, ok) ==
    [label |-> step.label, ok |-> ok, target |-> step.target, form |-> step.form,
     returning |-> Returning(step)]
Succeeds(step) ==
    /\ log' = Append(log, Entry(step, TRUE))
    /\ shares' = (shares \cup step.opens) \ step.empties
    /\ allowed' = CASE step.op = "approve" -> allowed \cup {step.grant}
                    [] step.op = "reset" -> allowed \ {step.grant}
                    [] OTHER -> allowed \ step.spends
Reverts(step) == log' = Append(log, Entry(step, FALSE)) /\ UNCHANGED chain

Executing == mode \in {"up", "rescuing"} /\ (todo # << >> \/ mode = "up")
Sending == Executing /\ Sends(Cur)
NotSigned == Cur.label \in Signed \/ Closed
Kept == UNCHANGED <<doubt, unsent, res, owed>>

Refusal(step) == step.op \in {"refused", "unproven"}
Mine ==
    /\ Sending /\ ~NotSigned
    /\ \/ ~Refusal(Cur) /\ CanSucceed(Cur) /\ Succeeds(Cur) /\ Go /\ Still /\ UNCHANGED run
       \/ Refusal(Cur) /\ Reverts(Cur) /\ Go /\ Still /\ UNCHANGED run
       \/ /\ Cur.op = "try" /\ Reverts(Cur) /\ Go /\ UNCHANGED run
          /\ IF Pays(Cur) THEN Mishap ELSE Still
       \/ /\ ~Refusal(Cur) /\ Cur.op # "try" /\ Reverts(Cur) /\ Throw
          /\ IF CanSucceed(Cur) THEN Mishap ELSE Still
    /\ Kept
\* the label is journalled already, or the run is over
NotSignedAgain ==
    /\ Sending /\ NotSigned /\ Still /\ UNCHANGED <<log, doubt, unsent, res, owed, chain>>
    /\ IF Cur.op = "try" THEN Go /\ UNCHANGED run ELSE Throw
\* sent, and the answer or the process is lost
LoseOutcome ==
    /\ Sending /\ ~NotSigned /\ Mishap /\ doubt' = << Cur >>
    /\ Uncertain \/ (Down /\ UNCHANGED run)
    /\ UNCHANGED <<log, unsent, res, owed, chain>>
\* the process dies between the journal and the network
DieUnsent ==
    /\ Sending /\ ~NotSigned /\ Mishap /\ unsent' = unsent \cup {Cur.label} /\ Down
    /\ UNCHANGED <<run, log, doubt, res, owed, chain>>
Land ==
    /\ doubt # << >> /\ mode = "down" /\ doubt' = << >>
    /\ \/ Reverts(doubt[1])
       \/ ~Refusal(doubt[1]) /\ CanSucceed(doubt[1]) /\ Succeeds(doubt[1])
    /\ UNCHANGED <<script, mode, at, todo, run, unsent, res, owed, record, published, mishaps>>

\* any other error, and a crash, between two transactions
Fail == Executing /\ Mishap /\ Throw /\ UNCHANGED <<log, doubt, unsent, res, owed, chain>>
Die == Executing /\ Mishap /\ Down /\ UNCHANGED <<doubt, journal, chain>>

--------------------------------------------------------------------------------
\* The journal

Persisted == Still /\ UNCHANGED <<log, doubt, unsent, chain>>
\* a premature collection that failed before is proof enough
Proven(step) == \E i \in DOMAIN log : log[i].label = step.label /\ ~log[i].ok
Residue(spender) == \E a \in allowed : a[2] = spender
Skip(step) ==
    \/ step.op \in {"reset", "exit"} /\ ~Sends(step)
    \/ step.op = "unproven" /\ Proven(step)
    \/ step.op = "owe standing" /\ step.grant \notin allowed
    \/ step.op = "resolve" /\ unsent = {}
    \/ step.op = "pending" /\ run \notin {"evidence-pending", "evidence-failed"}
    \/ step.op = "closing" /\ Active = {}
    \/ step.op = "bare" /\ ~Residue(step.target)
    \/ step.op = "conserved" /\ LPHolders \cap shares = {}
    \/ step.op = "passed" /\ run # "passed"
    \/ step.op = "fresh" /\ Signed = {}
    \/ step.op = "empty slot" /\ "atomic launchpad migration" \notin Succeeded
    \/ step.op = "interrupted" /\ DOMAIN res = {}
    \/ step.op = "wait"
    \/ step \in {AtApprovals, AtMaturity}
Pass == Executing /\ Skip(Cur) /\ Go /\ Persisted /\ UNCHANGED <<run, res, owed>>

Resources ==
    /\ Executing /\ Go /\ Persisted /\ UNCHANGED <<run, owed>>
    /\ \/ Cur.op = "record" /\ res' = res @@ (Cur.id :> "active")
       \/ Cur.op = "rebuild" /\ Cur.id \notin DOMAIN res /\ res' = (Cur.id :> "active") @@ res
       \/ Cur.op = "recovered" /\ res' = [res EXCEPT ![Cur.id] = "recovered"]
Obligations ==
    /\ Executing /\ Go /\ Persisted /\ UNCHANGED <<run, res>>
    /\ \/ Cur.op = "owe" /\ owed' = owed \cup {Cur.grant}
       \/ Cur.op = "owe standing" /\ Cur.grant \in allowed /\ owed' = owed \cup {Cur.grant}
       \/ Cur.op = "cleared" /\ Cur.grant \notin allowed /\ owed' = owed \ {Cur.grant}
\* a transaction of the configured deployment joins the evidence
Provenance ==
    /\ Executing /\ Cur.op = "observe" /\ Cur.label \notin Signed
    /\ log' = Append(log, Entry(Cur, TRUE)) /\ Go /\ Still
    /\ UNCHANGED <<run, doubt, unsent, res, owed, chain>>
Prepare ==
    /\ Executing /\ Cur.op = "plan" /\ NothingOwed /\ unsent = {} /\ doubt = << >>
    /\ run' = "evidence-pending" /\ Go /\ Persisted /\ UNCHANGED <<res, owed>>
Write ==
    /\ Executing /\ Cur.op \in {"write", "pending"} /\ ~Skip(Cur)
    /\ \/ EvidenceAccepted /\ run' = "passed" /\ Still
       \/ run' = "evidence-failed" /\ (IF EvidenceAccepted THEN Mishap ELSE Still)
    /\ Down /\ UNCHANGED <<log, doubt, unsent, res, owed, chain>>
\* The record of a deployment: reserved in a fresh runtime, and one transaction longer
\* after each; the journal of one kind is closed before its record is complete.
Recording ==
    /\ Executing /\ Advance /\ Persisted /\ UNCHANGED <<res, owed>>
    /\ \/ Cur.op = "reserve" /\ record' = << {} >> /\ run' = run
       \/ Cur.op = "list" /\ record' = << record[1] \cup {Cur.label} >> /\ run' = run
       \/ Cur.op = "mark passed" /\ record' = record /\ run' = "passed"
\* only what a launch without an error leaves is copied out of the runtime
Publish ==
    /\ Executing /\ Cur.op = "publish" /\ Ends /\ published' = record
    /\ Persisted /\ UNCHANGED <<run, res, owed>>
\* Scripts without evidence; a launch that finds nothing to do; a wait for maturity,
\* after which the operator comes back in time, or too early by mistake.
Finish ==
    /\ Executing /\ Down /\ UNCHANGED <<log, doubt, unsent, res, owed, chain>>
    /\ \/ Cur.op = "pass" /\ run' = "passed" /\ Still
       \/ Cur.op = "passed" /\ run = "passed" /\ run' = run /\ Still
       \/ Cur.op = "mark failed" /\ run' = "failed" /\ Still
       \/ /\ Cur.op = "wait" /\ run' = "awaiting-maturity"
          /\ IF run = "awaiting-maturity" THEN Mishap ELSE Still

\* the counters of the fee pool, which a full exit sets back to zero
AllSwapped == LastSwap \in Succeeded /\ "fee-pool" \in shares
\* Steps that bring in others, and steps that refuse to go on
Detour ==
    /\ Executing /\ Persisted /\ UNCHANGED <<run, res, owed>>
    /\ \/ Cur.op = "clear" /\ Push(Clearing)
       \/ Cur.op = "recover" /\ Push(Recovery)
       \/ Cur.op = "closing" /\ ~Skip(Cur) /\ Push(Recovery \o << Do("give up") >>)
       \/ Cur.op = "interrupted" /\ ~Skip(Cur) /\ Push(RecoverInterruptedProbes(Active, Succeeded))
       \/ Cur.op = "resume" /\ "fee-pool" \notin Active /\ Push(CreateDisposableStack)
       \/ /\ Cur.op = "resume" /\ "fee-pool" \in Active /\ MatureLabel \notin Succeeded
          /\ todo' = IF AllSwapped THEN NoApprovals ELSE << >>
          /\ at' = Place(script, IF AllSwapped THEN AtMaturity ELSE AtApprovals)
          /\ UNCHANGED <<script, mode, record, published>>
Stop ==
    /\ Executing
    /\ \/ Cur.op \in {"resolve", "bare", "conserved", "fresh", "empty slot"} /\ ~Skip(Cur)
       \/ Cur.op = "unproven" /\ ~Sends(Cur) /\ ~Skip(Cur)
       \/ Cur.op = "cleared" /\ Cur.grant \in allowed
       \/ Cur.op = "rebuild" /\ Cur.id \in DOMAIN res
       \/ Cur.op = "give up"
       \/ Cur.op = "plan" /\ ~(NothingOwed /\ unsent = {} /\ doubt = << >>)
       \/ Cur.op = "resume" /\ "fee-pool" \in Active /\ MatureLabel \in Succeeded
    /\ Throw /\ Persisted /\ UNCHANGED <<res, owed>>
RescueDone ==
    /\ mode = "rescuing" /\ todo = << >> /\ Down /\ run' = "failed"
    /\ Persisted /\ UNCHANGED <<res, owed>>

Step == Mine \/ NotSignedAgain \/ Pass \/ Resources \/ Obligations \/ Provenance \/ Prepare \/ Write \/ Finish
        \/ Recording \/ Publish \/ Detour \/ Stop \/ RescueDone
Next == Launch \/ LaunchRecovery \/ Step \/ LoseOutcome \/ DieUnsent \/ Land \/ Fail \/ Die
Spec == Init /\ [][Next]_vars
FairSpec == Spec /\ WF_vars(Step) /\ WF_vars(Land) /\ WF_vars(~Closed /\ Launch)

--------------------------------------------------------------------------------
TypeOK ==
    /\ script \in Scripts /\ mode \in {"down", "up", "rescuing"} /\ Len(doubt) <= 1
    /\ run \in {"active", "failed", "recovery-failed", "awaiting-maturity", "evidence-pending",
                "evidence-failed", "passed"}
    /\ \A id \in DOMAIN res : res[id] \in {"active", "recovered"}
    /\ Len(record) <= 1 /\ Len(published) <= 1
    /\ mishaps \in 0..MaxMishaps[script]

\* Whenever no process runs and nothing is in doubt, the journal on disk names what
\* holds the owner's funds: each allowance is an obligation, each pool a resource,
\* or found again from the stack it was opened on.
ResourceOf(holder) ==
    CASE holder \in LPHolders -> "private-lp-accounting-probe"
      [] holder = "timed LP lock" -> "position-read-pool"
      [] OTHER -> holder
Held ==
    {h \in {ResourceOf(s) : s \in shares} : script \in OpensFirst => h \in DOMAIN res}
Standing == IF script \in Unowed THEN {} ELSE allowed
Rebuildable == IF "launchpad-stack" \in Active THEN {"launchpad-pool"} ELSE {}
JournalCoversFunds ==
    mode = "down" /\ doubt = << >> => Standing \subseteq owed /\ Held \subseteq Active \cup Rebuildable

\* A run nothing happened to passes: it never ends in its catch, and the evidence
\* of its own transactions meets the policy of its runner; a deployment that sent
\* anything is published.
UndisturbedRunPasses ==
    mishaps = 0 =>
        /\ script \notin NoEvidence =>
            run \notin {"failed", "recovery-failed", "evidence-failed"} /\ mode # "rescuing"
        /\ script \in Deployments /\ mode = "down" /\ log # << >> => published # << >>

\* A passed run, and a published deployment, has given back everything and settled
\* every transaction; the published record names each of them, and each succeeded.
PassedMeansClean ==
    /\ mode = "down" /\ (run = "passed" \/ published # << >>) =>
        shares = {} /\ allowed = {} /\ NothingOwed /\ doubt = << >> /\ unsent = {}
    /\ published # << >> =>
        published[1] = {log[i].label : i \in DOMAIN log} /\ published[1] = Succeeded

\* What a run left behind is given back and its journal closed in the end, with two
\* outcomes that leave it for good. One of the transactions that give it back was signed
\* and did not do so: its label is not signed again. Or the recovery of the LP probe
\* claimed while the fees were a fraction of a unit and burned the last shares after it.
Open == Held # {} \/ Standing # {} \/ (script \notin Wedges /\ ~NothingOwed)
Wasted == unsent # {} \/ \E i \in DOMAIN log : ~log[i].ok /\ log[i].returning
ClaimedTooEarly == "unclaimed LP fees" \in shares /\ "recover primary LP shares" \in Succeeded
RecoveryCompletes ==
    mode = "down" /\ Open /\ script \notin NoRecovery ~> ~Open \/ Wasted \/ ClaimedTooEarly
================================================================================
