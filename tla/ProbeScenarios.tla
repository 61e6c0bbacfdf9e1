----------------------------- MODULE ProbeScenarios -----------------------------
(***************************************************************************)
(* The probe scripts: small runs over contracts of their own.  Only the    *)
(* feasibility probe publishes evidence; the others end at markRun.        *)
(***************************************************************************)
EXTENDS FundedSteps

--------------------------------------------------------------------------------
\* testnet-best-execution-feasibility: two pool probes hold the output token

ProbeName(id) == CASE id = "pool-probe-0" -> "GT pool probe 0" [] id = "pool-probe-1" -> "GT pool probe 1"
                   [] id = "router-probe" -> "GT router probe"
\* main and the recovery close the same probe under two labels
ClosureLabel(id) == CASE id = "pool-probe-0" -> "pool probe 0 closure and recovery"
                      [] id = "pool-probe-1" -> "pool probe 1 closure and recovery"
                      [] id = "router-probe" -> "router probe closure and recovery"
RecoveryLabel(id) == id \o " closure and recovery"

DeployProbe(label, id) == << Deploy(label, ProbeName(id)), Record(id) >>
CloseProbe(id, label) == << Drain(label, ProbeName(id), id), Recovered(id) >>
ProbeEscrow == <<"token0", "GT router probe">>

FeasibilityCreated == {
    <<"GT pool probe 0", "MpcBestExecutionPoolProbe">>,
    <<"GT pool probe 1", "MpcBestExecutionPoolProbe">>,
    <<"GT router probe", "MpcBestExecutionRouterProbe">>}
FeasibilityOpening == << Do("resolve"), Do("recover"), Do("pending") >>
\* The escrow allowance is set by a plain transaction: it is no obligation
FeasibilityMain ==
    DeployProbe("pool probe 0 deployment", "pool-probe-0")
    \o DeployProbe("pool probe 1 deployment", "pool-probe-1")
    \o DeployProbe("router probe deployment", "router-probe")
    \o << Call("pool probe 0 router binding", "GT pool probe 0"),
          Call("pool probe 1 router binding", "GT pool probe 1"),
          Fund("pool probe 0 output funding", "token1", "pool-probe-0", {}),
          Fund("pool probe 1 output funding", "token1", "pool-probe-1", {}),
          Call("cross-contract GT quote and private selection", "GT router probe"),
          AllowanceOf("approve", "encrypted approval", ProbeEscrow),
          Spend("atomic selected-pool settlement", "GT router probe", {ProbeEscrow}) >>
    \o CloseProbe("pool-probe-0", ClosureLabel("pool-probe-0"))
    \o CloseProbe("pool-probe-1", ClosureLabel("pool-probe-1"))
    \o CloseProbe("router-probe", ClosureLabel("router-probe"))
    \o << Do("plan"), Do("write") >>

\* A closed probe is taken for recovered only under the recovery's own label
RecoverProbe(id, succeeded) ==
    IF RecoveryLabel(id) \in succeeded THEN << Recovered(id) >>
    ELSE IF ClosureLabel(id) \in succeeded THEN << Do("give up") >>
    ELSE CloseProbe(id, RecoveryLabel(id))
RecoverJournalProbes(active, succeeded) ==
    LET left == SelectSeq(<< "pool-probe-0", "pool-probe-1", "router-probe" >>,
                          LAMBDA id : id \in active) IN
    FlattenSeq([i \in DOMAIN left |-> RecoverProbe(left[i], succeeded)])

--------------------------------------------------------------------------------
\* testnet-position-read: reads of one position, active and locked

Focused == "focused canonical pool"
PositionOpening == << Do("resolve"), Do("clear"), Do("recover"), Do("passed") >>
OpenFocused ==
    << Call("create focused canonical pool", "confidential factory"), Record("position-read-pool") >>
    \o ApproveBoth("focused", "liquidity approval", Focused)
    \o << Fund("initialize focused canonical pool", Focused, "position-read-pool", Both(Focused)) >>
    \o RevokeBoth("focused", "allowance cleanup", Focused)
    \o << Call("owner-encrypted active position read", Focused) >>
PreviewLockExit == <<
    Call("owner-encrypted partial withdrawal preview", Focused),
    Call("owner-encrypted full withdrawal preview", Focused),
    Fund("create focused timed LP lock", Focused, "timed LP lock", {}),
    Call("owner-encrypted locked position read", Focused),
    Drain("release focused timed LP lock", Focused, "timed LP lock"),
    Call("execute previewed partial withdrawal", Focused),
    Drain("execute focused full position exit", Focused, "position-read-pool"),
    Recovered("position-read-pool"), Do("pass") >>
PositionMain == OpenFocused \o PreviewLockExit
\* Its lock was named in the journal before it was taken
RecoverActivePool(active, holders) ==
    IF "position-read-pool" \notin active THEN << >>
    ELSE (IF "timed LP lock" \in holders
          THEN << Drain("recover timed position lock", Focused, "timed LP lock") >> ELSE << >>)
         \o << ExitAll("recover full position exit", Focused, "position-read-pool"),
               Recovered("position-read-pool") >>

--------------------------------------------------------------------------------
\* testnet-private-lp-accounting-probe: fees accrue to the shares of two holders

LPProbe == "private LP accounting probe"
\* Fees are owed in fractions of a unit: a claim pays only what is whole of them
FractionalFees == "fractional LP fees"
LPHolders == {"unclaimed LP fees", FractionalFees, "primary LP shares", "second LP shares"}
LPAllowance == <<"token0", LPProbe>>
Mint(label, holder) == Fund(label, LPProbe, holder \o " LP shares", {})
Burn(label, holder) == Drain(label, LPProbe, holder \o " LP shares")
\* What a fee is for its holder: three shares share the first, and the last, of one unit
AccrueFraction(label, spends) == Fund(label, LPProbe, FractionalFees, spends)
\* one more fee, or an empty holder's fraction, makes the fraction whole
MadeWhole(step) == [step EXCEPT !.opens = @ \cup {"unclaimed LP fees"},
                                !.empties = @ \cup {FractionalFees}]
ClaimFees(label) == Drain(label, LPProbe, "unclaimed LP fees")

PrivateLPOpening == << Do("resolve"), Do("clear"), Do("recover"), Do("passed"), Do("fresh") >>
BranchlessSettlement == <<
    Mint("mint branchless-settlement shares", "primary"),
    AccrueFraction("accrue no-borrow settlement fee", {}),
    Call("settle branchless no-borrow case", LPProbe),
    MadeWhole(Call("accrue borrow settlement fee", LPProbe)),
    Call("settle branchless borrow case", LPProbe),
    ClaimFees("consume branchless settlement claim"),
    Burn("burn branchless-settlement shares", "primary"),
    Call("read branchless-settlement conservation", LPProbe) >>
CarryRecycling == <<
    Mint("mint carry-recycling primary shares", "primary"),
    Mint("mint carry-recycling second shares", "second"),
    AccrueFraction("accrue carry-recycling fee", {LPAllowance}),
    MadeWhole(Burn("burn zero-balance holder and recycle carry", "second")),
    Call("read recycled zero-balance holder carry", LPProbe),
    Call("read redistributed active-holder carry", LPProbe),
    Call("read carry-recycling conservation", LPProbe),
    ClaimFees("consume recycled carry claim"),
    Burn("burn final carry-recycling shares", "primary"),
    Mint("reinitialize after recycled-carry generation", "second"),
    Call("read reinitialized holder carry", LPProbe),
    Burn("burn reinitialized carry-recycling generation", "second") >>
PrivateLPMain ==
    << Call("PrivateLPAccountingProbe deployment", ""),
       Call("PrivateLPAccountingDelegatedSpenderProbe deployment", ""),
       Record("private-lp-accounting-probe") >>
    \o Approve("private LP probe token0 approval", LPAllowance)
    \o BranchlessSettlement \o CarryRecycling
    \o << Do("clear"), Call("read final Phase 2C token0 conservation", LPProbe),
          Call("read final Phase 2C token1 conservation", LPProbe), Do("conserved"),
          Recovered("private-lp-accounting-probe"), Do("pass") >>

\* Claims that may fail, or be mined and pay nothing; only then every share to the first
\* holder and burned, where the last burn makes a fraction whole that is claimed no
\* more; and the books read, under labels that a second recovery cannot sign again
RecoverActiveProbe(active, holders) ==
    LET moveSecond == ExitAll("recover second LP shares", LPProbe, "second LP shares")
        burnPrimary == ExitAll("recover primary LP shares", LPProbe, "primary LP shares") IN
    IF "private-lp-accounting-probe" \notin active THEN << >>
    ELSE << Try(ClaimFees("recover primary token0 LP claim")),
            Try(Call("recover second token0 LP claim", LPProbe)),
            Try(Call("recover primary token1 LP claim", LPProbe)),
            Try(Call("recover second token1 LP claim", LPProbe)),
            [moveSecond EXCEPT !.opens = {"primary LP shares"}],
            IF FractionalFees \in holders THEN MadeWhole(burnPrimary) ELSE burnPrimary,
            Call("recover token0 conservation", LPProbe), Do("conserved"),
            Call("recover token1 conservation", LPProbe), Do("conserved"),
            Recovered("private-lp-accounting-probe") >>

--------------------------------------------------------------------------------
\* testnet-private-it-packing-probe: no funds, only inputs that must be bound

PackingProbe == "private IT packing probe"
PrivateITOpening == << Do("resolve"), Do("recover"), Do("passed"), Do("fresh") >>
PackedCalls == <<
    Call("primary packing probe deployment", ""), Call("secondary packing probe deployment", ""),
    Record("primary-packing-probe"), Record("secondary-packing-probe"),
    Call("validate two separate IT fields", PackingProbe),
    Call("validate and unpack one packed IT", PackingProbe),
    Call("complete separate-IT swap-like call", PackingProbe),
    Call("complete packed-IT swap-like call", PackingProbe),
    Call("complete Mode 2 packed swap-like call", PackingProbe),
    Call("complete separate-IT liquidity-like call", PackingProbe),
    Call("complete packed-IT liquidity-like call", PackingProbe),
    Call("decode maximum packed boundary fields", PackingProbe) >>
PackedRefusals == <<
    Refused("reject selector-bound packed IT reuse", PackingProbe),
    Refused("reject caller-bound packed IT reuse", PackingProbe),
    Refused("reject target-bound packed IT reuse", PackingProbe),
    Refused("reject tampered packed IT signature", PackingProbe),
    Refused("reject exact packed IT replay", PackingProbe),
    Refused("propagate packed-field underflow", PackingProbe),
    Call("reuse request after atomic underflow rollback", PackingProbe),
    Refused("propagate packed-field overflow", PackingProbe) >>
PrivateITMain == PackedCalls \o PackedRefusals \o << Do("recover"), Do("pass") >>
RecoverPackingProbes(active) ==
    LET left == SelectSeq(<< "primary-packing-probe", "secondary-packing-probe" >>,
                          LAMBDA id : id \in active) IN
    [i \in DOMAIN left |-> Recovered(left[i])]

--------------------------------------------------------------------------------
\* testnet-quote-call-probe: one deployment, then reads without a transaction

QuoteCallOpening == << Do("resolve"), Do("passed"), Do("fresh") >>
QuoteCallMain == <<
    Call("probe deployment", ""), Record("mpc-quote-call-probe"),
    Call("transactional MPC control", "MPC quote-call probe"),
    Recovered("mpc-quote-call-probe"), Do("pass") >>

--------------------------------------------------------------------------------
\* testnet-observable-price-probe: three probes that publish at their own pace

PriceProbes == << "baseline", "immediate", "delayed" >>
DeployPriceProbe(id) == << Call(id \o " deployment", ""), Record(id) >>
ClosePriceProbe(id) == << Drain(id \o " close", id, id), Recovered(id) >>
ObservablePriceOpening == << Do("resolve"), Do("passed"), Do("interrupted"), Do("fresh") >>
ObservablePriceMain ==
    DeployPriceProbe("baseline") \o DeployPriceProbe("immediate") \o DeployPriceProbe("delayed")
    \o << Call("baseline confidential transition", "baseline"),
          Call("lazy immediate non-closing transition 1", "immediate"),
          Call("lazy immediate non-closing transition 2", "immediate"),
          Call("lazy immediate closing transition", "immediate"),
          Call("delayed first closing transition", "delayed"),
          Call("delayed publishing transition", "delayed") >>
    \o ClosePriceProbe("baseline") \o ClosePriceProbe("immediate") \o ClosePriceProbe("delayed")
    \o << Do("pass") >>
RecoverInterruptedProbes(active, succeeded) ==
    LET left == SelectSeq(PriceProbes, LAMBDA id : id \in active)
        close(id) == IF id \o " close" \in succeeded THEN << Recovered(id) >>
                     ELSE ClosePriceProbe(id) IN
    FlattenSeq([i \in DOMAIN left |-> close(left[i])]) \o << Do("mark failed") >>

--------------------------------------------------------------------------------
\* testnet-observable-confidential: a stack of the observable kind and one pool

ObservablePoolName == "observable pool"
ObservableSwap == <<"token0", ObservablePoolName>>
ObservableConfidentialOpening == << Do("resolve"), Do("clear"), Do("passed"), Do("fresh") >>
DeployObservableStack == <<
    Call("CipherDEXConfidentialFeeVault deployment", ""),
    Call("ObservableConfidentialCPMMDeployer deployment", ""),
    Call("ObservableConfidentialInitializationStrategyRegistry deployment", ""),
    Call("ObservableConfidentialCPMMFactory deployment", ""),
    Call("observable vault binding", "observable vault"),
    Call("observable deployer binding", "observable deployer"),
    Call("observable registry binding", "observable registry"),
    Call("ObservableConfidentialLaunchInitializationStrategy deployment", ""),
    Call("observable strategy registration", "observable registry"),
    Call("observable registry finalization", "observable registry"),
    Call("ObservableConfidentialBestExecutionRouter deployment", ""),
    Call("observable router binding", "observable factory") >>
ObserveSwaps ==
    << Call("observable pool creation", "observable factory"), Record("observable-pool") >>
    \o ApproveBoth("observable", "liquidity approval", ObservablePoolName)
    \o << Fund("observable pool initialization", ObservablePoolName, "observable-pool",
               Both(ObservablePoolName)) >>
    \o RevokeBoth("observable", "liquidity cleanup", ObservablePoolName)
    \o Approve("observable swap approval", ObservableSwap)
    \o << Call("observable swap 1", ObservablePoolName), Call("observable swap 2", ObservablePoolName),
          Spend("observable swap 3", ObservablePoolName, {ObservableSwap}) >>
    \o Revoke("observable swap allowance cleanup", ObservableSwap)
    \o << Drain("observable full liquidity exit", ObservablePoolName, "observable-pool"),
          Recovered("observable-pool"), Do("pass") >>
ObservableConfidentialMain == DeployObservableStack \o ObserveSwaps
================================================================================
