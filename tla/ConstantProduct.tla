--------------------------- MODULE ConstantProduct ---------------------------
(***************************************************************************)
(* The integer arithmetic every CipherDEX pool settles with: the fee       *)
(* policy, the constant-product quote and the proportional share           *)
(* computations.  Pure operators, no state.  The fee parameters are        *)
(* constants so that a small instance can keep the rounding cases (a net   *)
(* input of zero, a protocol fee of zero, an inexact quotient) that the    *)
(* 10_000 / 6 of the contracts only shows with large amounts.              *)
(***************************************************************************)
EXTENDS FullMath

CONSTANTS
    FeeDenominator,       \* FEE_DENOMINATOR, 10_000 in the contracts
    FeeBps,               \* the pool's fee tier
    FeeShareDenominator   \* PROTOCOL_FEE_SHARE_DENOMINATOR, 6 in the contracts

ASSUME FeeAssumption ==
    /\ FeeDenominator \in Nat \ {0}
    /\ FeeBps \in 1 .. FeeDenominator
    /\ FeeShareDenominator \in Nat \ {0}

-----------------------------------------------------------------------------
(* Fees: what is left of an input after the fee, and the protocol's share  *)
(* of the fee actually charged.                                            *)

NetAmount(amount) == MulDiv(amount, FeeDenominator - FeeBps, FeeDenominator)
ProtocolFeeFromTotal(totalFee) == totalFee \div FeeShareDenominator
ProtocolFee(received) == ProtocolFeeFromTotal(received - NetAmount(received))

-----------------------------------------------------------------------------
(* The quote: the output reserve retained is rounded up, so the product of *)
(* the reserves never falls.                                               *)

RetainedRoundedDown(amountIn, reserveIn, reserveOut) ==     \* a mutant
    MulDiv(reserveIn, reserveOut, reserveIn + NetAmount(amountIn))

Retained(amountIn, reserveIn, reserveOut) ==
    MulDivUp(reserveIn, reserveOut, reserveIn + NetAmount(amountIn))

Quotable(amountIn, reserveIn, reserveOut) ==
    /\ amountIn # 0 /\ reserveIn # 0 /\ reserveOut # 0
    /\ NetAmount(amountIn) # 0
    /\ Retained(amountIn, reserveIn, reserveOut) < reserveOut

AmountOut(amountIn, reserveIn, reserveOut) ==
    reserveOut - Retained(amountIn, reserveIn, reserveOut)

-----------------------------------------------------------------------------
(* Shares: an addition mints for the scarcer side and charges the rounded  *)
(* up proportion of each reserve; a removal pays the rounded down one.     *)

SharesFor(amount0, amount1, reserve0, reserve1, supply) ==
    Least(MulDiv(amount0, supply, reserve0), MulDiv(amount1, supply, reserve1))

Charge(minted, reserve, supply) == MulDivUp(minted, reserve, supply)

Nominal(share, reserve, supply) ==
    IF share = supply THEN reserve ELSE MulDiv(share, reserve, supply)
=============================================================================
