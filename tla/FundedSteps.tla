------------------------------- MODULE FundedSteps -------------------------------
(***************************************************************************)
(* The steps the funded test scripts are built from.  A script is a        *)
(* sequence of steps; FundedScenarios runs them.  A label is the one its   *)
(* transaction is journalled under, an allowance a pair <<token,spender>>, *)
(* a contract the name its evidence gives it, and a pool or a probe that   *)
(* holds the owner's funds the identity of its recovery resource.          *)
(***************************************************************************)
EXTENDS SequencesExt

Blank == [op |-> "call", label |-> "", target |-> "", form |-> "", opens |-> {},
          empties |-> {}, spends |-> {}, grant |-> << >>, id |-> ""]
Do(op) == [Blank EXCEPT !.op = op]

\* submit: one journalled transaction that must be mined with success
Call(label, target) == [Blank EXCEPT !.label = label, !.target = target]
Spend(label, target, spends) == [Call(label, target) EXCEPT !.spends = spends]
Fund(label, target, holder, spends) == [Spend(label, target, spends) EXCEPT !.opens = {holder}]
Drain(label, target, holder) == [Call(label, target) EXCEPT !.empties = {holder}]
\* expectMinedFailure: one that must be mined with a revert
Refused(label, target) == [Call(label, target) EXCEPT !.op = "refused"]
\* one whose refusal is shown only once; one whose errors are swallowed
Unproven(step) == [step EXCEPT !.op = "unproven"]
Try(step) == [step EXCEPT !.op = "try"]
\* what its calldata says, where the evidence is compared with it
Saying(step, form) == [step EXCEPT !.form = form]

\* deployFunded, and a provenance record of a transaction of an earlier run
Deploy(label, contract) == [Call(label, contract) EXCEPT !.form = "creation"]
Observe(label, contract) == [Deploy(label, contract) EXCEPT !.op = "observe"]

\* recordResource, markRecovered; and a record that must leave the resource active
Record(id) == [Do("record") EXCEPT !.id = id]
Recovered(id) == [Do("recovered") EXCEPT !.id = id]
Rebuild(id) == [Do("rebuild") EXCEPT !.id = id]

\* A full exit is a transaction only while there are shares
ExitAll(label, target, holder) == [Drain(label, target, holder) EXCEPT !.op = "exit"]

\* Nothing of the owner's may be left there: no allowance to this contract
Bare(spender) == [Do("bare") EXCEPT !.target = spender]

\* setRecoverablePrivateAllowance: the obligation is durable before the first
\* transaction; a standing allowance is reset first; the obligation ends at zero.
AllowanceOf(op, label, a) ==
    [Call(label, a[1]) EXCEPT !.op = op, !.grant = a]
\* An operator named for a slip (OwedLate) is the definition after it with
\* that slip made: the mutant a property must catch. No behaviour of Spec uses it.
ApproveOwedLate(label, a) ==
    << AllowanceOf("reset", label \o " reset", a), AllowanceOf("approve", label, a),
       AllowanceOf("owe", label, a) >>
Approve(label, a) ==
    << AllowanceOf("owe", label, a), AllowanceOf("reset", label \o " reset", a),
       AllowanceOf("approve", label, a) >>
Revoke(label, a) ==
    << AllowanceOf("owe standing", label, a), AllowanceOf("reset", label \o " reset", a),
       AllowanceOf("cleared", label, a) >>
ApproveBoth(label, suffix, spender) ==
    Approve(label \o " token0 " \o suffix, <<"token0", spender>>)
    \o Approve(label \o " token1 " \o suffix, <<"token1", spender>>)
RevokeBoth(label, suffix, spender) ==
    Revoke(label \o " token0 " \o suffix, <<"token0", spender>>)
    \o Revoke(label \o " token1 " \o suffix, <<"token1", spender>>)
Both(spender) == {<<"token0", spender>>, <<"token1", spender>>}

\* recoverPrivateAllowanceObligations
RevokeOwed(a) == Revoke("recovery allowance:" \o a[1] \o ":" \o a[2], a)
================================================================================
