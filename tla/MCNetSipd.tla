------------------------------ MODULE MCNetSipd ------------------------------
(***************************************************************************)
(* Instances of NetSipd for TLC.                                           *)
(***************************************************************************)
EXTENDS NetSipd, TLC

CONSTANTS a1

\* Hosts on the open network report the address they are seen under
OpenNet == [a \in Addrs |-> {a}]

\* Users are interchangeable: no definition names one
UserSymmetry == Permutations(Uids)

\* No action reads out or online, nor, where the clock is steady, the rows of
\* CALLS, and the properties of the call runs read out only in the next state of
\* a step: states that differ in these alone have the same futures
CallView == <<up, sockVars, idVars, callVars, timeVars, nrows, ended>>
=============================================================================
