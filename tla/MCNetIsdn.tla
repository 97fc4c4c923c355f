------------------------------ MODULE MCNetIsdn ------------------------------
(***************************************************************************)
(* Instances of NetIsdn for TLC: netisdn on two or three hosts, each with  *)
(* an account of its own, and what may happen to them.                     *)
(***************************************************************************)
EXTENDS NetIsdn, TLC

CONSTANTS c1, c2, c3, u1, u2, u3, a1

AccountOf == [c \in Clients |-> CASE c = c1 -> u1 [] c = c2 -> u2 [] c = c3 -> u3]
HostOf == [c \in Clients |-> a1]
OpenNet == [a \in Addrs |-> {a}]
Everyone == [c \in Clients |-> Uids]
Others == [c \in Clients |-> Uids \ {AccountOf[c]}]
\* One calls both others, one answers back, one is called
CallAndAnswer == [c \in Clients |-> CASE c = c1 -> {u2, u3} [] c = c2 -> {u1} [] c = c3 -> {}]
AllDecode == [c \in Clients |-> TRUE]
OnlyFirstDecodes == [c \in Clients |-> c = c1]

\* Where all may call all, clients are interchangeable, each with its user
Swap(p) == p @@ [u \in Uids |-> AccountOf[p[CHOOSE c \in Clients : AccountOf[c] = u]]]
PairSymmetry == {Swap(p) : p \in Permutations(Clients)}

\* No action reads apart, out (but in the step that writes it) or online, nor, where the clock is
\* steady, the rows of CALLS: only how many there are, and which are ended.  The
\* invariants of the call runs read none of them.
CallView ==
    <<up, sockVars, idVars, callVars, timeVars, nrows, ended, netVars, tcp, once, retry, reauth,
      acct, seen, button, media, byes, issued, left>>
AgreeView == <<CallView, apart>>

\* Budgets: nothing happens but what is named
Only(limits) == [b \in Budgets |-> IF b \in DOMAIN limits THEN limits[b] ELSE 0]
CallsAndFault == Only([click |-> 3, fault |-> 1])
ClicksAndDeath == Only([click |-> 3, shutdown |-> 1])
Trouble == Only([reauth |-> 1, settings |-> 1, sweep |-> 1, quit |-> 1, shutdown |-> 1])
=============================================================================
