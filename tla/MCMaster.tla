------------------------------ MODULE MCMaster ------------------------------
(* Any two signals, and three with which workers that were sent away come  *)
(* back, or do not, to a master that is told to stop: at the end of the    *)
(* new binary, or by HUP.                                                  *)
EXTENDS MasterCycle

MCSlots == 1 .. 14

Plan(signals) ==
  [s \in AdminSignal |-> Cardinality({i \in DOMAIN signals : signals[i] = s})]

MCPlans ==
  {Plan(<<s, t>>) : s \in AdminSignal, t \in AdminSignal}
  \cup {Plan(<<"WINCH", "USR2", "TERM">>), Plan(<<"WINCH", "USR2", "QUIT">>),
        Plan(<<"WINCH", "HUP", "QUIT">>)}
=============================================================================
