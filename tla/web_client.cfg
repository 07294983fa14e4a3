SPECIFICATION FairSpec
CONSTANTS
  Text = {"hi", "ok"}
  SendCall = {s1, s2}
  TimerCall = {p1}
  NetworkMayFail = TRUE
  PatientUser = TRUE
  MaxClicks = 2
INVARIANTS ShownIsPrefix TextKept
PROPERTY ShownForGood
