---------------------------- MODULE MasterProofs ----------------------------
(***************************************************************************)
(* Proofs about MasterCycle, for any number of slots, workers, signals and *)
(* faults, in any order: the master leaves no worker behind.               *)
(***************************************************************************)
EXTENDS MasterCycle, TLAPS

TypeInv ==
  /\ procs \in [Slots -> Child]
  /\ cycle \in Nat

(* The new binary is the only child that is detached, and nobody tells it  *)
(* to exit.                                                                *)
DetachedInv == \A i \in Slots : procs[i].detached => ~procs[i].exiting

(* What the last reap found is still true: if it found no child left, then *)
(* none was started since, unless by HUP beside a new binary.              *)
LiveInv ==
  live \/ "rehired" \in excused
       \/ \A i \in Slots : ~procs[i].detached => procs[i].st \notin Alive

(* The master stops only on what the last reap found.                      *)
ExitInv == pc = "exited" => ~live

IInv == TypeInv /\ DetachedInv /\ LiveInv /\ ExitInv

-----------------------------------------------------------------------------
(* Tables of children                                                      *)

LEMMA EmptyIsChild == Empty \in Child /\ ~Empty.detached /\ ~Empty.exiting
                      /\ Empty.st = "free"
BY DEF Empty, Child, Alive, Ended

LEMMA ToldKeeps ==
  ASSUME NEW c \in Child, NEW command \in {"QUIT", "TERMINATE", "KILL", "REOPEN"}
  PROVE  /\ Told(c, command) \in Child
         /\ Told(c, command).st = c.st
         /\ Told(c, command).detached = c.detached
         /\ c.detached => Told(c, command) = c
BY DEF Told, Addressed, Child

LEMMA StartedKeeps ==
  ASSUME TypeInv, DetachedInv, NEW k \in Nat, NEW just \in BOOLEAN, NEW n
  PROVE  /\ Started(k, just, n) \in [Slots -> Child]
         /\ \A i \in Slots : Started(k, just, n)[i].detached => ~Started(k, just, n)[i].exiting
BY EmptyIsChild DEF Started, TypeInv, DetachedInv, Empty, Child, Alive, Ended

(* Telling the workers changes neither who is there nor who is detached.   *)
LEMMA SignalKeeps ==
  ASSUME NEW t \in [Slots -> Child], NEW f,
         NEW command \in {"QUIT", "TERMINATE", "KILL", "REOPEN"},
         SignalWorkers(t, command, f),
         \A i \in Slots : t[i].detached => ~t[i].exiting
  PROVE  /\ procs' \in [Slots -> Child]
         /\ \A i \in Slots : /\ procs'[i].st = t[i].st
                             /\ procs'[i].detached = t[i].detached
                             /\ procs'[i].detached => ~procs'[i].exiting
<1>1. procs' = [i \in Slots |-> Told(t[i], command)] BY DEF SignalWorkers
<1>2. \A i \in Slots : t[i] \in Child OBVIOUS
<1> QED BY <1>1, <1>2, ToldKeeps

LEMMA WaitedKeeps ==
  ASSUME NEW c \in Child
  PROVE  /\ Waited(c) \in Child /\ Waited(c).detached = c.detached
         /\ Waited(c).exiting = c.exiting
         /\ Waited(c).st \in Alive => c.st \in Alive
BY DEF Waited, Child, Alive, Ended

LEMMA ReapedKeeps ==
  ASSUME TypeInv, NEW c \in Child, NEW forks \in BOOLEAN
  PROVE  /\ Reaped(c, forks) \in Child
         /\ c.detached /\ Reaped(c, forks).detached =>
              Reaped(c, forks).exiting = c.exiting
         /\ Reaped(c, forks).detached => c.detached
BY EmptyIsChild DEF Reaped, Respawns, TypeInv, Child, Alive, Ended

(* The loop goes on at one of its stages.                                  *)
LEMMA StageIsStage ==
  ASSUME NEW n \in Nat, NEW f
  PROVE  StageAfter(n, f) \in {Stages[i] : i \in DOMAIN Stages} \cup {"suspend"}
<1> DEFINE On(stage) ==
             IF stage = "stop" THEN {"terminate", "quit"} \cap f # {} ELSE stage \in f
           on == {i \in n + 1 .. Len(Stages) : On(Stages[i])}
<1>1. StageAfter(n, f) =
        IF on = {} THEN "suspend" ELSE Stages[CHOOSE i \in on : \A j \in on : i <= j]
  BY DEF StageAfter
<1>2. Len(Stages) = 7 /\ DOMAIN Stages = 1 .. 7
  BY DEF Stages
<1>3. on \subseteq 1 .. 7 /\ on \subseteq Nat BY <1>2
<1> HIDE DEF on
<1>4. ASSUME on # {} PROVE (CHOOSE i \in on : \A j \in on : i <= j) \in 1 .. 7
  <2>1. \A j \in on : j \in {1, 2, 3, 4, 5, 6, 7} BY <1>3
  <2>2. \E i \in {1, 2, 3, 4, 5, 6, 7} : i \in on /\ \A j \in on : i <= j
    <3>1. CASE 1 \in on BY <2>1, <3>1
    <3>2. CASE 1 \notin on /\ 2 \in on BY <2>1, <3>2
    <3>3. CASE {1, 2} \cap on = {} /\ 3 \in on BY <2>1, <3>3
    <3>4. CASE {1, 2, 3} \cap on = {} /\ 4 \in on BY <2>1, <3>4
    <3>5. CASE {1, 2, 3, 4} \cap on = {} /\ 5 \in on BY <2>1, <3>5
    <3>6. CASE {1, 2, 3, 4, 5} \cap on = {} BY <1>4, <2>1, <3>6
    <3> QED BY <3>1, <3>2, <3>3, <3>4, <3>5, <3>6
  <2>3. \E i \in on : \A j \in on : i <= j BY <2>2
  <2> QED BY <1>3, <2>3
<1> QED BY <1>1, <1>2, <1>4

(* The loop ends only in the stage "stop".                                 *)
LEMMA StageGoesOn ==
  ASSUME NEW n \in Nat, NEW f PROVE StageAfter(n, f) # "exited"
<1>1. \A i \in DOMAIN Stages : Stages[i] # "exited" BY DEF Stages
<1> QED BY <1>1, StageIsStage

-----------------------------------------------------------------------------
LEMMA InitHolds == Init => IInv
<1> SUFFICES ASSUME Init PROVE IInv OBVIOUS
<1>1. TypeInv /\ DetachedInv
  BY EmptyIsChild DEF Init, TypeInv, DetachedInv, Empty, Child, Alive, Ended
<1>2. LiveInv /\ ExitInv BY DEF Init, LiveInv, ExitInv
<1> QED BY <1>1, <1>2 DEF IInv
-----------------------------------------------------------------------------
(* Telling the workers leaves what was found true.                         *)
LEMMA TellStep ==
  ASSUME TypeInv, DetachedInv, LiveInv, NEW f,
         NEW command \in {"QUIT", "TERMINATE", "KILL", "REOPEN"},
         SignalWorkers(procs, command, f), UNCHANGED <<cycle, live>>,
         excused \subseteq excused'
  PROVE  TypeInv' /\ DetachedInv' /\ LiveInv'
<1>1. /\ procs' \in [Slots -> Child]
      /\ \A i \in Slots : /\ procs'[i].st = procs[i].st
                          /\ procs'[i].detached = procs[i].detached
                          /\ procs'[i].detached => ~procs'[i].exiting
  BY SignalKeeps DEF TypeInv, DetachedInv
<1> QED BY <1>1 DEF TypeInv, DetachedInv, LiveInv

(* The stages of the loop that start nobody                                *)
LEMMA TellingStep ==
  ASSUME IInv, Terminate \/ Quit \/ Reopen \/ NoAccept
  PROVE  IInv'
<1> USE DEF IInv
<1>1. CASE Terminate
  <2>1. CASE sigio > 0
    BY <1>1, <2>1 DEF Terminate, TypeInv, DetachedInv, LiveInv, ExitInv
  <2>2. CASE ~(sigio > 0)
    <3> DEFINE d == IF delay = 0 THEN 1 ELSE delay
               command == IF d > Doublings THEN "KILL" ELSE "TERMINATE"
    <3>1. /\ SignalWorkers(procs, command, flags \ {"sigalrm"})
          /\ UNCHANGED <<cycle, live, excused>> /\ pc' = "suspend"
      BY <1>1, <2>2 DEF Terminate
    <3>2. command \in {"QUIT", "TERMINATE", "KILL", "REOPEN"} OBVIOUS
    <3> HIDE DEF command
    <3>3. TypeInv' /\ DetachedInv' /\ LiveInv' BY <3>1, <3>2, TellStep
    <3> QED BY <3>1, <3>3 DEF ExitInv
  <2> QED BY <2>1, <2>2
<1>2. CASE Quit
  <2>1. TypeInv' /\ DetachedInv' /\ LiveInv' BY <1>2, TellStep DEF Quit
  <2> QED BY <1>2, <2>1 DEF Quit, ExitInv
<1>3. CASE Reopen
  <2>1. TypeInv' /\ DetachedInv' /\ LiveInv' BY <1>3, TellStep DEF Reopen
  <2>2. pc' # "exited" BY <1>3, StageGoesOn DEF Reopen
  <2> QED BY <2>1, <2>2 DEF ExitInv
<1>4. CASE NoAccept
  <2>1. TypeInv' /\ DetachedInv' /\ LiveInv' BY <1>4, TellStep DEF NoAccept
  <2> QED BY <1>4, <2>1 DEF NoAccept, ExitInv
<1> QED BY <1>1, <1>2, <1>3, <1>4

(* A reap that finds no child left leaves none that is not detached.       *)
LEMMA ReapStep ==
  ASSUME IInv, NEW failed, ReapChildren(failed)
  PROVE  IInv'
<1> USE DEF IInv
<1>1. /\ procs' = [i \in Slots |-> Reaped(procs[i], i \notin failed)]
      /\ live' = \E i \in Slots : StaysLive(procs[i], i \notin failed)
      /\ UNCHANGED cycle
  BY DEF ReapChildren
<1>2. \A i \in Slots : procs[i] \in Child /\ (i \notin failed) \in BOOLEAN
  BY DEF TypeInv
<1>3. TypeInv' BY <1>1, <1>2, ReapedKeeps DEF TypeInv
<1>4. DetachedInv' BY <1>1, <1>2, ReapedKeeps DEF DetachedInv
<1>5. ASSUME ~live', NEW i \in Slots, ~procs'[i].detached
      PROVE  procs'[i].st \notin Alive
  <2>1. ~StaysLive(procs[i], i \notin failed) /\ procs'[i] = Reaped(procs[i], i \notin failed)
    BY <1>1, <1>5
  <2> QED BY <1>2, <1>5, <2>1, EmptyIsChild DEF StaysLive, Reaped, Alive
<1>6. pc' # "exited" BY StageGoesOn DEF ReapChildren
<1> QED BY <1>3, <1>4, <1>5, <1>6 DEF LiveInv, ExitInv

(* The stages that start somebody                                          *)
LEMMA StartingStep ==
  ASSUME IInv, \/ \E n \in 0 .. Workers : Rehire(n) \/ Reconfigure(n) \/ Restart(n)
               \/ \E works \in BOOLEAN : ChangeBinary(works)
  PROVE  IInv'
<1> USE DEF IInv
<1>1. ASSUME NEW n, Rehire(n) PROVE IInv'
  <2>1. /\ procs' = Started(cycle, FALSE, n) /\ UNCHANGED cycle
        /\ "rehired" \in excused' /\ pc' = "suspend"
    BY <1>1 DEF Rehire, Forked
  <2>2. cycle \in Nat BY DEF TypeInv
  <2>3. TypeInv' /\ DetachedInv' BY <2>1, <2>2, StartedKeeps DEF TypeInv, DetachedInv
  <2> QED BY <2>1, <2>3 DEF LiveInv, ExitInv
<1>2. ASSUME NEW n, Reconfigure(n) PROVE IInv'
  <2>1. /\ SignalWorkers(StartedNew(n), "QUIT", flags \ {"reconfigure"})
        /\ cycle' = cycle + 1 /\ live' = TRUE
    BY <1>2 DEF Reconfigure
  <2>2. cycle + 1 \in Nat BY DEF TypeInv
  <2>3. /\ StartedNew(n) \in [Slots -> Child]
        /\ \A i \in Slots : StartedNew(n)[i].detached => ~StartedNew(n)[i].exiting
    BY <2>2, StartedKeeps DEF StartedNew
  <2>4. /\ procs' \in [Slots -> Child]
        /\ \A i \in Slots : procs'[i].detached => ~procs'[i].exiting
    BY <2>1, <2>3, SignalKeeps
  <2>5. pc' # "exited" BY <1>2, StageGoesOn DEF Reconfigure
  <2> QED BY <2>1, <2>2, <2>4, <2>5 DEF TypeInv, DetachedInv, LiveInv, ExitInv
<1>3. ASSUME NEW n, Restart(n) PROVE IInv'
  <2>1. procs' = Started(cycle, FALSE, n) /\ live' = TRUE /\ UNCHANGED cycle
    BY <1>3 DEF Restart
  <2>2. cycle \in Nat BY DEF TypeInv
  <2>3. TypeInv' /\ DetachedInv' BY <2>1, <2>2, StartedKeeps DEF TypeInv, DetachedInv
  <2>4. pc' # "exited" BY <1>3, StageGoesOn DEF Restart
  <2> QED BY <2>1, <2>3, <2>4 DEF LiveInv, ExitInv
<1>4. ASSUME NEW works \in BOOLEAN, ChangeBinary(works) PROVE IInv'
  <2>1. pc' # "exited" /\ UNCHANGED <<cycle, live, excused>>
    BY <1>4, StageGoesOn DEF ChangeBinary
  <2>2. CASE UNCHANGED procs
    BY <2>1, <2>2 DEF TypeInv, DetachedInv, LiveInv, ExitInv
  <2>3. CASE works
    <3> DEFINE new == [Empty EXCEPT !.st = "running", !.cycle = cycle, !.detached = TRUE]
    <3>1. PICK i \in FirstFree(1) : procs' = [procs EXCEPT ![i] = new]
      BY <1>4, <2>3 DEF ChangeBinary
    <3>2. i \in Slots BY DEF FirstFree, Free
    <3>3. new \in Child /\ new.detached /\ ~new.exiting
      BY EmptyIsChild DEF TypeInv, Empty, Child, Alive, Ended
    <3> HIDE DEF new
    <3> QED BY <2>1, <3>1, <3>2, <3>3 DEF TypeInv, DetachedInv, LiveInv, ExitInv
  <2> QED BY <1>4, <2>2, <2>3 DEF ChangeBinary
<1> QED BY <1>1, <1>2, <1>3, <1>4

(* The children go on, end or fail, and signals come in.                   *)
LEMMA ChildStep ==
  ASSUME IInv, NEW i \in Slots,
         \/ WorkerStep(i) \/ BinaryEnds(i)
         \/ \E how \in {"zombie", "fatal", "hung"} : Fault(i, how)
  PROVE  IInv'
<1> USE DEF IInv
<1>1. /\ procs[i].st \in Alive /\ UNCHANGED <<cycle, live, pc>>
      /\ excused \subseteq excused'
      /\ \E st \in {"exiting", "zombie", "fatal", "hung"} :
           procs' = [procs EXCEPT ![i].st = st]
  BY DEF WorkerStep, BinaryEnds, Fault, Ends, Alive
<1>2. PICK st \in {"exiting", "zombie", "fatal", "hung"} :
        procs' = [procs EXCEPT ![i].st = st]
  BY <1>1
<1>3. procs[i] \in Child BY DEF TypeInv
<1>4. /\ [procs[i] EXCEPT !.st = st] \in Child
      /\ [procs[i] EXCEPT !.st = st].detached = procs[i].detached
      /\ [procs[i] EXCEPT !.st = st].exiting = procs[i].exiting
  BY <1>3 DEF Child, Alive, Ended
<1>5. procs' = [procs EXCEPT ![i] = [procs[i] EXCEPT !.st = st]]
  BY <1>2 DEF TypeInv
<1> QED BY <1>1, <1>4, <1>5 DEF TypeInv, DetachedInv, LiveInv, ExitInv

LEMMA QuietStep ==
  ASSUME IInv, \/ \E s \in AdminSignal : Signal(s)
               \/ Alarm \/ Wake \/ MasterExit \/ BadConfiguration
               \/ UNCHANGED vars
  PROVE  IInv'
<1> USE DEF IInv
<1>1. CASE Wake
  <2>1. /\ \/ procs' = [i \in Slots |-> Waited(procs[i])] \/ procs' = procs
        /\ pc' # "exited" /\ UNCHANGED <<cycle, live, excused>>
    BY <1>1, StageGoesOn DEF Wake
  <2>2. CASE procs' = procs
    BY <2>1, <2>2 DEF TypeInv, DetachedInv, LiveInv, ExitInv
  <2>3. CASE procs' = [i \in Slots |-> Waited(procs[i])]
    <3>1. \A i \in Slots : procs[i] \in Child BY DEF TypeInv
    <3> QED BY <2>1, <2>3, <3>1, WaitedKeeps DEF TypeInv, DetachedInv, LiveInv, ExitInv
  <2> QED BY <2>1, <2>2, <2>3
<1>2. ASSUME ~Wake PROVE IInv'
  BY <1>2 DEF Signal, Alarm, MasterExit, BadConfiguration, vars, boundVars,
              TypeInv, DetachedInv, LiveInv, ExitInv
<1> QED BY <1>1, <1>2

(* The inductive invariant of the master.  NoOrphans speaks of the moment  *)
(* the master exits; what makes it true is that live, found at the last    *)
(* reap, never says less than there is.                                    *)
THEOREM Invariant == Spec => []IInv
<1>1. IInv /\ [Next]_vars => IInv'
  BY TellingStep, ReapStep, StartingStep, ChildStep, QuietStep
     DEF Next, MasterStep, SomeWorkerStep
<1> QED BY <1>1, InitHolds, PTL DEF Spec

(* When the master exits no worker it started runs any more, for any       *)
(* number of workers, signals in any order, children that die or hang and  *)
(* calls that fail, unless HUP beside a new binary started them            *)
(* (ngx_master_process_cycle).                                             *)
THEOREM NoneIsOrphaned == Spec => []NoOrphans
<1>1. IInv => NoOrphans BY DEF IInv, LiveInv, ExitInv, NoOrphans
<1> QED BY <1>1, Invariant, PTL

-----------------------------------------------------------------------------
(* Types                                                                   *)

Going == {Stages[i] : i \in DOMAIN Stages} \cup {"suspend"}

(* The variables TypeInv does not speak of                                 *)
RestOK ==
  /\ flags \subseteq Flag
  /\ new_binary \in Slots \cup {0, Invalid}
  /\ noaccepting \in BOOLEAN /\ live \in BOOLEAN
  /\ delay \in 0 .. Doublings + 1 /\ sigio \in 0 .. Workers + 2
  /\ pc \in Going \cup {"exited"}
  /\ pending \subseteq AdminSignal \cup {"CHLD", "ALRM"}
  /\ sent \in [AdminSignal -> Nat] /\ faults \in 0 .. MaxFaults
  /\ excused \subseteq {"noaccept", "fatal", "fork", "hung", "rehired"}

LEMMA FlagsType ==
  ASSUME NEW s \in AdminSignal \cup {"CHLD", "ALRM"}
  PROVE  FlagOf(s) \subseteq Flag
BY DEF FlagOf, AdminSignal, Flag

LEMMA SignalFlags ==
  ASSUME NEW t, NEW command, NEW f \in SUBSET Flag, SignalWorkers(t, command, f)
  PROVE  flags' \subseteq Flag
BY DEF SignalWorkers, Missing, Flag

LEMMA RestInit == Init => RestOK
<1> SUFFICES ASSUME Init PROVE RestOK OBVIOUS
<1>1. /\ 0 \in 0 .. MaxFaults /\ 0 \in 0 .. Doublings + 1
      /\ 0 \in 0 .. Workers + 2
  BY MasterAssumption
<1>2. "suspend" \in Going BY DEF Going
<1> QED BY <1>1, <1>2 DEF Init, RestOK

LEMMA RestTelling ==
  ASSUME RestOK, Terminate \/ Quit \/ Reopen \/ NoAccept
  PROVE  RestOK'
<1> USE DEF RestOK
<1>1. CASE Terminate
  <2>1. flags' \subseteq Flag
    <3>1. flags \ {"sigalrm"} \in SUBSET Flag OBVIOUS
    <3>2. CASE sigio > 0 BY <1>1, <3>1, <3>2 DEF Terminate
    <3>3. CASE ~(sigio > 0) BY <1>1, <3>1, <3>3, SignalFlags DEF Terminate
    <3> QED BY <3>2, <3>3
  <2>2. delay' \in 0 .. Doublings + 1 /\ sigio' \in 0 .. Workers + 2
    BY <1>1, MasterAssumption DEF Terminate, Delayed
  <2>3. pc' \in Going BY <1>1 DEF Terminate, Going
  <2> QED BY <1>1, <2>1, <2>2, <2>3 DEF Terminate, boundVars
<1>2. CASE Quit
  <2>1. flags' \subseteq Flag BY <1>2, SignalFlags DEF Quit
  <2> QED BY <1>2, <2>1 DEF Quit, Going, boundVars
<1>3. CASE Reopen
  <2>1. flags' \subseteq Flag
    <3>1. flags \ {"reopen"} \in SUBSET Flag OBVIOUS
    <3> QED BY <1>3, <3>1, SignalFlags DEF Reopen
  <2>2. pc' \in Going BY <1>3, StageIsStage DEF Reopen, Going
  <2> QED BY <1>3, <2>1, <2>2 DEF Reopen, boundVars
<1>4. CASE NoAccept
  <2>1. flags' \subseteq Flag
    <3>1. flags \ {"noaccept"} \in SUBSET Flag OBVIOUS
    <3> QED BY <1>4, <3>1, SignalFlags DEF NoAccept
  <2> QED BY <1>4, <2>1 DEF NoAccept, Going, boundVars
<1> QED BY <1>1, <1>2, <1>3, <1>4

(* What is noted of failing calls                                          *)
LEMMA ForkedType ==
  ASSUME faults \in 0 .. MaxFaults, NEW fails \in BOOLEAN, NEW excuses, Forked(fails, excuses),
         excuses \subseteq {"noaccept", "fatal", "fork", "hung", "rehired"}
  PROVE  /\ faults' \in 0 .. MaxFaults
         /\ excused' \subseteq {"noaccept", "fatal", "fork", "hung", "rehired"}
BY MasterAssumption DEF Forked

LEMMA RestStarting ==
  ASSUME RestOK, \/ \E n \in 0 .. Workers : Rehire(n) \/ Reconfigure(n) \/ Restart(n)
                 \/ \E works \in BOOLEAN : ChangeBinary(works)
  PROVE  RestOK'
<1> USE DEF RestOK
<1>0. /\ Hired \subseteq {"noaccept", "fatal", "fork", "hung", "rehired"}
      /\ Hired \cup {"rehired"} \subseteq {"noaccept", "fatal", "fork", "hung", "rehired"}
      /\ \A n : (n < Workers) \in BOOLEAN
  BY DEF Hired
<1>1. ASSUME NEW n, Rehire(n) PROVE RestOK'
  <2>1. /\ faults' \in 0 .. MaxFaults
        /\ excused' \subseteq {"noaccept", "fatal", "fork", "hung", "rehired"}
    <3>1. Forked(n < Workers, Hired \cup {"rehired"}) BY <1>1 DEF Rehire
    <3> QED BY <1>0, <3>1, ForkedType
  <2> QED BY <1>1, <2>1 DEF Rehire, Going
<1>2. ASSUME NEW n, Reconfigure(n) PROVE RestOK'
  <2>1. flags' \subseteq Flag
    <3>1. flags \ {"reconfigure"} \in SUBSET Flag OBVIOUS
    <3> QED BY <1>2, <3>1, SignalFlags DEF Reconfigure
  <2>2. pc' \in Going BY <1>2, StageIsStage DEF Reconfigure, Going
  <2>3. /\ faults' \in 0 .. MaxFaults
        /\ excused' \subseteq {"noaccept", "fatal", "fork", "hung", "rehired"}
    <3>1. Forked(n < Workers, Hired) BY <1>2 DEF Reconfigure
    <3> QED BY <1>0, <3>1, ForkedType
  <2> QED BY <1>2, <2>1, <2>2, <2>3 DEF Reconfigure
<1>3. ASSUME NEW n, Restart(n) PROVE RestOK'
  <2>1. pc' \in Going BY <1>3, StageIsStage DEF Restart, Going
  <2>2. /\ faults' \in 0 .. MaxFaults
        /\ excused' \subseteq {"noaccept", "fatal", "fork", "hung", "rehired"}
    <3>1. Forked(n < Workers, Hired) BY <1>3 DEF Restart
    <3> QED BY <1>0, <3>1, ForkedType
  <2> QED BY <1>3, <2>1, <2>2 DEF Restart
<1>4. ASSUME NEW works \in BOOLEAN, ChangeBinary(works) PROVE RestOK'
  <2>1. pc' \in Going BY <1>4, StageIsStage DEF ChangeBinary, Going
  <2>2. new_binary' \in Slots \cup {0, Invalid} /\ faults' \in 0 .. MaxFaults
    <3>1. FirstFree(1) \subseteq Slots BY DEF FirstFree, Free
    <3> QED BY <1>4, <3>1, MasterAssumption DEF ChangeBinary
  <2> QED BY <1>4, <2>1, <2>2 DEF ChangeBinary
<1> QED BY <1>1, <1>2, <1>3, <1>4

LEMMA RestReaping ==
  ASSUME RestOK, NEW failed, ReapChildren(failed)
  PROVE  RestOK'
<1> USE DEF RestOK
<1>1. pc' \in Going BY StageIsStage DEF ReapChildren, Going
<1>2. flags' \subseteq Flag BY DEF ReapChildren, Flag
<1>3. /\ faults' \in 0 .. MaxFaults
      /\ excused' \subseteq {"noaccept", "fatal", "fork", "hung", "rehired"}
  <2>1. Forked(failed # {}, excused \ {"rehired"}) BY DEF ReapChildren
  <2>2. excused \ {"rehired"} \subseteq {"noaccept", "fatal", "fork", "hung", "rehired"}
    OBVIOUS
  <2>3. (failed # {}) \in BOOLEAN OBVIOUS
  <2> QED BY <2>1, <2>2, <2>3, ForkedType
<1>4. new_binary' \in Slots \cup {0, Invalid} BY DEF ReapChildren
<1>5. noaccepting' \in BOOLEAN /\ live' \in BOOLEAN BY DEF ReapChildren
<1> QED BY <1>1, <1>2, <1>3, <1>4, <1>5 DEF ReapChildren

LEMMA RestChildren ==
  ASSUME RestOK, NEW i \in Slots,
         \/ WorkerStep(i) \/ BinaryEnds(i)
         \/ \E how \in {"zombie", "fatal", "hung"} : Fault(i, how)
  PROVE  RestOK'
<1> USE DEF RestOK
<1>1. CASE WorkerStep(i) BY <1>1 DEF WorkerStep, Ends, boundVars
<1>2. ASSUME NEW how \in {"zombie", "fatal", "hung"}, Fault(i, how) PROVE RestOK'
  BY <1>2, MasterAssumption DEF Fault, Ends
<1>3. CASE BinaryEnds(i) BY <1>3 DEF BinaryEnds, Ends, boundVars
<1> QED BY <1>1, <1>2, <1>3

LEMMA RestQuiet ==
  ASSUME RestOK, \/ \E s \in AdminSignal : Signal(s)
                 \/ Alarm \/ Wake \/ MasterExit \/ BadConfiguration
                 \/ UNCHANGED vars
  PROVE  RestOK'
<1> USE DEF RestOK
<1>1. ASSUME NEW s \in AdminSignal, Signal(s) PROVE RestOK'
  BY <1>1, MasterAssumption DEF Signal
<1>2. CASE Alarm BY <1>2 DEF Alarm, boundVars
<1>3. CASE Wake
  <2>1. UNION {FlagOf(s) : s \in pending} \subseteq Flag
    <3>1. \A s \in pending : FlagOf(s) \subseteq Flag BY FlagsType
    <3> QED BY <3>1
  <2>2. flags' \subseteq Flag /\ pending' = {} BY <1>3, <2>1 DEF Wake
  <2>3. pc' \in Going BY <1>3, StageIsStage DEF Wake, Going
  <2> QED BY <1>3, <2>2, <2>3 DEF Wake, boundVars
<1>4. CASE MasterExit BY <1>4 DEF MasterExit, boundVars
<1>5. CASE BadConfiguration
  BY <1>5, MasterAssumption DEF BadConfiguration, Going
<1>6. CASE UNCHANGED vars BY <1>6 DEF vars, boundVars
<1> QED BY <1>1, <1>2, <1>3, <1>4, <1>5, <1>6

(* Type correctness of the master: the flags are flags of the source, the  *)
(* loop is at one of its stages, the new binary is a slot of ngx_processes *)
(* or one of the two marks for none, and the termination delay stays below *)
(* its limit (ngx_master_process_cycle).                                   *)
THEOREM MasterTypeCorrect == Spec => []TypeOK
<1>1. RestOK /\ [Next]_vars => RestOK'
  BY RestTelling, RestStarting, RestReaping, RestChildren, RestQuiet
     DEF Next, MasterStep, SomeWorkerStep
<1>2. IInv /\ RestOK => TypeOK
  BY DEF IInv, TypeInv, RestOK, Going, TypeOK
<1> QED BY <1>1, <1>2, RestInit, Invariant, PTL DEF Spec
=============================================================================
