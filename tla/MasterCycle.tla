---------------------------- MODULE MasterCycle ----------------------------
(***************************************************************************)
(* The master process of nginx (ngx_process_cycle.c, ngx_process.c and     *)
(* ngx_exec_new_binary of nginx.c): it starts the workers, replaces those  *)
(* that die, and carries out the signals an administrator sends.           *)
(*                                                                         *)
(* The master blocks its signals except in sigsuspend, so the handlers run *)
(* at one place of its loop, and the loop then takes up the flags they set *)
(* in a fixed order: pc is the stage it is at.  The children run and die   *)
(* meanwhile.  A slot of ngx_processes is used again only after the child  *)
(* in it was waited for, so a child is known by its slot, and the table is *)
(* one with what the kernel knows of the child: "gone" is a child that was *)
(* waited for (exited = 1), "free" a slot with pid -1 or none yet.         *)
(*                                                                         *)
(* The channel descriptors passed between workers and the cache processes, *)
(* which nothing here uses, are left out.                                  *)
(***************************************************************************)
EXTENDS Integers, Sequences, FiniteSets

CONSTANTS
  Slots,       \* slots of ngx_processes, positive numbers
  Workers,     \* worker_processes
  Plans,       \* bound: how often each signal is sent, in any order
  MaxFaults,   \* bound: workers that die or hang, and stages whose calls fail
  Doublings    \* of the termination delay of 50 ms until it is above 1000 ms

ASSUME MasterAssumption ==
  /\ Slots \subseteq Nat \ {0} /\ IsFiniteSet(Slots)
  /\ Workers \in Nat \ {0} /\ Workers <= Cardinality(Slots)
  /\ Plans \subseteq [{"QUIT", "TERM", "HUP", "USR1", "USR2", "WINCH"} -> Nat]
  /\ MaxFaults \in Nat /\ Doublings \in Nat

VARIABLES
  procs,        \* ngx_processes and the children in it
  flags,        \* ngx_reap, ngx_terminate, ... that are set
  new_binary,   \* ngx_new_binary: 0, a slot, or NGX_INVALID_PID
  noaccepting,  \* ngx_noaccepting
  cycle,        \* number of the configuration in use
  live,         \* children are left, as far as the loop knows
  delay,        \* the termination delay: 0: none, 1: 50 ms, 2: 100 ms, ...
  sigio,        \* wake-ups to let pass before signalling again
  pc,           \* stage of the loop, "exited" at its end
  pending,      \* signals sent and not delivered
  sent, faults, \* what was used of the bounds
  excused       \* events that may leave fewer workers (history)

boundVars == <<sent, faults>>
vars == <<procs, flags, new_binary, noaccepting, cycle, live, delay, sigio, pc,
          pending, boundVars, excused>>

Invalid == -1     \* NGX_INVALID_PID

AdminSignal == {"QUIT", "TERM", "HUP", "USR1", "USR2", "WINCH"}
Flag == {"reap", "terminate", "quit", "reconfigure", "restart", "reopen",
         "change_binary", "noaccept", "sigalrm"}

Alive == {"running", "exiting", "hung"}
Ended == {"zombie", "fatal"}

Child == [st : Alive \cup Ended \cup {"free", "gone"},
          cycle : Nat,                                \* configuration it runs
          inbox : SUBSET {"QUIT", "TERMINATE", "KILL"}, \* on their way to it
          exiting : BOOLEAN, detached : BOOLEAN,
          respawn : BOOLEAN, just_spawn : BOOLEAN]

Stages == <<"reap", "stop", "reconfigure", "restart", "reopen", "change_binary",
            "noaccept">>

TypeOK ==
  /\ procs \in [Slots -> Child]
  /\ flags \subseteq Flag
  /\ new_binary \in Slots \cup {0, Invalid}
  /\ noaccepting \in BOOLEAN /\ live \in BOOLEAN
  /\ cycle \in Nat /\ delay \in 0 .. Doublings + 1 /\ sigio \in 0 .. Workers + 2
  /\ pc \in {Stages[i] : i \in DOMAIN Stages} \cup {"suspend", "exited"}
  /\ pending \subseteq AdminSignal \cup {"CHLD", "ALRM"}
  /\ sent \in [AdminSignal -> Nat] /\ faults \in 0 .. MaxFaults
  /\ excused \subseteq {"noaccept", "fatal", "fork", "hung", "rehired"}

-----------------------------------------------------------------------------
(* ngx_spawn_process                                                       *)

Empty == [st |-> "free", cycle |-> 0, inbox |-> {}, exiting |-> FALSE,
          detached |-> FALSE, respawn |-> FALSE, just_spawn |-> FALSE]

Free == {i \in Slots : procs[i].st = "free"}

(* The n first free slots                                                  *)
FirstFree(n) == {i \in Free : Cardinality({j \in Free : j < i}) < n}

(* ngx_start_worker_processes: NGX_PROCESS_RESPAWN or _JUST_RESPAWN.  It   *)
(* does not look at what ngx_spawn_process returns: n of its calls succeed.*)
Started(c, just, n) ==
  [i \in Slots |->
     IF i \in FirstFree(n)
     THEN [Empty EXCEPT !.st = "running", !.cycle = c, !.respawn = TRUE, !.just_spawn = just]
     ELSE procs[i]]

Init ==
  /\ procs = [i \in Slots |->
                IF Cardinality({j \in Slots : j < i}) < Workers
                THEN [Empty EXCEPT !.st = "running", !.respawn = TRUE] ELSE Empty]
  /\ flags = {} /\ new_binary = 0 /\ noaccepting = FALSE
  /\ cycle = 0 /\ live = TRUE /\ delay = 0 /\ sigio = 0
  /\ pc = "suspend" /\ pending = {}
  /\ sent = [s \in AdminSignal |-> 0] /\ faults = 0 /\ excused = {}

(* What is noted when calls of ngx_spawn_process fail: one fault, however  *)
(* many of a stage's calls fail.                                           *)
Forked(fails, excuses) ==
  /\ fails => faults < MaxFaults
  /\ faults' = faults + (IF fails THEN 1 ELSE 0)
  /\ excused' = excuses \cup (IF fails THEN {"fork"} ELSE {})

-----------------------------------------------------------------------------
(* Signals                                                                 *)

(* Somebody sends the master a signal.  Bound of Slots: there is room for  *)
(* what all signals under way may start.                                   *)
Signal(s) ==
  /\ pc # "exited" /\ Cardinality(Free) > 4 * Workers
  /\ pending' = pending \cup {s}
  /\ sent' = [sent EXCEPT ![s] = @ + 1]
  /\ \E plan \in Plans : \A t \in AdminSignal : sent'[t] <= plan[t]
  /\ UNCHANGED <<procs, flags, new_binary, noaccepting, cycle, live, delay, sigio, pc,
                 faults, excused>>

(* The timer set at the head of the loop                                   *)
Alarm ==
  /\ pc = "suspend" /\ delay > 0 /\ "ALRM" \notin pending
  /\ pending' = pending \cup {"ALRM"}
  /\ UNCHANGED <<procs, flags, new_binary, noaccepting, cycle, live, delay, sigio, pc,
                 boundVars, excused>>

(* ngx_signal_handler: the flag a signal sets; USR2 is ignored while a new *)
(* binary runs.                                                            *)
FlagOf(s) ==
  CASE s = "QUIT" -> {"quit"}        [] s = "TERM" -> {"terminate"}
    [] s = "HUP" -> {"reconfigure"}  [] s = "USR1" -> {"reopen"}
    [] s = "WINCH" -> {"noaccept"}   [] s = "CHLD" -> {"reap"}
    [] s = "ALRM" -> {"sigalrm"}
    [] s = "USR2" -> IF new_binary > 0 THEN {} ELSE {"change_binary"}

(* ngx_process_get_status: every child that ended is waited for; one with  *)
(* exit code 2 is not to be started again.                                 *)
Waited(c) ==
  IF c.st \in Ended THEN [c EXCEPT !.st = "gone", !.respawn = @ /\ c.st = "zombie"] ELSE c

(* The first stage after stage n of which a flag is set                    *)
StageAfter(n, f) ==
  LET On(stage) == IF stage = "stop" THEN {"terminate", "quit"} \cap f # {} ELSE stage \in f
      on == {i \in n + 1 .. Len(Stages) : On(Stages[i])}
  IN  IF on = {} THEN "suspend" ELSE Stages[CHOOSE i \in on : \A j \in on : i <= j]

(* sigsuspend returns when the handlers of all pending signals ran.        *)
Wake ==
  /\ pc = "suspend" /\ pending # {}
  /\ pending' = {}
  /\ flags' = flags \cup UNION {FlagOf(s) : s \in pending}
  /\ procs' = IF "CHLD" \in pending THEN [i \in Slots |-> Waited(procs[i])] ELSE procs
  /\ pc' = StageAfter(0, flags')
  /\ UNCHANGED <<new_binary, noaccepting, cycle, live, delay, sigio, boundVars, excused>>

-----------------------------------------------------------------------------
(* ngx_signal_worker_processes                                             *)

Addressed(c) == c.st # "free" /\ ~c.detached

(* Mutant: reopening is treated like quitting.                             *)
ToldReopenToo(c, command) ==
  IF ~Addressed(c) THEN c
  ELSE IF c.just_spawn THEN [c EXCEPT !.just_spawn = FALSE]
  ELSE IF c.exiting /\ command = "QUIT" THEN c
  ELSE IF c.st = "gone" THEN [c EXCEPT !.exiting = FALSE]
  ELSE [c EXCEPT !.exiting = TRUE, !.inbox = @ \cup {command}]

(* One child of the loop.  A child that was just spawned is passed over    *)
(* this time; one that could not be respawned is not there to be killed.   *)
Told(c, command) ==
  IF ~Addressed(c) THEN c
  ELSE IF c.just_spawn THEN [c EXCEPT !.just_spawn = FALSE]
  ELSE IF c.exiting /\ command = "QUIT" THEN c
  ELSE IF c.st = "gone" THEN [c EXCEPT !.exiting = FALSE]
  ELSE IF command = "REOPEN" THEN c
  ELSE [c EXCEPT !.exiting = TRUE, !.inbox = @ \cup {command}]

(* kill() found no such process: ngx_reap is set.                          *)
Missing(t, command) ==
  IF \E i \in Slots : /\ Addressed(t[i]) /\ ~t[i].just_spawn /\ t[i].st = "gone"
                      /\ ~(t[i].exiting /\ command = "QUIT")
  THEN {"reap"} ELSE {}

(* The children of table t are told, and flags f goes on.                  *)
SignalWorkers(t, command, f) ==
  /\ procs' = [i \in Slots |-> Told(t[i], command)]
  /\ flags' = f \cup Missing(t, command)

-----------------------------------------------------------------------------
(* The stages of ngx_master_process_cycle                                  *)

Stopping == {"terminate", "quit"} \cap flags # {}

Respawns(c) == c.st = "gone" /\ c.respawn /\ ~c.exiting /\ ~Stopping

(* ngx_reap_children for one slot; a child that cannot be started again    *)
(* stays in the table.                                                     *)
Reaped(c, forks) ==
  IF c.st # "gone" THEN c
  ELSE IF ~Respawns(c) THEN Empty
  ELSE IF forks THEN [c EXCEPT !.st = "running", !.cycle = cycle, !.inbox = {}]
  ELSE c

(* Mutant: children already told to exit are not waited for.               *)
StaysLiveNotExiting(c, forks) ==
  \/ Respawns(c) /\ forks
  \/ c.st \notin {"free", "gone"} /\ ~c.exiting /\ ~c.detached

StaysLive(c, forks) ==
  \/ Respawns(c) /\ forks
  \/ c.st \notin {"free", "gone"} /\ (c.exiting \/ ~c.detached)

(* The slots in failed cannot be filled again.  A new binary that ended    *)
(* gives the workers back that were sent away.                             *)
ReapChildren(failed) ==
  LET binaryEnded == new_binary > 0 /\ procs[new_binary].st = "gone"
  IN  /\ pc = "reap"
      /\ Forked(failed # {}, excused \ {"rehired"})
      /\ procs' = [i \in Slots |-> Reaped(procs[i], i \notin failed)]
      /\ live' = \E i \in Slots : StaysLive(procs[i], i \notin failed)
      /\ new_binary' = IF binaryEnded THEN 0 ELSE new_binary
      /\ noaccepting' = (noaccepting /\ ~binaryEnded)
      /\ flags' = (flags \ {"reap"})
                  \cup (IF binaryEnded /\ noaccepting THEN {"restart"} ELSE {})
      /\ pc' = StageAfter(1, flags')
      /\ UNCHANGED <<cycle, delay, sigio, pending, sent>>

(* ngx_master_process_exit                                                 *)
MasterExit ==
  /\ pc = "stop" /\ ~live
  /\ pc' = "exited"
  /\ UNCHANGED <<procs, flags, new_binary, noaccepting, cycle, live, delay, sigio,
                 pending, boundVars, excused>>

(* Mutant: the delay does not grow.                                        *)
DelayedSame(d) == d

(* The delay doubles with every alarm; above 1000 ms it makes no more      *)
(* difference.                                                             *)
Delayed(d) == IF d <= Doublings THEN d + 1 ELSE d

(* Terminating: after an alarm, or when enough wake-ups passed, the        *)
(* children are told again, in the end with SIGKILL.  The head of the loop *)
(* that follows, where the alarm is seen, is taken with this stage.        *)
Terminate ==
  LET alarm == "sigalrm" \in flags
      d == IF delay = 0 THEN 1 ELSE delay
  IN  /\ pc = "stop" /\ live /\ "terminate" \in flags
      /\ delay' = IF alarm THEN Delayed(d) ELSE d
      /\ IF sigio > 0
         THEN /\ sigio' = IF alarm THEN 0 ELSE sigio - 1
              /\ flags' = flags \ {"sigalrm"}
              /\ UNCHANGED procs
         ELSE /\ sigio' = IF alarm THEN 0 ELSE Workers + 2
              /\ SignalWorkers(procs, IF d > Doublings THEN "KILL" ELSE "TERMINATE",
                               flags \ {"sigalrm"})
      /\ pc' = "suspend"
      /\ UNCHANGED <<new_binary, noaccepting, cycle, live, pending, boundVars, excused>>

(* Quitting: every time it wakes, the master tells those not yet told.     *)
Quit ==
  /\ pc = "stop" /\ live /\ "terminate" \notin flags
  /\ SignalWorkers(procs, "QUIT", flags)
  /\ pc' = "suspend"
  /\ UNCHANGED <<new_binary, noaccepting, cycle, live, delay, sigio, pending,
                 boundVars, excused>>

(* Whoever was sent away is replaced.                                      *)
Hired == excused \ {"noaccept"}

(* HUP while there is, or seems to be, a new binary: workers of the        *)
(* configuration in use are started, and the loop begins anew.             *)
Rehire(n) ==
  /\ pc = "reconfigure" /\ new_binary # 0
  /\ procs' = Started(cycle, FALSE, n)
  /\ flags' = flags \ {"reconfigure"}
  /\ noaccepting' = FALSE
  /\ pc' = "suspend"
  /\ Forked(n < Workers, Hired \cup {"rehired"})
  /\ UNCHANGED <<new_binary, cycle, live, delay, sigio, pending, sent>>

(* ngx_init_cycle refuses the new configuration: the loop begins anew.     *)
BadConfiguration ==
  /\ pc = "reconfigure" /\ new_binary = 0 /\ faults < MaxFaults
  /\ faults' = faults + 1
  /\ flags' = flags \ {"reconfigure"}
  /\ pc' = "suspend"
  /\ UNCHANGED <<procs, new_binary, noaccepting, cycle, live, delay, sigio, pending,
                 sent, excused>>

(* Mutant: the new workers are not marked as just spawned.                 *)
StartedUnmarked(n) == Started(cycle + 1, FALSE, n)

StartedNew(n) == Started(cycle + 1, TRUE, n)

(* The workers of the new configuration are started before the old ones    *)
(* are told to quit, and just_spawn keeps them from being told, too.       *)
Reconfigure(n) ==
  /\ pc = "reconfigure" /\ new_binary = 0
  /\ cycle' = cycle + 1
  /\ live' = TRUE
  /\ SignalWorkers(StartedNew(n), "QUIT", flags \ {"reconfigure"})
  /\ pc' = StageAfter(3, flags')
  /\ Forked(n < Workers, Hired)
  /\ UNCHANGED <<new_binary, noaccepting, delay, sigio, pending, sent>>

(* The new binary ended after the workers were told to quit.               *)
Restart(n) ==
  /\ pc = "restart"
  /\ procs' = Started(cycle, FALSE, n)
  /\ live' = TRUE
  /\ flags' = flags \ {"restart"}
  /\ pc' = StageAfter(4, flags')
  /\ Forked(n < Workers, Hired)
  /\ UNCHANGED <<new_binary, noaccepting, cycle, delay, sigio, pending, sent>>

Reopen ==
  /\ pc = "reopen"
  /\ SignalWorkers(procs, "REOPEN", flags \ {"reopen"})
  /\ pc' = StageAfter(5, flags')
  /\ UNCHANGED <<new_binary, noaccepting, cycle, live, delay, sigio, pending,
                 boundVars, excused>>

(* ngx_exec_new_binary: NGX_INVALID_PID if the pid file cannot be renamed  *)
(* or fork fails.                                                          *)
ChangeBinary(works) ==
  /\ pc = "change_binary"
  /\ IF works
     THEN /\ \E i \in FirstFree(1) :
               /\ procs' = [procs EXCEPT ![i] = [Empty EXCEPT !.st = "running",
                                                              !.cycle = cycle,
                                                              !.detached = TRUE]]
               /\ new_binary' = i
          /\ UNCHANGED faults
     ELSE /\ faults < MaxFaults
          /\ faults' = faults + 1
          /\ new_binary' = Invalid
          /\ UNCHANGED procs
  /\ flags' = flags \ {"change_binary"}
  /\ pc' = StageAfter(6, flags')
  /\ UNCHANGED <<noaccepting, cycle, live, delay, sigio, pending, sent, excused>>

NoAccept ==
  /\ pc = "noaccept"
  /\ noaccepting' = TRUE
  /\ SignalWorkers(procs, "QUIT", flags \ {"noaccept"})
  /\ pc' = "suspend"
  /\ excused' = excused \cup {"noaccept"}
  /\ UNCHANGED <<new_binary, cycle, live, delay, sigio, pending, boundVars>>

-----------------------------------------------------------------------------
(* The children                                                            *)

(* A child ends: the master gets SIGCHLD, if it still is there.            *)
Ends(i, how) ==
  /\ procs' = [procs EXCEPT ![i].st = how]
  /\ pending' = IF pc = "exited" THEN pending ELSE pending \cup {"CHLD"}

(* ngx_channel_handler and ngx_worker_process_cycle: what the channel or a *)
(* signal brought is carried out; quitting takes until the connections are *)
(* done.                                                                   *)
WorkerStep(i) ==
  /\ LET c == procs[i]
     IN  \/ /\ c.st \in {"running", "exiting"} /\ "TERMINATE" \in c.inbox
            /\ Ends(i, "zombie")
         \/ c.st \in Alive /\ "KILL" \in c.inbox /\ Ends(i, "zombie")
         \/ /\ c.st = "running" /\ "QUIT" \in c.inbox
            /\ procs' = [procs EXCEPT ![i].st = "exiting"]
            /\ UNCHANGED pending
         \/ c.st = "exiting" /\ Ends(i, "zombie")
  /\ UNCHANGED <<flags, new_binary, noaccepting, cycle, live, delay, sigio, pc,
                 boundVars, excused>>

(* The new binary, which has a master of its own, is stopped or fails.     *)
BinaryEnds(i) ==
  /\ procs[i].detached /\ procs[i].st = "running"
  /\ Ends(i, "zombie")
  /\ UNCHANGED <<flags, new_binary, noaccepting, cycle, live, delay, sigio, pc,
                 boundVars, excused>>

(* A worker dies, ends with the fatal exit code 2, or hangs for ever.      *)
Fault(i, how) ==
  /\ procs[i].st \in {"running", "exiting"} /\ ~procs[i].detached
  /\ faults < MaxFaults
  /\ faults' = faults + 1
  /\ IF how = "hung" THEN procs' = [procs EXCEPT ![i].st = how] /\ UNCHANGED pending
     ELSE Ends(i, how)
  /\ excused' = excused \cup ({how} \ {"zombie"})
  /\ UNCHANGED <<flags, new_binary, noaccepting, cycle, live, delay, sigio, pc, sent>>

-----------------------------------------------------------------------------

MasterStep ==
  \/ Wake \/ MasterExit \/ Terminate \/ Quit \/ BadConfiguration \/ Reopen
  \/ (\E failed \in SUBSET {i \in Slots : Respawns(procs[i])} : ReapChildren(failed))
  \/ (\E n \in 0 .. Workers : Rehire(n) \/ Reconfigure(n) \/ Restart(n))
  \/ (\E works \in BOOLEAN : ChangeBinary(works)) \/ NoAccept

SomeWorkerStep == \E i \in Slots : WorkerStep(i)

Next ==
  \/ \E s \in AdminSignal : Signal(s)
  \/ MasterStep
  \/ Alarm
  \/ SomeWorkerStep
  \/ \E i \in Slots : BinaryEnds(i)
  \/ \E i \in Slots, how \in {"zombie", "fatal", "hung"} : Fault(i, how)

Spec == Init /\ [][Next]_vars

(* The kernel runs the processes and the timer; a worker's connections end *)
(* (worker_shutdown_timeout).                                              *)
FairSpec == Spec /\ WF_vars(MasterStep) /\ WF_vars(Alarm) /\ WF_vars(SomeWorkerStep)

-----------------------------------------------------------------------------
(* Properties                                                              *)

(* The master leaves no worker behind when it exits, unless they were      *)
(* started by HUP beside a new binary and nobody died since: then live is  *)
(* still what the last reap found.                                         *)
NoOrphans ==
  (pc = "exited" /\ "rehired" \notin excused) =>
    \A i \in Slots : ~procs[i].detached => procs[i].st \notin Alive

Staff == {i \in Slots : /\ procs[i].st = "running" /\ ~procs[i].detached
                        /\ procs[i].cycle = cycle /\ "QUIT" \notin procs[i].inbox}

(* Whatever workers die and however signals meet: once things are quiet,   *)
(* worker_processes workers run the newest configuration, unless the       *)
(* master was stopped, the workers were sent away (WINCH) and none were    *)
(* started in their place since, or one could not be started or hangs.     *)
StaffedAgain ==
  <>[](\/ Stopping
       \/ excused \ {"rehired"} # {}
       \/ Cardinality(Staff) >= Workers)

(* The master waits for children though none is left: every call failed    *)
(* with which Reconfigure or Restart, after the last worker had gone,      *)
(* meant to start new ones.                                                *)
Deserted ==
  /\ live /\ "fork" \in excused
  /\ \A i \in Slots : procs[i].st = "free" \/ procs[i].detached

(* A master told to stop exits, quickly even if workers hang, gracefully   *)
(* if none does, unless it is deserted.                                    *)
ShutsDown ==
  /\ ("terminate" \in flags) ~> (pc = "exited" \/ Deserted)
  /\ ("quit" \in flags) ~> (pc = "exited" \/ Deserted \/ "hung" \in excused)

(* man/nginx.8 on SIGHUP: the configuration is reloaded and new workers    *)
(* take the place of the old ones, as long as no new binary is running.    *)
ReloadReplaces ==
  [][( /\ "reconfigure" \in flags /\ "reconfigure" \notin flags'
       /\ \A i \in Slots : procs[i].detached => procs[i].st \notin Alive )
     => (cycle' = cycle + 1 \/ faults' > faults)]_vars
=============================================================================
