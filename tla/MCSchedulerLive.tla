-------------------------- MODULE MCSchedulerLive --------------------------
(***************************************************************************)
(* Scheduler as userland uses it (the idle process is not a target and nice *)
(* never names the idle queue), under the fairness of the hardware timer    *)
(* and with no end of new processes: once the pids run out, one that was     *)
(* killed and removed is handed out again, which the scheduler, having      *)
(* nothing left of it, cannot tell from a new pid.  beat turns over with    *)
(* every timer interrupt; overtaken tells the steps that put a process      *)
(* ahead of others, a creation or a call of nice, from the rest.            *)
(***************************************************************************)
EXTENDS Scheduler

VARIABLES beat, overtaken

lvars == <<svars, beat, overtaken>>

LiveInit == SchedInit /\ beat = 0 /\ overtaken = FALSE

\* Among the steps of LiveNext these are the timer interrupts.
Beat == ~fault /\ beat' = 1 - beat

\* The pids of which no list and no queue holds anything.
Gone == {p \in Pids : /\ status[p] = DEAD
                      /\ ~get_pcb_entry(Sched, p)
                      /\ p \notin Members(waiting_for_remove)}

\* create_and_insert_process and add_process_to_creation_queue, with such a pid.
CreateAgain(p) ==
  /\ InUserCode
  /\ LET next == [Sched EXCEPT !.pid = p]
     IN  \/ SchedBecomes([create_and_insert_process(next) EXCEPT !.pid = pid])
         \/ SchedBecomes([add_process_to_creation_queue(next) EXCEPT !.pid = pid])

LiveNext == \/ Timer /\ Beat /\ overtaken' = FALSE
            \/ Nices /\ overtaken' = TRUE /\ UNCHANGED beat
            \/ (\E p \in Gone : CreateAgain(p)) /\ overtaken' = TRUE /\ UNCHANGED beat
            \/ (Calls \/ Halted) /\ overtaken' = (pid' # pid) /\ UNCHANGED beat

\* The timer interrupt is possible until a fault and keeps coming.
LiveSpec == LiveInit /\ [][LiveNext]_lvars /\ WF_beat(Beat)

\* No READY process is passed over for ever once callers stop creating processes
\* and changing priorities (a stream of new processes, each at HIGH, does starve
\* the others): demotion takes every process down to the LOW queue, where
\* current_node moves round the circle.
ReadyEventuallyRuns ==
  <>[]~overtaken =>
    \A p \in Pids \ {IDLE_PID} : status[p] = READY ~> (status[p] # READY \/ fault)
=============================================================================
