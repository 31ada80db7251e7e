---------------------------- MODULE ScrubDriver ----------------------------
(***************************************************************************)
(* The control of the memory scrubber: the RTEMS driver                    *)
(* memscrub/memscrub_rtems.c on top of memscrub/memscrub.c, the core it    *)
(* drives and the task that reads its messages (memscrub/scrubtest.c).     *)
(*                                                                         *)
(* The core scrubs a memory range run after run.  In the silent mode       *)
(* (opermode 0) it loops by itself and interrupts when one run sees more   *)
(* than regenthres errors; in the managed mode (opermode 1) it interrupts  *)
(* at each error and at the end of each run.  The service routine switches *)
(* a run with too many errors to regeneration and, when it is done,        *)
(* restarts ordinary scrubbing.                                            *)
(*                                                                         *)
(* One step of the driver is one access to the core that can race with it. *)
(* A task step is taken only while the service routine is idle, and the    *)
(* service routine may come late: no register access waits for it.  What   *)
(* the steps do to the error counters is in ScrubCounters.                 *)
(***************************************************************************)
EXTENDS Integers, Sequences

CONSTANTS
  Thresholds,  \* the values regenthres may be given
  MaxRun,      \* bound: errors the core counts in one run
  QueueLen     \* messages the queue holds (8 in memscrubr_init2)

Off == -1      \* a disabled threshold

ASSUME ThresholdsAssumption == Thresholds \subseteq Nat
ASSUME MaxRunAssumption == MaxRun \in Nat
ASSUME QueueLenAssumption == QueueLen \in Nat

VARIABLES
  active,      \* core: ACTIVE of scrubstat, a run is in progress
  conf,        \* core: scrubconf
  runcount,    \* core: RUNCOUNT of scrubstat, errors in this run
  done,        \* core: DONE, a run has ended
  cause,       \* core: the cause bits frozen with NE; empty while NE is clear
  ahberr,      \* core: which errors ahberrconf enables
  rect,        \* core: the run threshold in scruberrthres, or Off
  irq,         \* interrupt controller: the core's line is pending
  state,       \* driver: 0 stopped, 1 scrubbing, 2 regenerating
  opermode,    \* driver option: 0 silent, 1 managed
  regenthres,  \* driver option
  called,      \* history: the user has called the driver after its start-up
  isr,         \* where the service routine is
  evmask,      \* the events it works on
  confval,     \* scrubconf as memscrub_switch_mode read it
  op,          \* the operation called last, "start" or "stop"
  task,        \* where the task is in it
  msgq         \* the message queue

core == <<active, conf, runcount, done, cause, ahberr, rect, irq>>
options == <<opermode, regenthres, called>>
isrvars == <<isr, evmask, confval>>
taskvars == <<op, task>>
vars == <<core, state, options, isrvars, taskvars, msgq>>

Conf == [scen : BOOLEAN, mode : {"scrub", "regen"}, loop : BOOLEAN, irqd : BOOLEAN]
ConfZero == [scen |-> FALSE, mode |-> "scrub", loop |-> FALSE, irqd |-> FALSE]

Causes == {"UE", "CE", "RUNTOT"}
Events == Causes \cup {"DONE"}

(* init1 has stopped the core; init2 has enabled the interrupt and either  *)
(* enables the error interrupts or enters memscrubr_start_main.            *)
InitWith(autostart) ==
  /\ active = FALSE /\ conf = ConfZero /\ runcount = 0
  /\ done = FALSE /\ cause = {} /\ rect = Off /\ irq = FALSE
  /\ ahberr = [ue |-> ~autostart, ce |-> ~autostart]
  /\ state = 0 /\ opermode \in {0, 1} /\ regenthres \in Thresholds
  /\ isr = "idle" /\ evmask = {} /\ confval = ConfZero
  /\ op = (IF autostart THEN "start" ELSE "stop")
  /\ task = (IF autostart THEN "stop" ELSE "idle")
  /\ msgq = <<>> /\ called = FALSE

-----------------------------------------------------------------------------
(* The core.                                                               *)

(* An error event sets NE and interrupts; while NE is set the cause bits   *)
(* are frozen.                                                             *)
Raise(bits) ==
  IF bits # {} /\ cause = {}
    THEN cause' = bits /\ irq' = TRUE
    ELSE UNCHANGED <<cause, irq>>

(* The scrubber meets a correctable error in its run.                      *)
ScrubError ==
  /\ active /\ runcount < MaxRun
  /\ runcount' = runcount + 1
  /\ Raise({b \in {"CE", "RUNTOT"} : \/ b = "CE" /\ ahberr.ce
                                     \/ b = "RUNTOT" /\ rect # Off /\ runcount + 1 > rect})
  /\ UNCHANGED <<active, conf, done, ahberr, rect>>
  /\ UNCHANGED <<state, options, isrvars, taskvars, msgq>>

(* Another bus master meets an error.                                      *)
BusError ==
  /\ \/ ahberr.ce /\ Raise({"CE"})
     \/ ahberr.ue /\ Raise({"UE"})
  /\ UNCHANGED <<active, conf, runcount, done, ahberr, rect>>
  /\ UNCHANGED <<state, options, isrvars, taskvars, msgq>>

(* A run ends.  In loop mode the next one starts at once, with the run     *)
(* count cleared; otherwise DONE is set.                                   *)
RunEnd ==
  /\ active /\ conf.scen
  /\ IF conf.loop
       THEN runcount' = 0 /\ UNCHANGED <<active, conf, done, irq>>
       ELSE /\ active' = FALSE
            /\ conf' = [conf EXCEPT !.scen = FALSE]
            /\ done' = TRUE
            /\ irq' = (irq \/ conf.irqd)
            /\ UNCHANGED runcount
  /\ UNCHANGED <<cause, ahberr, rect, state, options, isrvars, taskvars, msgq>>

(* A run that was disabled winds down.                                     *)
WindDown ==
  /\ active /\ ~conf.scen
  /\ active' = FALSE
  /\ UNCHANGED <<conf, runcount, done, cause, ahberr, rect, irq>>
  /\ UNCHANGED <<state, options, isrvars, taskvars, msgq>>

(* Writing scrubconf: SCEN starts a run when none is in progress and       *)
(* otherwise changes the parameters of the one that is.                    *)
WriteConf(c) ==
  /\ conf' = c
  /\ active' = (active \/ c.scen)
  /\ runcount' = IF c.scen /\ ~active THEN 0 ELSE runcount

(* memscrub_scrub: the flags depend on the operating mode.                 *)
ScrubConf ==
  [scen |-> TRUE, mode |-> "scrub", loop |-> opermode = 0, irqd |-> opermode = 1]

-----------------------------------------------------------------------------
(* memscrubr_isr.                                                          *)

(* rtems_message_queue_send: a full queue drops the message.  A message is *)
(* the events in its first word.                                           *)
QueuedAlways(q, w) == Append(q, w)                 \* mutant: no limit

Queued(q, w) == IF Len(q) < QueueLen THEN Append(q, w) ELSE q

ISR == UNCHANGED <<options, taskvars>>

IsrEnter ==
  /\ ISR
  /\ isr = "idle" /\ irq
  /\ irq' = FALSE
  /\ isr' = "events"
  /\ UNCHANGED <<active, conf, runcount, done, cause, ahberr, rect>>
  /\ UNCHANGED <<state, evmask, confval, msgq>>

(* memscrub_get_events reads the status word; no event ends the loop.      *)
IsrEventsErrorsOnly ==                             \* mutant: no NE, no event
  /\ ISR
  /\ isr = "events"
  /\ evmask' = cause \cup (IF done THEN {"DONE"} ELSE {})
  /\ isr' = IF cause = {} THEN "idle" ELSE "ack"
  /\ UNCHANGED <<core, state, confval, msgq>>

IsrEvents ==
  /\ ISR
  /\ isr = "events"
  /\ evmask' = cause \cup (IF done THEN {"DONE"} ELSE {})
  /\ isr' = IF evmask' = {} THEN "idle" ELSE "ack"
  /\ UNCHANGED <<core, state, confval, msgq>>

(* It then clears what it saw: NE with its cause, DONE.  The routine sends *)
(* a message for an error and one for the end of a run.                    *)
IsrAck ==
  /\ ISR
  /\ isr = "ack"
  /\ cause' = IF evmask \cap Causes # {} THEN {} ELSE cause
  /\ done' = (done /\ "DONE" \notin evmask)
  /\ LET q == IF evmask \cap {"UE", "CE"} # {} THEN Queued(msgq, evmask) ELSE msgq
     IN  msgq' = IF "DONE" \in evmask THEN Queued(q, evmask) ELSE q
  /\ isr' = IF "DONE" \in evmask THEN "done" ELSE "error"
  /\ UNCHANGED <<active, conf, runcount, ahberr, rect, irq, state, evmask, confval>>

(* A run is done: back to scrubbing.  In the silent mode the run threshold *)
(* is armed again.  memscrub_operation_start first stops the core.         *)
IsrDoneNoRearm ==                                  \* mutant: scruberrthres is left alone
  /\ ISR
  /\ isr = "done"
  /\ state' = 1
  /\ conf' = ConfZero
  /\ isr' = "restart"
  /\ UNCHANGED <<active, runcount, done, cause, ahberr, rect, irq, evmask, confval, msgq>>

IsrDoneKeepsState ==                               \* mutant: state is not reset
  /\ ISR
  /\ isr = "done"
  /\ rect' = IF opermode = 0 THEN regenthres ELSE rect
  /\ conf' = ConfZero
  /\ isr' = "restart"
  /\ UNCHANGED <<active, runcount, done, cause, ahberr, irq, state, evmask, confval, msgq>>

IsrDone ==
  /\ ISR
  /\ isr = "done"
  /\ state' = 1
  /\ rect' = IF opermode = 0 THEN regenthres ELSE rect
  /\ conf' = ConfZero
  /\ isr' = "restart"
  /\ UNCHANGED <<active, runcount, done, cause, ahberr, irq, evmask, confval, msgq>>

(* waitstop has seen the core inactive.                                    *)
IsrRestartDisabled ==                              \* mutant: SCEN is forgotten
  /\ ISR
  /\ isr = "restart" /\ ~active
  /\ WriteConf([ScrubConf EXCEPT !.scen = FALSE])
  /\ isr' = "events"
  /\ UNCHANGED <<done, cause, ahberr, rect, irq, state, evmask, confval, msgq>>

IsrRestart ==
  /\ ISR
  /\ isr = "restart" /\ ~active
  /\ WriteConf(ScrubConf)
  /\ isr' = "events"
  /\ UNCHANGED <<done, cause, ahberr, rect, irq, state, evmask, confval, msgq>>

TooManyErrors == state = 1 /\ evmask \cap {"CE", "RUNTOT"} # {} /\ runcount >= regenthres

(* Too many errors in this run: switch it to regeneration.                 *)
IsrError ==
  /\ ISR
  /\ isr = "error"
  /\ IF TooManyErrors
       THEN state' = 2 /\ rect' = Off /\ isr' = "readconf"
       ELSE UNCHANGED <<state, rect>> /\ isr' = "events"
  /\ UNCHANGED <<active, conf, runcount, done, cause, ahberr, irq, evmask, confval, msgq>>

(* memscrub_switch_mode reads scrubconf ...                                *)
IsrReadConf ==
  /\ ISR
  /\ isr = "readconf"
  /\ confval' = conf
  /\ isr' = "switch"
  /\ UNCHANGED <<core, state, evmask, msgq>>

(* ... and writes it back with the new mode and flags; then the message.   *)
IsrSwitchKeepsLoop ==                              \* mutant: LOOP is not masked out
  /\ ISR
  /\ isr = "switch"
  /\ WriteConf([scen |-> confval.scen, mode |-> "regen", loop |-> confval.loop, irqd |-> TRUE])
  /\ msgq' = Queued(msgq, {"REGEN"})
  /\ isr' = "events"
  /\ UNCHANGED <<done, cause, ahberr, rect, irq, state, evmask, confval>>

IsrSwitch ==
  /\ ISR
  /\ isr = "switch"
  /\ WriteConf([scen |-> confval.scen, mode |-> "regen", loop |-> FALSE, irqd |-> TRUE])
  /\ msgq' = Queued(msgq, {"REGEN"})
  /\ isr' = "events"
  /\ UNCHANGED <<done, cause, ahberr, rect, irq, state, evmask, confval>>

Isr == \/ IsrEnter \/ IsrEvents \/ IsrAck \/ IsrDone \/ IsrRestart
       \/ IsrError \/ IsrReadConf \/ IsrSwitch

-----------------------------------------------------------------------------
(* The tasks that call the driver.                                         *)

TASK == isr = "idle" /\ UNCHANGED isrvars

(* The user calls memscrubr_start or memscrubr_stop; both begin with       *)
(* memscrub_stop.                                                          *)
Call ==
  /\ TASK
  /\ task = "idle"
  /\ op' \in {"start", "stop"}
  /\ task' = "stop"
  /\ called' = TRUE
  /\ UNCHANGED <<core, state, opermode, regenthres, msgq>>

(* memscrubr_set_option, to be called while the scrubber is stopped.       *)
SetOption ==
  /\ TASK
  /\ task = "idle" /\ op = "stop"
  /\ \/ opermode' \in {0, 1} /\ UNCHANGED regenthres
     \/ regenthres' \in Thresholds /\ UNCHANGED opermode
  /\ called' = TRUE
  /\ UNCHANGED <<core, state, taskvars, msgq>>

(* memscrub_stop, and the first lines of memscrub_operation_start: clear   *)
(* scrubconf ...                                                           *)
TaskConfZero ==
  /\ TASK
  /\ task \in {"stop", "restop"}
  /\ conf' = ConfZero
  /\ task' = IF task = "stop" THEN "wait" ELSE "rewait"
  /\ UNCHANGED <<active, runcount, done, cause, ahberr, rect, irq>>
  /\ UNCHANGED <<state, options, op, msgq>>

(* ... and waitstop: clear it again for as long as the core is active.     *)
TaskWaitStop ==
  /\ TASK
  /\ task \in {"wait", "rewait"}
  /\ IF active
       THEN conf' = ConfZero /\ UNCHANGED task
       ELSE /\ UNCHANGED conf
            /\ task' = IF task = "rewait" THEN "go"
                       ELSE IF op = "start" THEN "state" ELSE "stopped"
  /\ UNCHANGED <<active, runcount, done, cause, ahberr, rect, irq>>
  /\ UNCHANGED <<state, options, op, msgq>>

(* memscrubr_stop ends.                                                    *)
TaskStopped ==
  /\ TASK
  /\ task = "stopped"
  /\ state' = 0
  /\ task' = "idle"
  /\ UNCHANGED <<core, options, op, msgq>>

(* memscrubr_start_main goes on.                                           *)
TaskState ==
  /\ TASK
  /\ task = "state"
  /\ state' = 1
  /\ task' = "ahberr"
  /\ UNCHANGED <<core, options, op, msgq>>

(* memscrub_setup_ahberr clears the status word after enabling errors.     *)
TaskAhberr ==
  /\ TASK
  /\ task = "ahberr"
  /\ ahberr' = [ue |-> TRUE, ce |-> opermode = 1]
  /\ cause' = {}
  /\ task' = "scruberr"
  /\ UNCHANGED <<active, conf, runcount, done, rect, irq, state, options, op, msgq>>

TaskScruberr ==
  /\ TASK
  /\ task = "scruberr"
  /\ rect' = IF opermode = 0 THEN regenthres ELSE Off
  /\ task' = "restop"
  /\ UNCHANGED <<active, conf, runcount, done, cause, ahberr, irq, state, options, op, msgq>>

TaskGo ==
  /\ TASK
  /\ task = "go"
  /\ WriteConf(ScrubConf)
  /\ task' = "idle"
  /\ UNCHANGED <<done, cause, ahberr, rect, irq, state, options, op, msgq>>

(* memscrubr_get_message takes the oldest message.                         *)
GetMessage ==
  /\ TASK
  /\ msgq # <<>>
  /\ msgq' = Tail(msgq)
  /\ UNCHANGED <<core, state, options, taskvars>>

TaskStep == \/ TaskConfZero \/ TaskWaitStop \/ TaskStopped
            \/ TaskState \/ TaskAhberr \/ TaskScruberr \/ TaskGo

-----------------------------------------------------------------------------
Core == ScrubError \/ BusError \/ RunEnd \/ WindDown

(* Autostart, as in scrubtest.c, is one start out of init2 and no call by  *)
(* the user; otherwise starts and stops come at any time.                  *)
Next == Core \/ Isr \/ TaskStep \/ GetMessage \/ Call \/ SetOption

Init == \E autostart \in BOOLEAN : InitWith(autostart)

(* The core ends its runs, an interrupt is taken, code that runs goes on.  *)
Fairness ==
  /\ WF_vars(RunEnd) /\ WF_vars(WindDown)
  /\ WF_vars(Isr)
  /\ WF_vars(TaskStep)

Spec == Init /\ [][Next]_vars /\ Fairness

-----------------------------------------------------------------------------
(* Properties.                                                             *)

(* Every variable has its type and the queue its length.                   *)
TypeOK ==
  /\ active \in BOOLEAN /\ done \in BOOLEAN /\ irq \in BOOLEAN
  /\ conf \in Conf /\ confval \in Conf
  /\ runcount \in 0..MaxRun
  /\ cause \in SUBSET Causes /\ evmask \in SUBSET Events
  /\ ahberr \in [ue : BOOLEAN, ce : BOOLEAN]
  /\ rect \in Thresholds \cup {Off} /\ called \in BOOLEAN
  /\ state \in {0, 1, 2} /\ opermode \in {0, 1} /\ regenthres \in Thresholds
  /\ isr \in {"idle", "events", "ack", "done", "restart", "error", "readconf", "switch"}
  /\ op \in {"start", "stop"}
  /\ task \in {"idle", "stop", "wait", "stopped", "state", "ahberr", "scruberr",
                "restop", "rewait", "go"}
  /\ msgq \in Seq(SUBSET (Events \cup {"REGEN"}))
  /\ Len(msgq) <= QueueLen

Quiet == isr = "idle" /\ task = "idle"

(* The service routine loops until it has seen a status word without any   *)
(* event: an error or an end of run that comes while it acknowledges an    *)
(* earlier one is never left without an interrupt.                         *)
EventsServed == cause # {} \/ done => irq \/ isr # "idle"

(* Once started the scrubber never stops by accident: between operations   *)
(* a run is in progress or its end is about to be served.                  *)
KeepsScrubbing == Quiet /\ state # 0 => (active /\ conf.scen) \/ done

(* A driver that regenerates always gets to know when it is done: the run  *)
(* in progress is one that ends and interrupts, or it has ended.  A restart *)
(* may come between the service routine's switch and the run, so this is   *)
(* about a scrubber that was started once.                                 *)
RegenInterrupts ==
  Quiet /\ ~called /\ state = 2 =>
    done \/ (active /\ conf.scen /\ conf.irqd /\ ~conf.loop)

(* In the silent mode the driver that scrubs is armed: the core loops and  *)
(* will interrupt at the threshold the user set.                           *)
SilentArmed ==
  Quiet /\ ~called /\ opermode = 0 /\ state = 1 =>
    done \/ (conf.loop /\ rect = regenthres)

(* "When regeneration has completed, the ordinary scrubbing is resumed."   *)
RegenResumes == state = 2 ~> (state = 1 \/ called)

(* After memscrubr_stop has returned, and with every interrupt served, the *)
(* scrubber is stopped: "Stop the current operation".                      *)
StopStops == Quiet /\ op = "stop" /\ ~irq => ~active

=============================================================================
