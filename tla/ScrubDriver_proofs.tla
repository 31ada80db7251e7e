------------------------- MODULE ScrubDriver_proofs -------------------------
(***************************************************************************)
(* Theorems of ScrubDriver, for every set of thresholds, every number of   *)
(* errors in a run and every queue length.                                 *)
(***************************************************************************)
EXTENDS ScrubDriver, TLAPS

Message == SUBSET (Events \cup {"REGEN"})

(* Sending keeps a queue of messages within its length.                    *)
LEMMA QueuedFits ==
  ASSUME NEW q \in Seq(Message), Len(q) <= QueueLen,
         NEW w \in Message
  PROVE  Queued(q, w) \in Seq(Message) /\ Len(Queued(q, w)) <= QueueLen
<1>1. Append(q, w) \in Seq(Message) /\ Len(Append(q, w)) = Len(q) + 1
  OBVIOUS
<1>2. QueueLen \in Nat /\ Len(q) \in Nat
  BY QueueLenAssumption DEF QueueLenAssumption
<1> QED BY <1>1, <1>2 DEF Queued

-----------------------------------------------------------------------------
(* Type correctness, part by part.                                         *)

CoreType ==
  /\ active \in BOOLEAN /\ done \in BOOLEAN /\ irq \in BOOLEAN
  /\ conf \in Conf /\ runcount \in 0..MaxRun
  /\ cause \in SUBSET Causes
  /\ ahberr \in [ue : BOOLEAN, ce : BOOLEAN]
  /\ rect \in Thresholds \cup {Off}

DriverType ==
  /\ confval \in Conf /\ evmask \in SUBSET Events
  /\ state \in {0, 1, 2} /\ opermode \in {0, 1} /\ regenthres \in Thresholds
  /\ called \in BOOLEAN
  /\ isr \in {"idle", "events", "ack", "done", "restart", "error", "readconf", "switch"}
  /\ op \in {"start", "stop"}
  /\ task \in {"idle", "stop", "wait", "stopped", "state", "ahberr", "scruberr",
               "restop", "rewait", "go"}

QueueType == msgq \in Seq(Message) /\ Len(msgq) <= QueueLen

LEMMA TypeParts == TypeOK <=> CoreType /\ DriverType /\ QueueType
BY DEF TypeOK, CoreType, DriverType, QueueType, Message

LEMMA ConfsFit ==
  /\ ConfZero \in Conf
  /\ ScrubConf \in Conf
  /\ \A c \in Conf : [scen |-> c.scen, mode |-> "regen", loop |-> FALSE, irqd |-> TRUE] \in Conf
BY DEF Conf, ConfZero, ScrubConf

LEMMA WritesFit ==
  ASSUME CoreType, NEW c \in Conf, WriteConf(c)
  PROVE  active' \in BOOLEAN /\ conf' \in Conf /\ runcount' \in 0..MaxRun
<1>1. MaxRun \in Nat
  BY MaxRunAssumption DEF MaxRunAssumption
<1>2. c.scen \in BOOLEAN
  BY DEF Conf
<1>3. runcount' \in 0..MaxRun
  BY <1>1, <1>2 DEF WriteConf, CoreType
<1>4. active' \in BOOLEAN
  BY Zenon DEF WriteConf
<1> QED BY <1>3, <1>4 DEF WriteConf

LEMMA CoreStepsFit ==
  ASSUME CoreType, DriverType, QueueType, Core
  PROVE  CoreType' /\ DriverType' /\ QueueType'
<1>1. MaxRun \in Nat
  BY MaxRunAssumption DEF MaxRunAssumption
<1>2. ASSUME NEW bits \in SUBSET Causes, Raise(bits)
      PROVE  cause' \in SUBSET Causes /\ irq' \in BOOLEAN
  BY <1>2 DEF Raise, CoreType
<1>3. CASE ScrubError
  <2>1. cause' \in SUBSET Causes /\ irq' \in BOOLEAN
    <3> DEFINE bits == {b \in {"CE", "RUNTOT"} :
                          \/ b = "CE" /\ ahberr.ce
                          \/ b = "RUNTOT" /\ rect # Off /\ runcount + 1 > rect}
    <3>1. bits \in SUBSET Causes
      BY DEF Causes
    <3>2. Raise(bits)
      BY <1>3 DEF ScrubError
    <3> HIDE DEF bits
    <3> QED BY <1>2, <3>1, <3>2
  <2>2. runcount' \in 0..MaxRun
    BY <1>1, <1>3 DEF ScrubError, CoreType
  <2> QED
    BY <1>3, <2>1, <2>2 DEF ScrubError, CoreType, DriverType, QueueType,
       options, isrvars, taskvars
<1>4. CASE BusError
  <2>1. cause' \in SUBSET Causes /\ irq' \in BOOLEAN
    BY <1>2, <1>4 DEF BusError, Causes
  <2> QED
    BY <1>4, <2>1 DEF BusError, CoreType, DriverType, QueueType, options, isrvars, taskvars
<1>5. CASE RunEnd
  <2>1. conf' \in Conf
    BY <1>5 DEF RunEnd, CoreType, Conf
  <2>2. runcount' \in 0..MaxRun
    <3>1. runcount' = 0 \/ runcount' = runcount
      BY <1>5, Zenon DEF RunEnd
    <3> QED BY <1>1, <3>1 DEF CoreType
  <2>3. active' \in BOOLEAN /\ done' \in BOOLEAN /\ irq' \in BOOLEAN
    BY <1>5, Zenon DEF RunEnd, CoreType
  <2>4. UNCHANGED <<cause, ahberr, rect, state, options, isrvars, taskvars, msgq>>
    BY <1>5, Zenon DEF RunEnd
  <2> QED
    BY <2>1, <2>2, <2>3, <2>4 DEF CoreType, DriverType, QueueType, options, isrvars, taskvars
<1>6. CASE WindDown
  <2>1. /\ active' = FALSE
        /\ UNCHANGED <<conf, runcount, done, cause, ahberr, rect, irq>>
        /\ UNCHANGED <<state, options, isrvars, taskvars, msgq>>
    BY <1>6, Zenon DEF WindDown
  <2>2. CoreType'
    BY <2>1 DEF CoreType
  <2>3. DriverType' /\ QueueType'
    BY <2>1 DEF DriverType, QueueType, options, isrvars, taskvars
  <2> QED BY <2>2, <2>3
<1> QED BY <1>3, <1>4, <1>5, <1>6 DEF Core

LEMMA IsrStepsFit ==
  ASSUME CoreType, DriverType, QueueType, Isr
  PROVE  CoreType' /\ DriverType' /\ QueueType'
<1> USE DEF ISR, options, taskvars
<1>1. CASE IsrEnter
  <2>1. CoreType' /\ QueueType'
    BY <1>1 DEF IsrEnter, CoreType, QueueType
  <2>2. DriverType'
    BY <1>1 DEF IsrEnter, DriverType
  <2> QED BY <2>1, <2>2
<1>2. CASE IsrEvents
  <2>1. evmask' \in SUBSET Events
    BY <1>2 DEF IsrEvents, CoreType, Events
  <2> QED BY <1>2, <2>1 DEF IsrEvents, core, CoreType, DriverType, QueueType
<1>3. CASE IsrAck
  <2>1. QueueType'
    <3> DEFINE q == IF evmask \cap {"UE", "CE"} # {}
                      THEN Queued(msgq, evmask) ELSE msgq
    <3>1. evmask \in Message
      BY DEF DriverType, Message
    <3>2. q \in Seq(Message) /\ Len(q) <= QueueLen
      BY <3>1, QueuedFits DEF QueueType
    <3>3. msgq' = IF "DONE" \in evmask THEN Queued(q, evmask) ELSE q
      BY <1>3 DEF IsrAck
    <3> HIDE DEF q
    <3> QED BY <3>1, <3>2, <3>3, QueuedFits DEF QueueType
  <2>2. done' \in BOOLEAN
    BY <1>3, Zenon DEF IsrAck
  <2> QED BY <1>3, <2>1, <2>2 DEF IsrAck, CoreType, DriverType
<1>4. CASE IsrDone
  BY <1>4, ConfsFit DEF IsrDone, CoreType, DriverType, QueueType
<1>5. CASE IsrRestart
  BY <1>5, ConfsFit, WritesFit DEF IsrRestart, CoreType, DriverType, QueueType
<1>6. CASE IsrError
  BY <1>6 DEF IsrError, CoreType, DriverType, QueueType
<1>7. CASE IsrReadConf
  BY <1>7 DEF IsrReadConf, core, CoreType, DriverType, QueueType
<1>8. CASE IsrSwitch
  <2>1. QueueType'
    BY <1>8, QueuedFits DEF IsrSwitch, QueueType, Message
  <2>2. active' \in BOOLEAN /\ conf' \in Conf /\ runcount' \in 0..MaxRun
    BY <1>8, ConfsFit, WritesFit DEF IsrSwitch, DriverType
  <2> QED BY <1>8, <2>1, <2>2 DEF IsrSwitch, CoreType, DriverType
<1> QED
  BY <1>1, <1>2, <1>3, <1>4, <1>5, <1>6, <1>7, <1>8 DEF Isr

LEMMA TaskStepsFit ==
  ASSUME CoreType, DriverType, QueueType, TaskStep \/ GetMessage \/ Call \/ SetOption
  PROVE  CoreType' /\ DriverType' /\ QueueType'
<1> USE DEF TASK, isrvars, options, taskvars, core
<1>1. CASE TaskConfZero
  BY <1>1, ConfsFit DEF TaskConfZero, CoreType, DriverType, QueueType
<1>2. CASE TaskWaitStop
  BY <1>2, ConfsFit DEF TaskWaitStop, CoreType, DriverType, QueueType
<1>3. CASE TaskStopped
  BY <1>3 DEF TaskStopped, CoreType, DriverType, QueueType
<1>4. CASE TaskState
  BY <1>4 DEF TaskState, CoreType, DriverType, QueueType
<1>5. CASE TaskAhberr
  BY <1>5 DEF TaskAhberr, CoreType, DriverType, QueueType
<1>6. CASE TaskScruberr
  BY <1>6 DEF TaskScruberr, CoreType, DriverType, QueueType
<1>7. CASE TaskGo
  BY <1>7, ConfsFit, WritesFit DEF TaskGo, CoreType, DriverType, QueueType
<1>8. CASE GetMessage
  <2>1. QueueType'
    <3>1. Tail(msgq) \in Seq(Message) /\ Len(Tail(msgq)) = Len(msgq) - 1
      BY <1>8 DEF GetMessage, QueueType
    <3>2. Len(msgq) \in Nat /\ QueueLen \in Nat
      BY QueueLenAssumption DEF QueueType, QueueLenAssumption
    <3> QED BY <1>8, <3>1, <3>2 DEF GetMessage, QueueType
  <2> QED BY <1>8, <2>1 DEF GetMessage, CoreType, DriverType
<1>9. CASE Call
  BY <1>9 DEF Call, CoreType, DriverType, QueueType
<1>10. CASE SetOption
  BY <1>10 DEF SetOption, CoreType, DriverType, QueueType
<1> QED
  BY <1>1, <1>2, <1>3, <1>4, <1>5, <1>6, <1>7, <1>8, <1>9, <1>10 DEF TaskStep

LEMMA TypeNext ==
  ASSUME TypeOK, [Next]_vars
  PROVE  TypeOK'
<1>1. CoreType /\ DriverType /\ QueueType
  BY TypeParts
<1>2. CoreType' /\ DriverType' /\ QueueType'
  <2>1. CASE Core
    BY <1>1, <2>1, CoreStepsFit
  <2>2. CASE Isr
    BY <1>1, <2>2, IsrStepsFit
  <2>3. CASE TaskStep \/ GetMessage \/ Call \/ SetOption
    BY <1>1, <2>3, TaskStepsFit
  <2>4. CASE UNCHANGED vars
    BY <1>1, <2>4 DEF vars, core, options, isrvars, taskvars, CoreType, DriverType, QueueType
  <2> QED BY <2>1, <2>2, <2>3, <2>4 DEF Next
<1> QED BY <1>2 DEF TypeOK, CoreType, DriverType, QueueType, Message

LEMMA TypeInit == Init => TypeOK
<1> SUFFICES ASSUME NEW autostart \in BOOLEAN, InitWith(autostart)
             PROVE  TypeOK
  BY DEF Init
<1>1. 0 \in 0..MaxRun /\ 0 <= QueueLen
  BY MaxRunAssumption, QueueLenAssumption DEF MaxRunAssumption, QueueLenAssumption
<1>2. QueueType
  BY <1>1 DEF InitWith, QueueType
<1>3. CoreType /\ DriverType
  BY <1>1, ConfsFit DEF InitWith, CoreType, DriverType
<1> QED BY <1>2, <1>3, TypeParts

(* Every behaviour, restarts and options included, keeps every variable    *)
(* typed and the queue within its length.                                  *)
THEOREM Typing == Spec => []TypeOK
<1>1. TypeOK /\ [Next]_vars => TypeOK'
  BY TypeNext
<1> QED BY TypeInit, <1>1, PTL DEF Spec

-----------------------------------------------------------------------------
(* No event is left without an interrupt.                                  *)

(* What makes it inductive: a run the driver enables either loops, and     *)
(* then never ends, or interrupts when it ends.                            *)
RunsInterrupt == conf.scen => conf.loop \/ conf.irqd

ServedInv == EventsServed /\ RunsInterrupt

LEMMA ServedNext ==
  ASSUME TypeOK, ServedInv, [Next]_vars
  PROVE  ServedInv'
<1> USE DEF ServedInv, EventsServed
<1>1. opermode = 0 \/ opermode = 1
  BY DEF TypeOK
<1>2. ScrubConf.loop \/ ScrubConf.irqd
  BY <1>1 DEF ScrubConf
<1>3. ConfZero.scen = FALSE
  BY DEF ConfZero
<1>4. CASE Core
  <2>1. CASE ScrubError
    <3>1. /\ UNCHANGED <<conf, done, isr>>
          /\ \/ irq' = TRUE
             \/ UNCHANGED <<cause, irq>>
      BY <2>1, Zenon DEF ScrubError, Raise, isrvars
    <3> QED BY <3>1, Zenon DEF RunsInterrupt
  <2>2. CASE BusError
    <3>1. /\ UNCHANGED <<conf, done, isr>>
          /\ \/ irq' = TRUE
             \/ UNCHANGED <<cause, irq>>
      BY <2>2, Zenon DEF BusError, Raise, isrvars
    <3> QED BY <3>1, Zenon DEF RunsInterrupt
  <2>3. CASE RunEnd
    <3>1. CASE conf.loop
      BY <2>3, <3>1, Zenon DEF RunEnd, isrvars, RunsInterrupt
    <3>2. CASE ~conf.loop
      <4>1. irq' = TRUE
        BY <2>3, <3>2, Zenon DEF RunEnd, RunsInterrupt
      <4>2. conf' = [conf EXCEPT !.scen = FALSE]
        BY <2>3, <3>2 DEF RunEnd
      <4>3. conf'.scen = FALSE
        BY <4>2 DEF TypeOK, Conf
      <4> QED BY <4>1, <4>3 DEF RunsInterrupt
    <3> QED BY <3>1, <3>2
  <2>4. CASE WindDown
    BY <2>4, Zenon DEF WindDown, isrvars, RunsInterrupt
  <2> QED BY <1>4, <2>1, <2>2, <2>3, <2>4 DEF Core
<1>5. CASE Isr
  <2>1. CASE IsrEnter
    BY <2>1 DEF IsrEnter, RunsInterrupt
  <2>2. CASE IsrEvents
    <3>1. (cause = {} /\ done = FALSE) \/ isr' # "idle"
      BY <2>2 DEF IsrEvents, TypeOK
    <3> QED BY <2>2, <3>1, Zenon DEF IsrEvents, core, RunsInterrupt
  <2>3. CASE IsrAck
    BY <2>3 DEF IsrAck, RunsInterrupt
  <2>4. CASE IsrDone
    BY <1>3, <2>4 DEF IsrDone, RunsInterrupt
  <2>5. CASE IsrRestart
    BY <1>2, <2>5 DEF IsrRestart, WriteConf, RunsInterrupt
  <2>6. CASE IsrError
    BY <2>6 DEF IsrError, RunsInterrupt
  <2>7. CASE IsrReadConf
    BY <2>7 DEF IsrReadConf, core, RunsInterrupt
  <2>8. CASE IsrSwitch
    BY <2>8 DEF IsrSwitch, WriteConf, RunsInterrupt
  <2> QED BY <1>5, <2>1, <2>2, <2>3, <2>4, <2>5, <2>6, <2>7, <2>8 DEF Isr
<1>6. CASE TaskStep \/ GetMessage \/ Call \/ SetOption
  <2> USE DEF TASK, isrvars, RunsInterrupt
  <2>1. CASE TaskConfZero
    BY <1>3, <2>1 DEF TaskConfZero
  <2>2. CASE TaskWaitStop
    BY <1>3, <2>2 DEF TaskWaitStop
  <2>3. CASE TaskStopped \/ TaskState
    BY <2>3 DEF TaskStopped, TaskState, core
  <2>4. CASE TaskAhberr
    BY <2>4 DEF TaskAhberr
  <2>5. CASE TaskScruberr
    BY <2>5 DEF TaskScruberr
  <2>6. CASE TaskGo
    BY <1>2, <2>6 DEF TaskGo, WriteConf
  <2>7. CASE GetMessage \/ Call \/ SetOption
    BY <2>7 DEF GetMessage, Call, SetOption, core
  <2> QED BY <1>6, <2>1, <2>2, <2>3, <2>4, <2>5, <2>6, <2>7 DEF TaskStep
<1>7. CASE UNCHANGED vars
  BY <1>7 DEF vars, core, isrvars, RunsInterrupt
<1> QED BY <1>4, <1>5, <1>6, <1>7 DEF Next

(* An error or an end of run never waits without an interrupt pending or   *)
(* the service routine about to look again, whatever the tasks do to the   *)
(* core meanwhile.                                                         *)
THEOREM NoLostEvent == Spec => []EventsServed
<1>1. Init => ServedInv
  BY DEF Init, InitWith, ServedInv, EventsServed, RunsInterrupt, ConfZero
<1>2. TypeOK /\ ServedInv /\ [Next]_vars => ServedInv'
  BY ServedNext
<1>3. ServedInv => EventsServed
  BY DEF ServedInv
<1> QED BY Typing, <1>1, <1>2, <1>3, PTL DEF Spec

-----------------------------------------------------------------------------
(* The scrubber never stops by accident.                                   *)

(* A run is in progress or its end is waiting.  This holds between task    *)
(* operations except while the service routine is about to start a run;    *)
(* memscrub_switch_mode writes back a SCEN it has read before, which must  *)
(* still be the right one when it is written.                              *)
RunsOrDone == (active /\ conf.scen) \/ done

KeepsInv ==
  task = "idle" /\ state # 0 =>
    /\ isr \notin {"done", "restart"} => RunsOrDone
    /\ isr = "switch" => done \/ confval.scen
    /\ isr = "ack" /\ "DONE" \notin evmask => RunsOrDone

LEMMA KeepsNext ==
  ASSUME TypeOK, KeepsInv, [Next]_vars
  PROVE  KeepsInv'
<1>1. ScrubConf.scen = TRUE
  BY DEF ScrubConf
<1>2. CASE Core
  <2>1. UNCHANGED <<state, isr, evmask, confval, task>>
    BY <1>2 DEF Core, ScrubError, BusError, RunEnd, WindDown, isrvars, taskvars
  <2>2. RunsOrDone => RunsOrDone'
    <3>1. CASE ScrubError \/ BusError
      BY <3>1, Zenon DEF ScrubError, BusError, RunsOrDone
    <3>2. CASE RunEnd
      BY <3>2, Zenon DEF RunEnd, RunsOrDone
    <3>3. CASE WindDown
      BY <3>3, Zenon DEF WindDown, RunsOrDone
    <3> QED BY <1>2, <3>1, <3>2, <3>3 DEF Core
  <2>3. done => done'
    BY <1>2, Zenon DEF Core, ScrubError, BusError, RunEnd, WindDown
  <2> QED BY <2>1, <2>2, <2>3 DEF KeepsInv
<1>3. CASE Isr
  <2>1. CASE IsrEnter
    BY <2>1 DEF IsrEnter, ISR, taskvars, KeepsInv, RunsOrDone
  <2>2. CASE IsrEvents
    BY <2>2 DEF IsrEvents, ISR, core, taskvars, KeepsInv, RunsOrDone
  <2>3. CASE IsrAck
    BY <2>3 DEF IsrAck, ISR, taskvars, KeepsInv, RunsOrDone, TypeOK
  <2>4. CASE IsrDone
    BY <2>4 DEF IsrDone, ISR, taskvars, KeepsInv
  <2>5. CASE IsrRestart
    BY <1>1, <2>5 DEF IsrRestart, WriteConf, ISR, taskvars, KeepsInv, RunsOrDone
  <2>6. CASE IsrError
    BY <2>6 DEF IsrError, TooManyErrors, ISR, taskvars, KeepsInv, RunsOrDone
  <2>7. CASE IsrReadConf
    BY <2>7 DEF IsrReadConf, ISR, core, taskvars, KeepsInv, RunsOrDone
  <2>8. CASE IsrSwitch
    <3>1. /\ isr' = "events" /\ UNCHANGED <<done, state, task>>
          /\ conf'.scen = confval.scen
          /\ active' = (active \/ confval.scen)
      BY <2>8 DEF IsrSwitch, WriteConf, ISR, taskvars
    <3>2. isr = "switch"
      BY <2>8 DEF IsrSwitch
    <3> QED BY <3>1, <3>2 DEF KeepsInv, RunsOrDone
  <2> QED BY <1>3, <2>1, <2>2, <2>3, <2>4, <2>5, <2>6, <2>7, <2>8 DEF Isr
<1>4. CASE TaskStep \/ GetMessage \/ Call \/ SetOption
  <2> USE DEF TASK, isrvars, taskvars, core, KeepsInv
  <2>1. CASE TaskConfZero \/ TaskWaitStop
    BY <2>1 DEF TaskConfZero, TaskWaitStop
  <2>2. CASE TaskStopped \/ TaskState \/ TaskAhberr \/ TaskScruberr
    BY <2>2 DEF TaskStopped, TaskState, TaskAhberr, TaskScruberr
  <2>3. CASE TaskGo
    BY <1>1, <2>3 DEF TaskGo, WriteConf, RunsOrDone
  <2>4. CASE GetMessage \/ Call \/ SetOption
    BY <2>4 DEF GetMessage, Call, SetOption, RunsOrDone
  <2> QED BY <1>4, <2>1, <2>2, <2>3, <2>4 DEF TaskStep
<1>5. CASE UNCHANGED vars
  BY <1>5 DEF vars, core, isrvars, taskvars, KeepsInv, RunsOrDone
<1> QED BY <1>2, <1>3, <1>4, <1>5 DEF Next

LEMMA KeepsInvariant == Spec => []KeepsInv
<1>1. Init => KeepsInv
  BY DEF Init, InitWith, KeepsInv
<1>2. TypeOK /\ KeepsInv /\ [Next]_vars => KeepsInv'
  BY KeepsNext
<1> QED
  BY Typing, <1>1, <1>2, PTL DEF Spec

(* Between operations a driver that is not stopped has a run in progress   *)
(* or the end of one waiting to be served, whatever raced before.          *)
THEOREM Keeps == Spec => []KeepsScrubbing
<1>1. KeepsInv => KeepsScrubbing
  BY DEF KeepsInv, KeepsScrubbing, Quiet, RunsOrDone
<1> QED
  BY KeepsInvariant, <1>1, PTL

-----------------------------------------------------------------------------
(* A scrubber that was started once, by its start-up, and is left to       *)
(* itself.                                                                 *)

(* Not started: nothing can end, and no error of the bus changes a mode.   *)
Dormant ==
  /\ task = "idle" /\ state = 0 /\ ~active /\ ~conf.scen /\ ~done
  /\ isr \in {"idle", "events", "ack", "error"}
  /\ isr = "ack" => "DONE" \notin evmask

(* Silent mode, being started: no correctable error is reported yet, so    *)
(* nothing makes the driver regenerate a scrubber that does not run.       *)
SilentStart ==
  /\ ~active /\ ~conf.scen /\ ~done /\ ~ahberr.ce
  /\ cause \subseteq {"UE"} /\ state # 2 /\ task # "stopped"
  /\ task \in {"ahberr", "scruberr", "restop", "rewait", "go"} => state = 1
  /\ isr \in {"idle", "events", "ack", "error"}
  /\ isr \in {"ack", "error"} => evmask \subseteq {"UE"}
  /\ task \in {"restop", "rewait", "go"} => rect = regenthres

(* Silent mode, started: scrubbing loops, and its threshold is the one the *)
(* user set; regeneration does not loop.  While the service routine works  *)
(* on the end of a run or writes a mode, it is about to make this true.    *)
SilentRuns ==
  /\ isr = "restart" => state = 1 /\ rect = regenthres
  /\ isr \notin {"done", "restart"} =>
       /\ state # 0
       /\ isr \in {"readconf", "switch"} => state = 2
       /\ state = 1 => conf.loop /\ rect = regenthres
       /\ state = 2 /\ isr \notin {"readconf", "switch"} => conf.irqd /\ ~conf.loop

(* Managed mode: no run loops, and the end of each interrupts.             *)
ManagedRuns == conf.scen => conf.irqd /\ ~conf.loop

OnceInv ==
  ~called =>
    /\ op = "stop" => Dormant
    /\ op = "start" /\ opermode = 1 => ManagedRuns
    /\ op = "start" /\ opermode = 0 /\ task # "idle" => SilentStart
    /\ op = "start" /\ opermode = 0 /\ task = "idle" => SilentRuns

LEMMA Flags ==
  /\ opermode = 0 => ScrubConf.loop
  /\ opermode = 1 => ScrubConf.irqd /\ ~ScrubConf.loop
<1>1. opermode = 0 => ScrubConf = [scen |-> TRUE, mode |-> "scrub", loop |-> TRUE, irqd |-> FALSE]
  <2>1. ASSUME opermode = 0 PROVE (opermode = 0) = TRUE /\ (opermode = 1) = FALSE
    BY <2>1
  <2> QED
    BY <2>1, Zenon DEF ScrubConf
<1>2. opermode = 1 => ScrubConf = [scen |-> TRUE, mode |-> "scrub", loop |-> FALSE, irqd |-> TRUE]
  <2>1. ASSUME opermode = 1 PROVE (opermode = 0) = FALSE /\ (opermode = 1) = TRUE
    BY <2>1
  <2> QED
    BY <2>1, Zenon DEF ScrubConf
<1> QED
  BY <1>1, <1>2

LEMMA OnceInit == Init => OnceInv
<1>1. InitWith(TRUE) => OnceInv
  <2>1. InitWith(TRUE) => ahberr = [ue |-> FALSE, ce |-> FALSE] /\ task = "stop" /\ op = "start"
    BY DEF InitWith
  <2> QED
    BY <2>1 DEF InitWith, OnceInv, ManagedRuns, SilentStart, ConfZero
<1>2. InitWith(FALSE) => OnceInv
  BY DEF InitWith, OnceInv, Dormant, ConfZero
<1> QED
  BY <1>1, <1>2 DEF Init

(* What the core does to a scrubber that is left to itself.                *)
LEMMA OnceCore ==
  ASSUME TypeOK, OnceInv, Core
  PROVE  OnceInv'
<1>1. UNCHANGED <<state, opermode, regenthres, called, isr, evmask, op, task>>
  BY DEF Core, ScrubError, BusError, RunEnd, WindDown, isrvars, taskvars, options
<1>2. UNCHANGED <<rect, ahberr>>
  BY DEF Core, ScrubError, BusError, RunEnd, WindDown
<1>3. ~active => ~active' /\ UNCHANGED <<conf, done>>
  BY Zenon DEF Core, ScrubError, BusError, RunEnd, WindDown
<1>4. conf' = conf \/ (conf' = [conf EXCEPT !.scen = FALSE])
  BY Zenon DEF Core, ScrubError, BusError, RunEnd, WindDown
<1>5. /\ conf'.loop = conf.loop /\ conf'.irqd = conf.irqd
      /\ conf'.scen => conf.scen
  BY <1>4 DEF TypeOK, Conf
<1>6. ~active /\ ~ahberr.ce /\ cause \subseteq {"UE"} => cause' \subseteq {"UE"}
  <2>1. CASE ScrubError
    BY <2>1 DEF ScrubError
  <2>2. CASE BusError
    BY <2>2 DEF BusError, Raise
  <2>3. CASE RunEnd \/ WindDown
    BY <2>3 DEF RunEnd, WindDown
  <2> QED
    BY <2>1, <2>2, <2>3 DEF Core
<1>7. Dormant => Dormant'
  BY <1>1, <1>3 DEF Dormant
<1>8. SilentStart => SilentStart'
  BY <1>1, <1>2, <1>3, <1>6 DEF SilentStart
<1>9. SilentRuns => SilentRuns'
  BY <1>1, <1>2, <1>5 DEF SilentRuns
<1>10. ManagedRuns => ManagedRuns'
  BY <1>5 DEF ManagedRuns
<1> QED
  BY <1>1, <1>7, <1>8, <1>9, <1>10, Zenon DEF OnceInv

LEMMA OnceIsr ==
  ASSUME TypeOK, OnceInv, Isr
  PROVE  OnceInv'
<1>1. UNCHANGED <<opermode, regenthres, called, op, task>>
  BY DEF Isr, IsrEnter, IsrEvents, IsrAck, IsrDone, IsrRestart, IsrError, IsrReadConf,
         IsrSwitch, ISR, options, taskvars
<1>2. Dormant => Dormant'
  <2> SUFFICES ASSUME Dormant PROVE Dormant'
    OBVIOUS
  <2>1. CASE IsrEnter
    BY <1>1, <2>1 DEF IsrEnter, Dormant
  <2>2. CASE IsrEvents
    BY <1>1, <2>2 DEF IsrEvents, core, Dormant, TypeOK, Causes
  <2>3. CASE IsrAck
    BY <1>1, <2>3 DEF IsrAck, Dormant
  <2>4. CASE IsrError
    BY <1>1, <2>4 DEF IsrError, TooManyErrors, Dormant
  <2> QED
    BY <2>1, <2>2, <2>3, <2>4 DEF Isr, IsrDone, IsrRestart, IsrReadConf, IsrSwitch, Dormant
<1>3. SilentStart => SilentStart'
  <2> SUFFICES ASSUME SilentStart PROVE SilentStart'
    OBVIOUS
  <2>1. CASE IsrEnter
    BY <1>1, <2>1 DEF IsrEnter, SilentStart
  <2>2. CASE IsrEvents
    BY <1>1, <2>2 DEF IsrEvents, core, SilentStart
  <2>3. CASE IsrAck
    BY <1>1, <2>3 DEF IsrAck, SilentStart
  <2>4. CASE IsrError
    <3>1. ~TooManyErrors
      BY <2>4 DEF IsrError, TooManyErrors, SilentStart
    <3> QED
      BY <1>1, <2>4, <3>1 DEF IsrError, SilentStart
  <2> QED
    BY <2>1, <2>2, <2>3, <2>4 DEF Isr, IsrDone, IsrRestart, IsrReadConf, IsrSwitch, SilentStart
<1>4. opermode = 0 /\ SilentRuns => SilentRuns'
  <2> SUFFICES ASSUME opermode = 0, SilentRuns PROVE SilentRuns'
    OBVIOUS
  <2>1. CASE IsrEnter
    BY <1>1, <2>1 DEF IsrEnter, SilentRuns
  <2>2. CASE IsrEvents
    BY <1>1, <2>2 DEF IsrEvents, core, SilentRuns
  <2>3. CASE IsrAck
    BY <1>1, <2>3 DEF IsrAck, SilentRuns
  <2>4. CASE IsrDone
    BY <1>1, <2>4 DEF IsrDone, SilentRuns
  <2>5. CASE IsrRestart
    BY <1>1, <2>5, Flags DEF IsrRestart, SilentRuns, WriteConf
  <2>6. CASE IsrError
    BY <1>1, <2>6 DEF IsrError, TooManyErrors, SilentRuns
  <2>7. CASE IsrReadConf
    BY <1>1, <2>7 DEF IsrReadConf, core, SilentRuns
  <2>8. CASE IsrSwitch
    BY <1>1, <2>8 DEF IsrSwitch, SilentRuns, WriteConf
  <2> QED
    BY <2>1, <2>2, <2>3, <2>4, <2>5, <2>6, <2>7, <2>8 DEF Isr
<1>5. opermode = 1 /\ ManagedRuns => ManagedRuns'
  <2>1. CASE IsrDone
    BY <2>1 DEF IsrDone, ConfZero, ManagedRuns
  <2>2. CASE IsrRestart
    BY <2>2, Flags DEF IsrRestart, WriteConf, ManagedRuns
  <2>3. CASE IsrSwitch
    BY <2>3 DEF IsrSwitch, WriteConf, ManagedRuns
  <2>4. CASE IsrEnter \/ IsrEvents \/ IsrAck \/ IsrError \/ IsrReadConf
    BY <2>4 DEF IsrEnter, IsrEvents, IsrAck, IsrError, IsrReadConf, core, ManagedRuns
  <2> QED
    BY <2>1, <2>2, <2>3, <2>4 DEF Isr
<1> QED
  BY <1>1, <1>2, <1>3, <1>4, <1>5 DEF OnceInv

LEMMA OnceTask ==
  ASSUME TypeOK, OnceInv, TaskStep \/ GetMessage \/ Call \/ SetOption
  PROVE  OnceInv'
<1> USE DEF TASK, isrvars, options, taskvars, core
<1>1. CASE TaskConfZero
  BY <1>1 DEF TaskConfZero, ConfZero, OnceInv, Dormant, SilentStart, SilentRuns, ManagedRuns
<1>2. CASE TaskWaitStop
  BY <1>2 DEF TaskWaitStop, ConfZero, OnceInv, Dormant, SilentStart, SilentRuns, ManagedRuns
<1>3. CASE TaskStopped \/ TaskState
  BY <1>3 DEF TaskStopped, TaskState, OnceInv, Dormant, SilentStart, SilentRuns, ManagedRuns
<1>4. CASE TaskAhberr
  <2>1. opermode = 0 => ahberr' = [ue |-> TRUE, ce |-> FALSE]
    <3>1. ASSUME opermode = 0 PROVE (opermode = 1) = FALSE
      BY <3>1
    <3> QED
      BY <1>4, <3>1, Zenon DEF TaskAhberr
  <2> QED
    BY <1>4, <2>1 DEF TaskAhberr, OnceInv, Dormant, SilentStart, SilentRuns, ManagedRuns
<1>5. CASE TaskScruberr
  BY <1>5 DEF TaskScruberr, OnceInv, Dormant, SilentStart, SilentRuns, ManagedRuns
<1>6. CASE TaskGo
  BY <1>6, Flags DEF TaskGo, WriteConf, OnceInv, Dormant, SilentStart, SilentRuns,
              ManagedRuns
<1>7. CASE GetMessage
  BY <1>7 DEF GetMessage, OnceInv, Dormant, SilentStart, SilentRuns, ManagedRuns
<1>8. CASE Call \/ SetOption
  BY <1>8 DEF Call, SetOption, OnceInv
<1> QED
  BY <1>1, <1>2, <1>3, <1>4, <1>5, <1>6, <1>7, <1>8 DEF TaskStep

LEMMA OnceInvariant == Spec => []OnceInv
<1>1. TypeOK /\ OnceInv /\ [Next]_vars => OnceInv'
  <2>1. TypeOK /\ OnceInv /\ UNCHANGED vars => OnceInv'
    BY DEF vars, core, options, isrvars, taskvars, OnceInv, Dormant, SilentStart, SilentRuns,
           ManagedRuns
  <2> QED
    BY <2>1, OnceCore, OnceIsr, OnceTask DEF Next
<1> QED
  BY Typing, OnceInit, <1>1, PTL DEF Spec

(* A driver that regenerates gets to know when it is done, in both modes:  *)
(* the run in progress ends and interrupts, or it has ended.               *)
THEOREM RegenGetsKnown == Spec => []RegenInterrupts
<1>1. TypeOK /\ KeepsInv /\ OnceInv => RegenInterrupts
  <2> SUFFICES ASSUME TypeOK, KeepsInv, OnceInv, Quiet, ~called, state = 2, ~done
               PROVE  active /\ conf.scen /\ conf.irqd /\ ~conf.loop
    BY DEF RegenInterrupts
  <2>1. active /\ conf.scen
    BY DEF KeepsInv, RunsOrDone, Quiet
  <2>2. op = "start"
    BY DEF OnceInv, Dormant, TypeOK
  <2>3. opermode = 0 \/ opermode = 1
    BY DEF TypeOK
  <2> QED
    BY <2>1, <2>2, <2>3 DEF OnceInv, ManagedRuns, SilentRuns, Quiet
<1> QED
  BY Typing, KeepsInvariant, OnceInvariant, <1>1, PTL

(* A silent scrubber that scrubs loops, and is armed with the user's       *)
(* threshold, after any number of regenerations.                           *)
THEOREM StaysArmed == Spec => []SilentArmed
<1>1. TypeOK /\ OnceInv => SilentArmed
  BY DEF TypeOK, OnceInv, Dormant, SilentRuns, SilentArmed, Quiet
<1> QED
  BY Typing, OnceInvariant, <1>1, PTL

=============================================================================
