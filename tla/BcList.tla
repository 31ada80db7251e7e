------------------------------- MODULE BcList -------------------------------
(***************************************************************************)
(* The 1553 bus controller of the sample: the list of major frames the     *)
(* GR1553B core executes (init_bc_list of 1553/bc_list.c), the task that   *)
(* edits that list while it runs (bc_list_process, called by the loop of   *)
(* rtems-gr1553bcbm.c), and the start-up of the remote terminals on the    *)
(* bus (rt_init_state of rtems-gr1553rtbm.c).                              *)
(*                                                                         *)
(* The core and the task share nothing but descriptors and the trigger     *)
(* memory, and no handshake: what makes them fit is time.  Time passes in  *)
(* units of 12.5 ms, the shortest minor frame that matters: an initial     *)
(* frame of 150 ms is 12 of them, a communication frame of 125 ms is 10,   *)
(* and the task calls bc_list_process each 100 ms, 8 of them.  A call      *)
(* comes before what the core does in the same unit.                       *)
(*                                                                         *)
(*   frame 0     start-up and status requests, repeated until jump0        *)
(*   frame 1     waits for the trigger, then tells the time, once          *)
(*   frame 2-9   communication; 2 waits for the trigger and synchronises,  *)
(*               9 may jump to the shutdown frame, then tells the time     *)
(*   frame 10    shutdown, repeated                                        *)
(***************************************************************************)
EXTENDS Integers, FiniteSets

CONSTANTS
  RT,           \* the remote terminals, those of address 1..9 that exist
  NumberOfRts,  \* NUMBER_OF_RTS, how many it takes to start the bus
  SoftTriggers, \* the values of SOFT_EXTTRIG_ENABLE looked at
  Late,         \* bound: units by which a call of bc_list_process may slip
  MaxLost,      \* bound: transfers lost on the bus
  Misreads,     \* bound: the RTs of which a status that no answer left may count as one
  TimeMod       \* values of bc_timesync_nexttime (2^16)

ASSUME NumberOfRtsAssumption == IsFiniteSet(RT) /\ NumberOfRts \in 1 .. Cardinality(RT)
ASSUME SoftTriggersAssumption == SoftTriggers \subseteq BOOLEAN
ASSUME BoundsAssumption ==
  Late \in Nat /\ MaxLost \in Nat /\ Misreads \subseteq RT /\ TimeMod \in Nat \ {0}

Period == 8     \* units between two calls of bc_list_process
NoTime == -1    \* no time message has been sent

VARIABLES
  soft,         \* SOFT_EXTTRIG_ENABLE, fixed: the task gives the trigger
  frame, off,   \* core: the major frame it executes, and the unit in it
  trig,         \* core: the external trigger memory
  jump0, jump9, \* slots (0,0,30) and (9,0,3) jump, to frames 1 and 10
  startMsg,     \* what slots (0,0,10) and (0,0,20) send: 1 start up, 2 run
  statA, statB, \* the status of the requests to each RT on the two buses
  pnp,          \* the plug-and-play request to each RT
  info,         \* the RTs whose plug-and-play information has been read
  unset,        \* the rows whose statuses a variable never set was written over
  misread,      \* history: what such a write left was counted as an answer
  bc_state, rtup, state_tick_cnt, bc_shutdown,
  nexttime,     \* bc_timesync_nexttime
  told,         \* the time in the time message sent last
  syncs, lag,   \* time syncs up to 2, and nexttime less told at the last one
  sw,           \* units until bc_list_process is called
  rt,           \* start-up state of each RT
  bus_status,   \* what each RT was told on its subaddress 1
  lost          \* transfers lost so far

list == <<jump0, jump9, startMsg>>
answers == <<statA, statB, pnp, info, unset, misread>>
task == <<bc_state, rtup, state_tick_cnt, nexttime>>
clock == <<told, syncs, lag>>
rts == <<rt, bus_status, lost>>
vars == <<soft, frame, off, trig, list, answers, task, bc_shutdown, clock, sw, rts>>

(* Status of a descriptor: "fresh" while its bit 31 is set, which the core *)
(* clears when it executes the descriptor.                                 *)
Status == {"fresh", "ok", "bad"}

TypeOK ==
  /\ frame \in 0 .. 10 /\ off \in 0 .. 11 /\ sw \in 0 .. Period + Late
  /\ {trig, jump0, jump9, bc_shutdown, misread} \subseteq BOOLEAN /\ soft \in SoftTriggers
  /\ startMsg \in 1 .. 2
  /\ statA \in [RT -> Status] /\ statB \in [RT -> Status]
  /\ pnp \in [RT -> [dummy : BOOLEAN, stat : Status]]
  /\ info \subseteq RT /\ rtup \subseteq RT /\ unset \subseteq {"A", "B", "pnp"}
  /\ bc_state \in 0 .. 4 /\ state_tick_cnt \in 0 .. 9
  /\ nexttime \in 0 .. TimeMod - 1 /\ told \in {NoTime} \cup 0 .. TimeMod - 1
  /\ syncs \in 0 .. 2 /\ lag \in 0 .. TimeMod - 1
  /\ rt \in [RT -> {"off", "wait", "started", "run"}]
  /\ bus_status \in [RT -> 0 .. 2] /\ lost \in 0 .. MaxLost

(* The task starts the core and at once enters its loop.  The trigger      *)
(* memory may hold a trigger from before.                                  *)
Init ==
  /\ soft \in SoftTriggers
  /\ frame = 0 /\ off = 0 /\ sw = 0 /\ trig \in BOOLEAN
  /\ jump0 = FALSE /\ jump9 = FALSE /\ startMsg = 1
  /\ statA = [r \in RT |-> "fresh"] /\ statB = [r \in RT |-> "fresh"]
  /\ pnp = [r \in RT |-> [dummy |-> TRUE, stat |-> "fresh"]]
  /\ info = {} /\ rtup = {} /\ unset = {} /\ misread = FALSE
  /\ bc_state = 0 /\ state_tick_cnt = 0 /\ bc_shutdown = FALSE
  /\ nexttime = 0 /\ told = NoTime /\ syncs = 0 /\ lag = 0
  /\ rt = [r \in RT |-> "off"] /\ bus_status = [r \in RT |-> 0] /\ lost = 0

-----------------------------------------------------------------------------
(* A unit of time: the core executes its list, each RT polls bus_status.   *)

Length(f) == CASE f = 0 -> 12 [] f = 1 -> 5 [] f = 10 -> 4 [] OTHER -> 10

FollowingFrameOne(f) ==                       \* mutant: [9] linked to [1]
  CASE f \in {0, 10} -> f [] f = 9 -> 1 [] OTHER -> f + 1

Following(f) == CASE f \in {0, 10} -> f [] f = 9 -> 2 [] OTHER -> f + 1

GoTo(f) == frame' = f /\ off' = 0

NextUnit ==
  IF off + 1 < Length(frame) THEN frame' = frame /\ off' = off + 1
                             ELSE GoTo(Following(frame))

(* rt_init_state; a message of this unit is seen in the next.              *)
Polled(r) ==
  CASE rt[r] = "wait" /\ bus_status[r] > 0    -> "started"
    [] rt[r] = "started" /\ bus_status[r] > 1 -> "run"
    [] OTHER                                  -> rt[r]

Elapse ==
  /\ sw > 0 /\ sw' = sw - 1
  /\ rt' = [r \in RT |-> Polled(r)]
  /\ UNCHANGED soft

(* The RTs that take part in the transfers of this unit.                   *)
Reached(deaf) == {r \in RT \ deaf : rt[r] # "off"}

Broadcast(msg, on) ==
  bus_status' = [r \in RT |-> IF r \in on THEN msg ELSE bus_status[r]]

Answered(on) == [r \in RT |-> IF r \in on THEN "ok" ELSE "bad"]

(* A dummy request goes through without a transfer.                        *)
PnpAnswered(on) ==
  /\ pnp' = [r \in RT |-> [pnp[r] EXCEPT !.stat =
                             IF pnp[r].dummy \/ r \in on THEN "ok" ELSE "bad"]]
  /\ info' = info \cup {r \in on : ~pnp[r].dummy}

InitFrame ==
  /\ frame = 0 /\ Elapse
  /\ \E deaf \in SUBSET RT :
       /\ lost' = lost + Cardinality(deaf) /\ lost' <= MaxLost
       /\ deaf # {} => off \in {0, 1, 4, 5, 8}
       /\ LET on == Reached(deaf) IN
            /\ IF off \in {0, 1} THEN Broadcast(startMsg, on) ELSE UNCHANGED bus_status
            /\ statA' = IF off = 4 THEN Answered(on) ELSE statA
            /\ statB' = IF off = 5 THEN Answered(on) ELSE statB
            /\ IF off = 8 THEN PnpAnswered(on) ELSE UNCHANGED <<pnp, info>>
  /\ unset' = unset \ {CASE off = 4 -> "A" [] off = 5 -> "B" [] off = 8 -> "pnp"
                          [] OTHER -> "none"}
  /\ IF off = 3 /\ jump0 THEN GoTo(1) ELSE NextUnit
  /\ UNCHANGED <<trig, list, task, bc_shutdown, clock, misread>>

Waiting == frame \in {1, 2} /\ off = 0 /\ ~trig

WaitTrigger ==
  /\ Waiting /\ Elapse
  /\ UNCHANGED <<frame, off, trig, list, answers, task, bc_shutdown, clock,
                 bus_status, lost>>

TimeSyncFrame ==
  /\ frame = 1 /\ ~Waiting /\ Elapse /\ NextUnit
  /\ IF off = 0 THEN trig' = FALSE /\ told' = nexttime ELSE UNCHANGED <<trig, told>>
  /\ UNCHANGED <<list, answers, task, bc_shutdown, syncs, lag, bus_status, lost>>

(* The sync of frame 2 tells the RTs to take over the time told last.      *)
ComFrame ==
  /\ frame \in 2 .. 9 /\ ~Waiting /\ Elapse
  /\ IF frame = 2 /\ off = 0
       THEN /\ trig' = FALSE
            /\ syncs' = (IF syncs = 2 THEN 2 ELSE syncs + 1)
            /\ lag' = (nexttime - told) % TimeMod
       ELSE UNCHANGED <<trig, syncs, lag>>
  /\ told' = IF frame = 9 /\ off = 3 THEN nexttime ELSE told
  /\ IF frame = 9 /\ off = 0 /\ jump9 THEN GoTo(10) ELSE NextUnit
  /\ UNCHANGED <<list, answers, task, bc_shutdown, bus_status, lost>>

FinalFrame ==
  /\ frame = 10 /\ Elapse /\ NextUnit
  /\ IF off = 0 THEN Broadcast(1, Reached({})) ELSE UNCHANGED bus_status
  /\ UNCHANGED <<trig, list, answers, task, bc_shutdown, clock, lost>>

Unit == InitFrame \/ WaitTrigger \/ TimeSyncFrame \/ ComFrame \/ FinalFrame

-----------------------------------------------------------------------------
(* A call of bc_list_process, one action per bc_state.                     *)

Call(state) ==
  /\ sw = 0 /\ bc_state = state
  /\ sw' \in Period .. Period + Late
  /\ UNCHANGED <<soft, frame, off, bc_shutdown, clock, rts>>

(* gr1553bc_slot_update returns the status it finds and writes, where one  *)
(* is given, the status it is given.  Here stat was never set: until the   *)
(* core executes the row again its statuses may read as answers or not.    *)
Seen(row, ok) == {seen \in SUBSET RT : row \notin unset => seen = ok}

Ok(stats) == {r \in RT : stats[r] = "ok"}

EnoughMore(avail) == Cardinality(avail) > NumberOfRts  \* mutant: one too many
Enough(avail) == Cardinality(avail) >= NumberOfRts

FindRtsKeepsStatus ==                         \* mutant: bit 31 of the dummy not written
  /\ Call(0)
  /\ LET avail == Ok(statA) \cap Ok(statB) IN
       /\ pnp' = [r \in RT |-> [pnp[r] EXCEPT !.dummy = r \notin avail]]
       /\ IF Enough(avail)
            THEN bc_state' = 1 /\ rtup' = avail
            ELSE UNCHANGED <<bc_state, rtup>>
  /\ UNCHANGED <<trig, list, statA, statB, info, unset, misread, state_tick_cnt, nexttime>>

FindRts ==
  /\ Call(0)
  /\ unset' = unset \cup {"A", "B"}
  /\ \E availA \in Seen("A", Ok(statA)), availB \in Seen("B", Ok(statB)) :
       LET avail == availA \cap availB IN
         /\ pnp' = [r \in RT |-> IF r \in avail THEN [dummy |-> FALSE, stat |-> "fresh"]
                                                ELSE [pnp[r] EXCEPT !.dummy = TRUE]]
         /\ IF Enough(avail)
              THEN /\ bc_state' = 1 /\ rtup' = avail
                   /\ misread' = ~(avail \subseteq Ok(statA) \cap Ok(statB))
                   /\ avail \ (Ok(statA) \cap Ok(statB)) \subseteq Misreads
              ELSE UNCHANGED <<bc_state, rtup, misread>>
  /\ UNCHANGED <<trig, list, statA, statB, info, state_tick_cnt, nexttime>>

PnpOk == {r \in RT : pnp[r].stat = "ok"}

WaitPnpJumps ==                               \* mutant: leaves the initial frame at once
  /\ Call(1)
  /\ IF rtup \cap PnpOk = rtup
       THEN startMsg' = 2 /\ state_tick_cnt' = 0 /\ bc_state' = 2 /\ jump0' = TRUE
       ELSE UNCHANGED <<startMsg, state_tick_cnt, bc_state, jump0>>
  /\ UNCHANGED <<trig, jump9, answers, rtup, nexttime>>

WaitPnp ==
  /\ Call(1)
  /\ unset' = unset \cup {"pnp"}
  /\ \E seen \in Seen("pnp", PnpOk) :
       LET rtpnp == rtup \cap seen IN
         IF rtpnp = rtup
           THEN /\ startMsg' = 2 /\ state_tick_cnt' = 0 /\ bc_state' = 2
                /\ misread' = (misread \/ ~(rtup \subseteq PnpOk))
                /\ rtup \ PnpOk \subseteq Misreads
           ELSE UNCHANGED <<startMsg, state_tick_cnt, bc_state, misread>>
  /\ UNCHANGED <<trig, jump0, jump9, statA, statB, pnp, info, rtup, nexttime>>

WaitRunKeepsTrigger ==                        \* mutant: the trigger is not cleared
  /\ Call(2)
  /\ IF state_tick_cnt + 1 >= 10
       THEN jump0' = TRUE /\ bc_state' = 3 /\ state_tick_cnt' = 0
       ELSE state_tick_cnt' = state_tick_cnt + 1 /\ UNCHANGED <<jump0, bc_state>>
  /\ UNCHANGED <<trig, jump9, startMsg, answers, rtup, nexttime>>

WaitRun ==
  /\ Call(2)
  /\ IF state_tick_cnt + 1 >= 10
       THEN /\ trig' = (trig /\ ~soft)
            /\ jump0' = TRUE /\ bc_state' = 3 /\ state_tick_cnt' = 0
       ELSE /\ state_tick_cnt' = state_tick_cnt + 1
            /\ UNCHANGED <<trig, jump0, bc_state>>
  /\ UNCHANGED <<jump9, startMsg, answers, rtup, nexttime>>

CommunicateEarly ==                           \* mutant: a trigger each 9 calls
  /\ Call(3)
  /\ LET tick == state_tick_cnt + 1 IN
       /\ nexttime' = IF tick = 8 THEN (nexttime + 1) % TimeMod ELSE nexttime
       /\ trig' = (trig \/ (tick >= 9 /\ soft))
       /\ state_tick_cnt' = IF tick >= 9 THEN 0 ELSE tick
  /\ jump9' = (jump9 \/ bc_shutdown)
  /\ bc_state' = IF bc_shutdown THEN 4 ELSE 3
  /\ UNCHANGED <<jump0, startMsg, answers, rtup>>

CommunicateKeepsCount ==                      \* mutant: the count is not reset
  /\ Call(3)
  /\ LET tick == state_tick_cnt + 1 IN
       /\ nexttime' = IF tick = 9 THEN (nexttime + 1) % TimeMod ELSE nexttime
       /\ trig' = (trig \/ (tick >= 10 /\ soft))
       /\ state_tick_cnt' = tick
  /\ jump9' = (jump9 \/ bc_shutdown)
  /\ bc_state' = IF bc_shutdown THEN 4 ELSE 3
  /\ UNCHANGED <<jump0, startMsg, answers, rtup>>

CommunicateNoJump ==                          \* mutant: state 4 without the jump
  /\ Call(3)
  /\ state_tick_cnt' = (state_tick_cnt + 1) % 10
  /\ nexttime' = IF state_tick_cnt = 8 THEN (nexttime + 1) % TimeMod ELSE nexttime
  /\ trig' = (trig \/ (state_tick_cnt = 9 /\ soft))
  /\ bc_state' = IF bc_shutdown THEN 4 ELSE 3
  /\ UNCHANGED <<jump0, jump9, startMsg, answers, rtup>>

Communicate ==
  /\ Call(3)
  /\ LET tick == state_tick_cnt + 1 IN
       /\ nexttime' = IF tick = 9 THEN (nexttime + 1) % TimeMod ELSE nexttime
       /\ trig' = (trig \/ (tick >= 10 /\ soft))
       /\ state_tick_cnt' = IF tick >= 10 THEN 0 ELSE tick
  /\ jump9' = (jump9 \/ bc_shutdown)
  /\ bc_state' = IF bc_shutdown THEN 4 ELSE 3
  /\ UNCHANGED <<jump0, startMsg, answers, rtup>>

ShutDown == Call(4) /\ UNCHANGED <<trig, list, answers, task>>

Process == FindRts \/ WaitPnp \/ WaitRun \/ Communicate \/ ShutDown

-----------------------------------------------------------------------------
(* The rest of the world.                                                  *)

RtOn(r) ==
  /\ rt[r] = "off" /\ rt' = [rt EXCEPT ![r] = "wait"]
  /\ UNCHANGED <<soft, frame, off, trig, list, answers, task, bc_shutdown, clock, sw,
                 bus_status, lost>>

RequestShutdown ==
  /\ ~bc_shutdown /\ bc_shutdown' = TRUE
  /\ UNCHANGED <<soft, frame, off, trig, list, answers, task, clock, sw, rts>>

(* The pulse of a time master, where the board has one.                    *)
HwTrigger ==
  /\ ~soft /\ ~trig /\ trig' = TRUE
  /\ UNCHANGED <<soft, frame, off, list, answers, task, bc_shutdown, clock, sw, rts>>

Next == Unit \/ Process \/ (\E r \in RT : RtOn(r)) \/ RequestShutdown \/ HwTrigger

(* Time passes, the task is called, and a time master keeps pulsing.       *)
Spec == Init /\ [][Next]_vars /\ WF_vars(Unit \/ Process) /\ WF_vars(HwTrigger)

-----------------------------------------------------------------------------
(* Properties.                                                             *)

(* The bus goes on to its run mode only with the plug-and-play information *)
(* of every RT it found (bc_list.c:888, "Check that All PnP info is        *)
(* available before taking the next step").  The program does not keep     *)
(* this: see the next property.                                            *)
PnpAvailable == bc_state >= 2 => rtup \subseteq info

(* As long as no status that an uninitialised variable has left is counted *)
(* as an answer, it does: neither the dummy request that stood in that     *)
(* slot before nor a request that was lost counts as one.                  *)
PnpRead == ~misread => PnpAvailable

(* On the same condition, communication starts only when every RT the      *)
(* controller found has heard the run message and acted on it.  Nothing    *)
(* tells the controller so; the 10 calls it waits, while the initial frame *)
(* repeats, must be enough.                                                *)
RunBeforeData == ~misread /\ frame \in 2 .. 9 => \A r \in rtup : rt[r] = "run"

(* From the second time sync on, the time the RTs take over is the one the *)
(* controller has for this second: the call that sets the next time comes  *)
(* before the time message of frame 9, the trigger after it.               *)
NextTimeKnown == soft /\ syncs = 2 => lag = 0

(* A trigger never finds the one before it still waiting: the list is back *)
(* in time from the 8 communication frames, and no second is skipped.      *)
NoTriggerLost ==
  [][ soft /\ bc_state = 3 /\ state_tick_cnt # 0 /\ state_tick_cnt' = 0 => ~trig ]_vars

(* A trigger left over from before the start does not start the bus: the   *)
(* first time message is sent at a trigger of this task, and so after it   *)
(* has set the next time.                                                  *)
TimeStarted == [][ told = NoTime /\ told' # NoTime => nexttime # 0 ]_vars

(* Once enough RTs are on, the bus gets to communicate, unless it is told  *)
(* to shut down or takes what an uninitialised variable has left for an    *)
(* answer: no lost message, late call or order of events leaves the        *)
(* controller, the list or the trigger waiting for each other.             *)
StartsUp ==
  (\E on \in SUBSET RT : /\ Cardinality(on) >= NumberOfRts
                         /\ \A r \in on : rt[r] # "off")
    ~> (frame \in 2 .. 9 \/ bc_shutdown \/ misread)

(* Told to shut down (bc_list.c:132, "Write to non-zero to shut down"), a  *)
(* communicating bus gets to the shutdown frame: whenever the request      *)
(* comes, if a time master goes on giving the trigger ...                  *)
ShutsDown == (~soft /\ bc_state = 3 /\ bc_shutdown) ~> frame = 10

(* ... and if the task gives it.                                           *)
SoftShutsDown == (soft /\ bc_state = 3 /\ bc_shutdown) ~> frame = 10

=============================================================================
