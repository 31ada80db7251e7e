---------------------------- MODULE BcList_proofs ----------------------------
(***************************************************************************)
(* The bus controller, for any set of terminals: who has answered by when, *)
(* and that task and core, which share nothing but time, stay in step.     *)
(***************************************************************************)
EXTENDS BcList, FiniteSetTheorems, TLAPS

USE NumberOfRtsAssumption, SoftTriggersAssumption, BoundsAssumption

-----------------------------------------------------------------------------
(* The invariants.                                                         *)

(* What the frame, the jumps and the message tell of bc_state.             *)
Shape ==
  /\ off < Length(frame)
  /\ jump0 <=> bc_state >= 3
  /\ jump9 <=> bc_state = 4
  /\ startMsg = (IF bc_state >= 2 THEN 2 ELSE 1)
  /\ ~jump0 => frame = 0
  /\ frame = 10 => jump9

(* A status says what happened to the last request, and to that only; the  *)
(* terminals found are there as long as nothing else was taken for one.    *)
Known ==
  /\ \A r \in RT : statA[r] = "ok" => rt[r] # "off"
  /\ \A r \in RT : pnp[r].stat = "ok" /\ ~pnp[r].dummy => r \in info
  /\ bc_state >= 1 => \A r \in rtup : ~pnp[r].dummy
  /\ bc_state >= 1 /\ ~misread => \A r \in rtup : rt[r] # "off"
  /\ bc_state = 0 => ~misread
  /\ PnpRead

ListInv == TypeOK /\ Shape /\ Known

-----------------------------------------------------------------------------
(* The type invariant, taken apart and put together.                       *)

LEMMA Types ==
  ASSUME TypeOK
  PROVE  /\ frame \in 0 .. 10 /\ off \in 0 .. 11 /\ sw \in 0 .. Period + Late
         /\ trig \in BOOLEAN /\ jump0 \in BOOLEAN /\ jump9 \in BOOLEAN
         /\ bc_shutdown \in BOOLEAN /\ soft \in SoftTriggers
         /\ startMsg \in 1 .. 2
         /\ statA \in [RT -> Status] /\ statB \in [RT -> Status]
         /\ pnp \in [RT -> [dummy : BOOLEAN, stat : Status]]
         /\ info \subseteq RT /\ rtup \subseteq RT
         /\ unset \subseteq {"A", "B", "pnp"} /\ misread \in BOOLEAN
         /\ bc_state \in 0 .. 4 /\ state_tick_cnt \in 0 .. 9
         /\ nexttime \in 0 .. TimeMod - 1 /\ told \in {NoTime} \cup 0 .. TimeMod - 1
         /\ syncs \in 0 .. 2 /\ lag \in 0 .. TimeMod - 1
         /\ rt \in [RT -> {"off", "wait", "started", "run"}]
         /\ bus_status \in [RT -> 0 .. 2] /\ lost \in 0 .. MaxLost
  BY Zenon DEF TypeOK

LEMMA NextTypes ==
  ASSUME /\ frame' \in 0 .. 10 /\ off' \in 0 .. 11 /\ sw' \in 0 .. Period + Late
         /\ trig' \in BOOLEAN /\ jump0' \in BOOLEAN /\ jump9' \in BOOLEAN
         /\ bc_shutdown' \in BOOLEAN /\ soft' \in SoftTriggers
         /\ startMsg' \in 1 .. 2
         /\ statA' \in [RT -> Status] /\ statB' \in [RT -> Status]
         /\ pnp' \in [RT -> [dummy : BOOLEAN, stat : Status]]
         /\ info' \subseteq RT /\ rtup' \subseteq RT
         /\ unset' \subseteq {"A", "B", "pnp"} /\ misread' \in BOOLEAN
         /\ bc_state' \in 0 .. 4 /\ state_tick_cnt' \in 0 .. 9
         /\ nexttime' \in 0 .. TimeMod - 1 /\ told' \in {NoTime} \cup 0 .. TimeMod - 1
         /\ syncs' \in 0 .. 2 /\ lag' \in 0 .. TimeMod - 1
         /\ rt' \in [RT -> {"off", "wait", "started", "run"}]
         /\ bus_status' \in [RT -> 0 .. 2] /\ lost' \in 0 .. MaxLost
  PROVE  TypeOK'
<1>1. {trig', jump0', jump9', bc_shutdown', misread'} \subseteq BOOLEAN
  BY Zenon
<1> QED
  BY <1>1, Zenon DEF TypeOK

(* Where the core is after a unit.                                         *)
LEMMA Advance ==
  ASSUME TypeOK, off < Length(frame), NextUnit
  PROVE  /\ frame' \in 0 .. 10 /\ off' \in 0 .. 11 /\ off' < Length(frame')
         /\ \/ frame' = frame /\ off' = off + 1
            \/ frame' = Following(frame) /\ off' = 0 /\ off + 1 = Length(frame)
         /\ frame' = 10 => frame = 10
         /\ frame = 0 => frame' = 0
<1>1. frame \in 0 .. 10 /\ off \in 0 .. 11
  BY Types
<1>2. Length(frame) = IF frame = 0 THEN 12 ELSE IF frame = 1 THEN 5 ELSE IF frame = 10 THEN 4 ELSE 10
  BY DEF Length
<1>3. Following(frame) = IF frame \in {0, 10} THEN frame ELSE IF frame = 9 THEN 2 ELSE frame + 1
  BY DEF Following
<1>4. CASE off + 1 < Length(frame)
  BY <1>1, <1>2, <1>4 DEF NextUnit
<1>5. CASE ~(off + 1 < Length(frame))
  <2>1. frame' = Following(frame) /\ off' = 0
    BY <1>5 DEF NextUnit, GoTo
  <2>2. Following(frame) \in 0 .. 10 /\ (Following(frame) = 10 => frame = 10) /\ (frame = 0 => Following(frame) = 0)
    BY <1>1, <1>3
  <2>3. off + 1 = Length(frame)
    BY <1>1, <1>2, <1>5
  <2>4. 0 < Length(frame')
    BY <2>1, <2>2 DEF Length
  <2> QED
    BY <2>1, <2>2, <2>3, <2>4
<1> QED
  BY <1>4, <1>5

(* What a unit does to the terminals.                                      *)
LEMMA Passed ==
  ASSUME TypeOK, Elapse
  PROVE  /\ sw > 0 /\ sw' = sw - 1 /\ sw' \in 0 .. Period + Late /\ soft' = soft
         /\ rt' \in [RT -> {"off", "wait", "started", "run"}]
         /\ \A r \in RT : rt'[r] = Polled(r)
         /\ \A r \in RT : rt[r] # "off" => rt'[r] # "off"
<1>1. rt' = [r \in RT |-> Polled(r)] /\ sw > 0 /\ sw' = sw - 1 /\ soft' = soft
  BY DEF Elapse
<1>2. rt \in [RT -> {"off", "wait", "started", "run"}] /\ sw \in 0 .. Period + Late
  BY Types
<1>3. sw' \in 0 .. Period + Late
  BY <1>1, <1>2 DEF Period
<1>4. \A r \in RT : rt[r] \in {"off", "wait", "started", "run"}
  BY <1>2
<1>5. \A r \in RT : Polled(r) \in {"started", "run", rt[r]}
  BY DEF Polled
<1>6. \A r \in RT : rt'[r] = Polled(r)
  BY <1>1
<1> QED
  BY <1>1, <1>3, <1>4, <1>5, <1>6

LEMMA Lost ==
  ASSUME NEW deaf \in SUBSET RT
  PROVE  Cardinality(deaf) \in Nat /\ (deaf # {} => Cardinality(deaf) > 0)
<1>1. IsFiniteSet(deaf)
  BY FS_Subset
<1>2. Cardinality(deaf) \in Nat /\ (Cardinality(deaf) = 0 <=> deaf = {})
  BY <1>1, FS_CardinalityType, FS_EmptySet
<1> QED
  BY <1>2

-----------------------------------------------------------------------------
(* Types, shape and answers, action by action.                             *)

LEMMA InitList == Init => ListInv
<1> SUFFICES ASSUME Init
             PROVE  ListInv
  OBVIOUS
<1>1. /\ soft \in SoftTriggers /\ frame = 0 /\ off = 0 /\ sw = 0 /\ trig \in BOOLEAN
      /\ jump0 = FALSE /\ jump9 = FALSE /\ startMsg = 1
      /\ statA = [r \in RT |-> "fresh"] /\ statB = [r \in RT |-> "fresh"]
      /\ pnp = [r \in RT |-> [dummy |-> TRUE, stat |-> "fresh"]]
      /\ info = {} /\ rtup = {} /\ unset = {} /\ misread = FALSE
      /\ bc_state = 0 /\ state_tick_cnt = 0 /\ bc_shutdown = FALSE
      /\ nexttime = 0 /\ told = NoTime /\ syncs = 0 /\ lag = 0
      /\ rt = [r \in RT |-> "off"] /\ bus_status = [r \in RT |-> 0] /\ lost = 0
  BY DEF Init
<1>2. TypeOK
  <2>1. {trig, jump0, jump9, bc_shutdown, misread} \subseteq BOOLEAN
    BY <1>1, Zenon
  <2>2. 0 \in 0 .. MaxLost /\ 0 \in 0 .. TimeMod - 1 /\ 0 \in 0 .. Period + Late
    BY DEF Period
  <2>3. /\ [r \in RT |-> "fresh"] \in [RT -> Status] /\ [r \in RT |-> 0] \in [RT -> 0 .. 2]
        /\ [r \in RT |-> "off"] \in [RT -> {"off", "wait", "started", "run"}]
        /\ [r \in RT |-> [dummy |-> TRUE, stat |-> "fresh"]] \in [RT -> [dummy : BOOLEAN, stat : Status]]
    BY DEF Status
  <2>4. 0 \in 0 .. 10 /\ 0 \in 0 .. 11 /\ 0 \in 0 .. 4 /\ 0 \in 0 .. 9 /\ 0 \in 0 .. 2 /\ 1 \in 1 .. 2
    OBVIOUS
  <2> QED
    BY <1>1, <2>1, <2>2, <2>3, <2>4, Zenon DEF TypeOK
<1>3. Shape
  BY <1>1 DEF Shape, Length
<1>4. Known
  BY <1>1 DEF Known, PnpRead, PnpAvailable
<1> QED
  BY <1>2, <1>3, <1>4 DEF ListInv

LEMMA InitFrameList == ListInv /\ InitFrame => ListInv'
<1> SUFFICES ASSUME ListInv, InitFrame
             PROVE  ListInv'
  OBVIOUS
<1>0. TypeOK /\ Shape /\ Known
  BY DEF ListInv
<1>1. /\ frame = 0 /\ Elapse
      /\ IF off = 3 /\ jump0 THEN GoTo(1) ELSE NextUnit
      /\ UNCHANGED <<trig, jump0, jump9, startMsg, bc_state, rtup, state_tick_cnt, nexttime,
                     bc_shutdown, told, syncs, lag, misread>>
      /\ unset' \subseteq unset
  BY DEF InitFrame, list, task, clock
<1>2. PICK deaf \in SUBSET RT :
        /\ lost' = lost + Cardinality(deaf) /\ lost' <= MaxLost
        /\ IF off \in {0, 1} THEN Broadcast(startMsg, Reached(deaf)) ELSE UNCHANGED bus_status
        /\ statA' = IF off = 4 THEN Answered(Reached(deaf)) ELSE statA
        /\ statB' = IF off = 5 THEN Answered(Reached(deaf)) ELSE statB
        /\ IF off = 8 THEN PnpAnswered(Reached(deaf)) ELSE UNCHANGED <<pnp, info>>
  BY DEF InitFrame
<1>3. /\ sw' \in 0 .. Period + Late /\ soft' = soft
      /\ rt' \in [RT -> {"off", "wait", "started", "run"}]
      /\ \A r \in RT : rt[r] # "off" => rt'[r] # "off"
  BY <1>0, <1>1, Passed
<1>4. /\ frame' \in 0 .. 10 /\ off' \in 0 .. 11 /\ off' < Length(frame')
      /\ frame' \in {0, 1} /\ (~jump0 => frame' = 0)
  <2>1. CASE off = 3 /\ jump0
    BY <1>1, <2>1 DEF GoTo, Length
  <2>2. CASE ~(off = 3 /\ jump0)
    BY <1>0, <1>1, <2>2, Advance DEF Shape
  <2> QED
    BY <2>1, <2>2
<1> DEFINE on == Reached(deaf)
<1>5. on \subseteq RT /\ \A r \in on : rt[r] # "off"
  BY DEF Reached
<1> HIDE DEF on
<1>6. bus_status' \in [RT -> 0 .. 2]
  <2>1. startMsg \in 0 .. 2 /\ bus_status \in [RT -> 0 .. 2]
    <3>1. startMsg \in 1 .. 2
      BY <1>0, Types
    <3> QED
      BY <1>0, <3>1, Types
  <2>2. CASE off \in {0, 1}
    BY <1>2, <2>1, <2>2 DEF Broadcast
  <2>3. CASE off \notin {0, 1}
    BY <1>2, <2>1, <2>3
  <2> QED
    BY <2>2, <2>3
<1>7. statA' \in [RT -> Status] /\ statB' \in [RT -> Status]
  <2>1. statA \in [RT -> Status] /\ statB \in [RT -> Status]
    BY <1>0, Types
  <2>2. Answered(on) \in [RT -> Status]
    BY DEF Answered, Status
  <2> QED
    BY <1>2, <2>1, <2>2 DEF on
<1>8. pnp \in [RT -> [dummy : BOOLEAN, stat : Status]] /\ info \subseteq RT
  BY <1>0, Types
<1>9. /\ pnp' \in [RT -> [dummy : BOOLEAN, stat : Status]] /\ info' \subseteq RT /\ info \subseteq info'
      /\ \A r \in RT : /\ pnp'[r].dummy = pnp[r].dummy
                       /\ pnp'[r].stat = "ok" /\ ~pnp[r].dummy => r \in info'
  <2>1. CASE off = 8
    <3>1. /\ pnp' = [r \in RT |-> [pnp[r] EXCEPT !.stat = IF pnp[r].dummy \/ r \in on THEN "ok" ELSE "bad"]]
          /\ info' = info \cup {r \in on : ~pnp[r].dummy}
      BY <1>2, <2>1 DEF PnpAnswered, on
    <3>2. \A r \in RT : pnp[r] \in [dummy : BOOLEAN, stat : Status]
      BY <1>8
    <3>3. \A r \in RT : /\ pnp'[r] \in [dummy : BOOLEAN, stat : Status]
                        /\ pnp'[r].dummy = pnp[r].dummy
                        /\ pnp'[r].stat = IF pnp[r].dummy \/ r \in on THEN "ok" ELSE "bad"
      BY <3>1, <3>2 DEF Status
    <3>4. pnp' \in [RT -> [dummy : BOOLEAN, stat : Status]]
      BY <3>1, <3>3
    <3>5. \A r \in RT : pnp'[r].stat = "ok" /\ ~pnp[r].dummy => r \in on
      BY <3>3
    <3> QED
      BY <1>5, <1>8, <3>1, <3>3, <3>4, <3>5
  <2>2. CASE off # 8
    BY <1>0, <1>2, <1>8, <2>2 DEF Known
  <2> QED
    BY <2>1, <2>2
<1>10. lost' \in 0 .. MaxLost
  <2>1. lost \in 0 .. MaxLost /\ Cardinality(deaf) \in Nat
    BY <1>0, Types, Lost
  <2> QED
    BY <1>2, <2>1
<1>11. TypeOK'
  <2>1. /\ trig' = trig /\ jump0' = jump0 /\ jump9' = jump9 /\ bc_shutdown' = bc_shutdown
        /\ misread' = misread
    BY <1>1
  <2>2. unset' \subseteq {"A", "B", "pnp"}
    <3>1. unset \subseteq {"A", "B", "pnp"}
      BY <1>0, Types
    <3> QED
      BY <1>1, <3>1
  <2> QED
    BY <1>0, <1>1, <1>3, <1>4, <1>6, <1>7, <1>9, <1>10, <2>1, <2>2, Types, NextTypes, Zenon
<1>12. Shape'
  BY <1>0, <1>1, <1>4 DEF Shape
<1>13. Known'
  <2>1. \A r \in RT : statA'[r] = "ok" => rt'[r] # "off"
    <3>1. CASE off = 4
      <4>1. \A r \in RT : statA'[r] = "ok" => r \in on
        BY <1>2, <3>1 DEF Answered, on
      <4> QED
        BY <1>3, <1>5, <4>1
    <3>2. CASE off # 4
      BY <1>0, <1>2, <1>3, <3>2 DEF Known
    <3> QED
      BY <3>1, <3>2
  <2>2. \A r \in RT : pnp'[r].stat = "ok" /\ ~pnp'[r].dummy => r \in info'
    BY <1>9
  <2>3. rtup' = rtup /\ bc_state' = bc_state /\ misread' = misread /\ rtup \subseteq RT
    BY <1>0, <1>1, Types
  <2>4. bc_state >= 1 => \A r \in rtup : ~pnp'[r].dummy
    BY <1>0, <1>9, <2>3 DEF Known
  <2>5. bc_state >= 1 /\ ~misread => \A r \in rtup : rt'[r] # "off"
    BY <1>0, <1>3, <2>3 DEF Known
  <2>6. PnpRead' /\ (bc_state = 0 => ~misread)
    BY <1>0, <1>9, <2>3 DEF Known, PnpRead, PnpAvailable
  <2> QED
    BY <2>1, <2>2, <2>3, <2>4, <2>5, <2>6, Zenon DEF Known
<1> QED
  BY <1>11, <1>12, <1>13 DEF ListInv

(* In the other frames no answer comes in.                                 *)
LEMMA LaterFrameList ==
  ASSUME ListInv, Elapse, frame' \in 0 .. 10, off' \in 0 .. 11, off' < Length(frame'),
         ~jump0 => frame' = 0, frame' = 10 => jump9,
         trig' \in BOOLEAN, bus_status' \in [RT -> 0 .. 2],
         told' \in {NoTime} \cup 0 .. TimeMod - 1, syncs' \in 0 .. 2, lag' \in 0 .. TimeMod - 1,
         UNCHANGED <<list, answers, task, bc_shutdown, lost>>
  PROVE  ListInv'
<1>0. TypeOK /\ Shape /\ Known
  BY DEF ListInv
<1>1. UNCHANGED <<jump0, jump9, startMsg, statA, statB, pnp, info, unset, misread, bc_state,
                  rtup, state_tick_cnt, nexttime, bc_shutdown, lost>>
  BY DEF list, answers, task
<1>2. /\ sw' \in 0 .. Period + Late /\ soft' = soft
      /\ rt' \in [RT -> {"off", "wait", "started", "run"}]
      /\ \A r \in RT : rt[r] # "off" => rt'[r] # "off"
  BY <1>0, Passed
<1>3. TypeOK'
  <2>1. jump0' = jump0 /\ jump9' = jump9 /\ bc_shutdown' = bc_shutdown /\ misread' = misread
    BY <1>1
  <2> QED
    BY <1>0, <1>1, <1>2, <2>1, Types, NextTypes, Zenon
<1>4. Shape'
  BY <1>0, <1>1 DEF Shape
<1>5. Known'
  <2>1. rtup \subseteq RT
    BY <1>0, Types
  <2> QED
    BY <1>0, <1>1, <1>2, <2>1 DEF Known, PnpRead, PnpAvailable
<1> QED
  BY <1>3, <1>4, <1>5 DEF ListInv

LEMMA UnitList == ListInv /\ Unit => ListInv'
<1> SUFFICES ASSUME ListInv, Unit
             PROVE  ListInv'
  OBVIOUS
<1>0. TypeOK /\ Shape /\ Known
  BY DEF ListInv
<1>1. /\ frame \in 0 .. 10 /\ off \in 0 .. 11 /\ off < Length(frame) /\ trig \in BOOLEAN
      /\ bus_status \in [RT -> 0 .. 2]
      /\ nexttime \in 0 .. TimeMod - 1 /\ told \in {NoTime} \cup 0 .. TimeMod - 1
      /\ syncs \in 0 .. 2 /\ lag \in 0 .. TimeMod - 1
      /\ (~jump0 => frame = 0) /\ (frame = 10 => jump9)
  BY <1>0, Types DEF Shape
<1>2. CASE InitFrame
  BY <1>2, InitFrameList
<1>3. CASE WaitTrigger
  <2>1. /\ Elapse /\ UNCHANGED <<list, answers, task, bc_shutdown, lost>>
        /\ UNCHANGED <<frame, off, trig, told, syncs, lag, bus_status>>
    BY <1>3 DEF WaitTrigger, clock
  <2> QED
    BY <1>1, <2>1, LaterFrameList, Zenon
<1>4. CASE TimeSyncFrame
  <2>1. /\ frame = 1 /\ Elapse /\ NextUnit /\ UNCHANGED <<list, answers, task, bc_shutdown, lost>>
        /\ IF off = 0 THEN trig' = FALSE /\ told' = nexttime ELSE UNCHANGED <<trig, told>>
        /\ UNCHANGED <<syncs, lag, bus_status>>
    BY <1>4 DEF TimeSyncFrame
  <2>2. frame' \in 0 .. 10 /\ off' \in 0 .. 11 /\ off' < Length(frame') /\ frame' # 10 /\ jump0
    BY <1>0, <1>1, <2>1, Advance
  <2>3. trig' \in BOOLEAN
    BY <1>1, <2>1, Zenon
  <2>4. told' \in {NoTime} \cup 0 .. TimeMod - 1
    BY <1>1, <2>1
  <2> QED
    BY <1>1, <2>1, <2>2, <2>3, <2>4, LaterFrameList, Zenon
<1>5. CASE ComFrame
  <2>1. /\ frame \in 2 .. 9 /\ Elapse /\ UNCHANGED <<list, answers, task, bc_shutdown, lost>>
        /\ IF frame = 2 /\ off = 0
             THEN /\ trig' = FALSE
                  /\ syncs' = (IF syncs = 2 THEN 2 ELSE syncs + 1)
                  /\ lag' = (nexttime - told) % TimeMod
             ELSE UNCHANGED <<trig, syncs, lag>>
        /\ told' = IF frame = 9 /\ off = 3 THEN nexttime ELSE told
        /\ IF frame = 9 /\ off = 0 /\ jump9 THEN GoTo(10) ELSE NextUnit
        /\ UNCHANGED bus_status
    BY <1>5 DEF ComFrame
  <2>2. frame' \in 0 .. 10 /\ off' \in 0 .. 11 /\ off' < Length(frame') /\ (frame' = 10 => jump9) /\ jump0
    <3>1. jump0
      BY <1>1, <2>1
    <3>2. CASE frame = 9 /\ off = 0 /\ jump9
      BY <2>1, <3>1, <3>2 DEF GoTo, Length
    <3>3. CASE ~(frame = 9 /\ off = 0 /\ jump9)
      BY <1>0, <1>1, <2>1, <3>1, <3>3, Advance
    <3> QED
      BY <3>2, <3>3
  <2>3. trig' \in BOOLEAN
    BY <1>1, <2>1, Zenon
  <2>4. told' \in {NoTime} \cup 0 .. TimeMod - 1 /\ syncs' \in 0 .. 2
    BY <1>1, <2>1
  <2>5. lag' \in 0 .. TimeMod - 1
    <3>1. nexttime - told \in Int /\ TimeMod \in Nat /\ TimeMod > 0
      BY <1>1 DEF NoTime
    <3> DEFINE d == nexttime - told
    <3> HIDE DEF d
    <3>2. d % TimeMod \in 0 .. TimeMod - 1
      BY <3>1 DEF d
    <3> QED
      BY <1>1, <2>1, <3>2 DEF d
  <2> QED
    BY <1>1, <2>1, <2>2, <2>3, <2>4, <2>5, LaterFrameList, Zenon
<1>6. CASE FinalFrame
  <2>1. /\ frame = 10 /\ Elapse /\ NextUnit /\ UNCHANGED <<list, answers, task, bc_shutdown, lost>>
        /\ IF off = 0 THEN Broadcast(1, Reached({})) ELSE UNCHANGED bus_status
        /\ UNCHANGED <<trig, told, syncs, lag>>
    BY <1>6 DEF FinalFrame, clock
  <2>2. frame' \in 0 .. 10 /\ off' \in 0 .. 11 /\ off' < Length(frame') /\ jump9 /\ jump0
    BY <1>0, <1>1, <2>1, Advance
  <2>3. bus_status' \in [RT -> 0 .. 2]
    BY <1>1, <2>1 DEF Broadcast
  <2> QED
    BY <1>1, <2>1, <2>2, <2>3, LaterFrameList, Zenon
<1> QED
  BY <1>2, <1>3, <1>4, <1>5, <1>6 DEF Unit

(* A call: what it leaves alone.                                           *)
LEMMA Called ==
  ASSUME NEW s, Call(s), TypeOK
  PROVE  /\ sw = 0 /\ bc_state = s /\ sw' \in 0 .. Period + Late /\ sw' >= Period
         /\ UNCHANGED <<soft, frame, off, bc_shutdown, told, syncs, lag, rt, bus_status, lost>>
<1>1. /\ sw = 0 /\ bc_state = s /\ sw' \in Period .. Period + Late
      /\ UNCHANGED <<soft, frame, off, bc_shutdown, told, syncs, lag, rt, bus_status, lost>>
  BY DEF Call, clock, rts
<1>2. sw' \in 0 .. Period + Late /\ sw' >= Period
  BY <1>1 DEF Period
<1> QED
  BY <1>1, <1>2

LEMMA FindRtsList == ListInv /\ FindRts => ListInv'
<1> SUFFICES ASSUME ListInv, FindRts
             PROVE  ListInv'
  OBVIOUS
<1>0. TypeOK /\ Shape /\ Known
  BY DEF ListInv
<1>1. PICK availA \in Seen("A", Ok(statA)), availB \in Seen("B", Ok(statB)) :
        LET avail == availA \cap availB IN
          /\ pnp' = [r \in RT |-> IF r \in avail THEN [dummy |-> FALSE, stat |-> "fresh"]
                                                  ELSE [pnp[r] EXCEPT !.dummy = TRUE]]
          /\ IF Enough(avail)
               THEN /\ bc_state' = 1 /\ rtup' = avail
                    /\ misread' = ~(avail \subseteq Ok(statA) \cap Ok(statB))
                    /\ avail \ (Ok(statA) \cap Ok(statB)) \subseteq Misreads
               ELSE UNCHANGED <<bc_state, rtup, misread>>
  BY DEF FindRts
<1>2. /\ UNCHANGED <<trig, jump0, jump9, startMsg, statA, statB, info, state_tick_cnt, nexttime>>
      /\ unset' = unset \cup {"A", "B"}
  BY DEF FindRts, list
<1>3. /\ bc_state = 0 /\ sw' \in 0 .. Period + Late
      /\ UNCHANGED <<soft, frame, off, bc_shutdown, told, syncs, lag, rt, bus_status, lost>>
  BY <1>0, Called DEF FindRts
<1> DEFINE avail == availA \cap availB
<1>4. avail \subseteq RT
  BY DEF Seen
<1>5. /\ pnp' = [r \in RT |-> IF r \in avail THEN [dummy |-> FALSE, stat |-> "fresh"]
                                              ELSE [pnp[r] EXCEPT !.dummy = TRUE]]
      /\ \/ bc_state' = 1 /\ rtup' = avail /\ misread' = ~(avail \subseteq Ok(statA) \cap Ok(statB))
         \/ bc_state' = bc_state /\ rtup' = rtup /\ misread' = misread
  BY <1>1
<1> HIDE DEF avail
<1>6. pnp \in [RT -> [dummy : BOOLEAN, stat : Status]] /\ misread \in BOOLEAN
  BY <1>0, Types
<1>7. \A r \in RT : /\ pnp'[r] \in [dummy : BOOLEAN, stat : Status]
                    /\ pnp'[r].dummy = (r \notin avail)
                    /\ r \in avail => pnp'[r].stat = "fresh"
  <2>1. \A r \in RT : pnp[r] \in [dummy : BOOLEAN, stat : Status]
    BY <1>6
  <2>2. ASSUME NEW r \in RT
        PROVE  /\ pnp'[r] \in [dummy : BOOLEAN, stat : Status]
               /\ pnp'[r].dummy = (r \notin avail)
               /\ r \in avail => pnp'[r].stat = "fresh"
    <3>1. CASE r \in avail
      BY <1>5, <3>1 DEF Status
    <3>2. CASE r \notin avail
      BY <1>5, <2>1, <3>2
    <3> QED
      BY <3>1, <3>2
  <2> QED
    BY <2>2
<1>8. pnp' \in [RT -> [dummy : BOOLEAN, stat : Status]]
  BY <1>5, <1>7
<1>9. bc_state' \in 0 .. 1 /\ rtup' \subseteq RT
  <2>1. rtup \subseteq RT
    BY <1>0, Types
  <2> QED
    BY <1>3, <1>4, <1>5, <2>1
<1>10. TypeOK'
  <2>1. bc_state' \in 0 .. 4
    BY <1>9
  <2>2. misread' \in BOOLEAN
    BY <1>5, <1>6, Zenon
  <2>3. unset' \subseteq {"A", "B", "pnp"}
    <3>1. unset \subseteq {"A", "B", "pnp"}
      BY <1>0, Types
    <3> QED
      BY <1>2, <3>1
  <2> QED
    BY <1>0, <1>2, <1>3, <1>8, <1>9, <2>1, <2>2, <2>3, Types, NextTypes, Zenon
<1>11. Shape'
  BY <1>0, <1>2, <1>3, <1>9 DEF Shape
<1>12. Known'
  <2>1. \A r \in RT : statA'[r] = "ok" => rt'[r] # "off"
    BY <1>0, <1>2, <1>3 DEF Known
  <2>2. \A r \in RT : pnp'[r].stat = "ok" /\ ~pnp'[r].dummy => r \in info'
    BY <1>7
  <2>3. bc_state' >= 1 => \A r \in rtup' : ~pnp'[r].dummy
    BY <1>3, <1>4, <1>5, <1>7
  <2>4. bc_state' >= 1 /\ ~misread' => \A r \in rtup' : rt'[r] # "off"
    <3>1. SUFFICES ASSUME bc_state' >= 1, ~misread', NEW r \in rtup'
                   PROVE  rt'[r] # "off"
      OBVIOUS
    <3>2. bc_state' # bc_state
      BY <1>3, <3>1
    <3>4. rtup' = avail /\ misread' = ~(avail \subseteq Ok(statA) \cap Ok(statB))
      BY <1>5, <3>2, Zenon
    <3>5. avail \subseteq Ok(statA) \cap Ok(statB)
      BY <3>1, <3>4, Zenon
    <3>3. r \in RT /\ statA[r] = "ok"
      BY <3>1, <3>4, <3>5 DEF Ok
    <3> QED
      BY <1>0, <1>3, <3>3 DEF Known
  <2>5. PnpRead' /\ (bc_state' = 0 => ~misread')
    BY <1>0, <1>3, <1>5, <1>9 DEF PnpRead, PnpAvailable, Known
  <2> QED
    BY <2>1, <2>2, <2>3, <2>4, <2>5 DEF Known
<1> QED
  BY <1>10, <1>11, <1>12 DEF ListInv

LEMMA WaitPnpList == ListInv /\ WaitPnp => ListInv'
<1> SUFFICES ASSUME ListInv, WaitPnp
             PROVE  ListInv'
  OBVIOUS
<1>0. TypeOK /\ Shape /\ Known
  BY DEF ListInv
<1>1. PICK seen \in Seen("pnp", PnpOk) :
        LET rtpnp == rtup \cap seen IN
          IF rtpnp = rtup
            THEN /\ startMsg' = 2 /\ state_tick_cnt' = 0 /\ bc_state' = 2
                 /\ misread' = (misread \/ ~(rtup \subseteq PnpOk))
                 /\ rtup \ PnpOk \subseteq Misreads
            ELSE UNCHANGED <<startMsg, state_tick_cnt, bc_state, misread>>
  BY DEF WaitPnp
<1>2. /\ \/ /\ startMsg' = 2 /\ state_tick_cnt' = 0 /\ bc_state' = 2
            /\ misread' = (misread \/ ~(rtup \subseteq PnpOk))
         \/ UNCHANGED <<startMsg, state_tick_cnt, bc_state, misread>>
      /\ UNCHANGED <<trig, jump0, jump9, statA, statB, pnp, info, rtup, nexttime>>
      /\ unset' = unset \cup {"pnp"}
  BY <1>1 DEF WaitPnp
<1>3. /\ bc_state = 1 /\ sw' \in 0 .. Period + Late
      /\ UNCHANGED <<soft, frame, off, bc_shutdown, told, syncs, lag, rt, bus_status, lost>>
  BY <1>0, Called DEF WaitPnp
<1>4. /\ rtup \subseteq RT /\ bc_state \in 0 .. 4 /\ state_tick_cnt \in 0 .. 9 /\ startMsg \in 1 .. 2
      /\ misread \in BOOLEAN
  BY <1>0, Types
<1>5. bc_state' \in 0 .. 4 /\ state_tick_cnt' \in 0 .. 9 /\ startMsg' \in 1 .. 2
  BY <1>2, <1>4
<1>6. misread' \in BOOLEAN /\ (~misread' => ~misread)
  BY <1>2, <1>4, Zenon
<1>9. TypeOK'
  <2>1. trig' = trig /\ jump0' = jump0 /\ jump9' = jump9
    BY <1>2
  <2>2. unset' \subseteq {"A", "B", "pnp"}
    <3>1. unset \subseteq {"A", "B", "pnp"}
      BY <1>0, Types
    <3> QED
      BY <1>2, <3>1
  <2> QED
    BY <1>0, <1>2, <1>3, <1>5, <1>6, <2>1, <2>2, Types, NextTypes, Zenon
<1>10. Shape'
  BY <1>0, <1>2, <1>3 DEF Shape
<1>11. Known'
  <2>1. \A r \in RT : statA'[r] = "ok" => rt'[r] # "off"
    BY <1>0, <1>2, <1>3 DEF Known
  <2>2. \A r \in RT : pnp'[r].stat = "ok" /\ ~pnp'[r].dummy => r \in info'
    BY <1>0, <1>2 DEF Known
  <2>3. \A r \in rtup' : ~pnp'[r].dummy
    BY <1>0, <1>2, <1>3 DEF Known
  <2>4. ~misread' => \A r \in rtup' : rt'[r] # "off"
    BY <1>0, <1>2, <1>3, <1>6 DEF Known
  <2>5. PnpRead'
    <3>1. CASE bc_state' = 2 /\ misread' = (misread \/ ~(rtup \subseteq PnpOk))
      <4>1. SUFFICES ASSUME ~misread'
                     PROVE  rtup \subseteq info
        BY <1>2 DEF PnpRead, PnpAvailable
      <4>2. rtup \subseteq PnpOk
        BY <3>1, <4>1
      <4>3. \A r \in rtup : pnp[r].stat = "ok" /\ ~pnp[r].dummy
        BY <1>0, <1>3, <4>2 DEF Known, PnpOk
      <4> QED
        BY <1>0, <1>4, <4>3 DEF Known
    <3>2. CASE bc_state' = bc_state
      BY <1>3, <3>2 DEF PnpRead, PnpAvailable
    <3> QED
      BY <1>2, <3>1, <3>2
  <2>6. bc_state' # 0
    BY <1>2, <1>3
  <2> QED
    BY <2>1, <2>2, <2>3, <2>4, <2>5, <2>6 DEF Known
<1> QED
  BY <1>9, <1>10, <1>11 DEF ListInv

(* The states after that leave the answers alone.                          *)
LEMMA RunningList ==
  ASSUME ListInv, WaitRun \/ Communicate \/ ShutDown
  PROVE  ListInv'
<1>0. TypeOK /\ Shape /\ Known
  BY DEF ListInv
<1>1. /\ sw' \in 0 .. Period + Late /\ bc_state \in 2 .. 4
      /\ UNCHANGED <<soft, frame, off, bc_shutdown, told, syncs, lag, rt, bus_status, lost>>
  <2>1. (Call(2) /\ bc_state = 2) \/ (Call(3) /\ bc_state = 3) \/ (Call(4) /\ bc_state = 4)
    BY DEF WaitRun, Communicate, ShutDown, Call
  <2> QED
    BY <1>0, <2>1, Called
<1>2. UNCHANGED <<startMsg, statA, statB, pnp, info, unset, misread, rtup>>
  BY DEF WaitRun, Communicate, ShutDown, answers, list, task
<1>3. /\ trig \in BOOLEAN /\ jump0 \in BOOLEAN /\ jump9 \in BOOLEAN /\ bc_shutdown \in BOOLEAN
      /\ state_tick_cnt \in 0 .. 9 /\ nexttime \in 0 .. TimeMod - 1 /\ rtup \subseteq RT
  BY <1>0, Types
<1>4. trig' \in BOOLEAN /\ jump0' \in BOOLEAN /\ jump9' \in BOOLEAN
  BY <1>3, Zenon DEF WaitRun, Communicate, ShutDown, list
<1>5. /\ bc_state' \in 2 .. 4 /\ state_tick_cnt' \in 0 .. 9
      /\ (jump0' <=> bc_state' >= 3) /\ (jump9' <=> bc_state' = 4)
      /\ (jump9 => jump9') /\ (jump0 => jump0')
  <2>1. CASE WaitRun
    <3>1. /\ IF state_tick_cnt + 1 >= 10 THEN jump0' = TRUE /\ bc_state' = 3 /\ state_tick_cnt' = 0
                                         ELSE /\ state_tick_cnt' = state_tick_cnt + 1
                                              /\ UNCHANGED <<jump0, bc_state>>
          /\ jump9' = jump9 /\ bc_state = 2
      BY <2>1 DEF WaitRun, Call
    <3>2. CASE state_tick_cnt + 1 >= 10
      BY <1>0, <3>1, <3>2 DEF Shape
    <3>3. CASE ~(state_tick_cnt + 1 >= 10)
      BY <1>0, <1>3, <3>1, <3>3 DEF Shape
    <3> QED
      BY <3>2, <3>3
  <2>2. CASE Communicate
    <3>1. /\ state_tick_cnt' = (IF state_tick_cnt + 1 >= 10 THEN 0 ELSE state_tick_cnt + 1)
          /\ jump9' = (jump9 \/ bc_shutdown) /\ bc_state' = IF bc_shutdown THEN 4 ELSE 3
          /\ jump0' = jump0 /\ bc_state = 3
      BY <2>2 DEF Communicate, Call
    <3>2. ~jump9 /\ jump0
      BY <1>0, <3>1 DEF Shape
    <3>3. state_tick_cnt' \in 0 .. 9
      BY <1>3, <3>1
    <3>4. jump0' /\ (jump9' <=> bc_shutdown) /\ ~jump9
      BY <3>1, <3>2, Zenon
    <3>5. bc_state' = IF bc_shutdown THEN 4 ELSE 3
      BY <3>1
    <3>6. bc_state' \in 2 .. 4 /\ bc_state' >= 3 /\ (bc_state' = 4 <=> bc_shutdown)
      BY <3>5
    <3> QED
      BY <3>3, <3>4, <3>6, Zenon
  <2>3. CASE ShutDown
    BY <1>0, <1>3, <2>3 DEF ShutDown, Call, list, task, Shape
  <2> QED
    BY <2>1, <2>2, <2>3
<1>6. nexttime' \in 0 .. TimeMod - 1
  <2>1. nexttime' \in {nexttime, (nexttime + 1) % TimeMod}
    BY DEF WaitRun, Communicate, ShutDown, task
  <2>2. nexttime + 1 \in Int /\ TimeMod \in Nat /\ TimeMod > 0
    BY <1>3
  <2> DEFINE d == nexttime + 1
  <2> HIDE DEF d
  <2>3. d % TimeMod \in 0 .. TimeMod - 1
    BY <2>2 DEF d
  <2> QED
    BY <1>3, <2>1, <2>3 DEF d
<1>7. TypeOK'
  <2>1. bc_state' \in 0 .. 4 /\ misread' = misread
    BY <1>2, <1>5
  <2> QED
    BY <1>0, <1>1, <1>2, <1>4, <1>5, <1>6, <2>1, Types, NextTypes, Zenon
<1>8. Shape'
  BY <1>0, <1>1, <1>2, <1>5 DEF Shape
<1>9. Known'
  BY <1>0, <1>1, <1>2, <1>3, <1>5 DEF Known, PnpRead, PnpAvailable
<1> QED
  BY <1>7, <1>8, <1>9 DEF ListInv

LEMMA NextList == ListInv /\ [Next]_vars => ListInv'
<1> SUFFICES ASSUME ListInv, [Next]_vars
             PROVE  ListInv'
  OBVIOUS
<1>0. TypeOK /\ Shape /\ Known
  BY DEF ListInv
<1>1. CASE Process
  BY <1>1, FindRtsList, WaitPnpList, RunningList DEF Process
<1>2. ASSUME NEW r \in RT, RtOn(r)
      PROVE  ListInv'
  <2>1. /\ rt' = [rt EXCEPT ![r] = "wait"]
        /\ UNCHANGED <<soft, frame, off, trig, jump0, jump9, startMsg, statA, statB, pnp, info, unset,
                       misread, bc_state, rtup, state_tick_cnt, nexttime, bc_shutdown, told, syncs, lag, sw, bus_status, lost>>
    BY <1>2 DEF RtOn, list, answers, task, clock
  <2>2. /\ rt \in [RT -> {"off", "wait", "started", "run"}] /\ rtup \subseteq RT
    BY <1>0, Types
  <2>3. /\ rt' \in [RT -> {"off", "wait", "started", "run"}]
        /\ \A q \in RT : rt[q] # "off" => rt'[q] # "off"
    BY <2>1, <2>2
  <2>4. TypeOK'
    <3>1. /\ trig' = trig /\ jump0' = jump0 /\ jump9' = jump9 /\ bc_shutdown' = bc_shutdown
          /\ misread' = misread
      BY <2>1
    <3> QED
      BY <1>0, <2>1, <2>3, <3>1, Types, NextTypes, Zenon
  <2>5. Shape' /\ Known'
    BY <1>0, <2>1, <2>2, <2>3 DEF Shape, Known, PnpRead, PnpAvailable
  <2> QED
    BY <2>4, <2>5 DEF ListInv
<1>3. ASSUME trig' \in BOOLEAN, bc_shutdown' \in BOOLEAN,
             UNCHANGED <<soft, frame, off, list, answers, task, clock, sw, rts>>
      PROVE  ListInv'
  <2>1. UNCHANGED <<soft, frame, off, jump0, jump9, startMsg, statA, statB, pnp, info, unset,
                    misread, bc_state, rtup, state_tick_cnt, nexttime, told, syncs, lag, sw, rt, bus_status, lost>>
    BY <1>3 DEF list, answers, task, clock, rts
  <2>2. TypeOK'
    <3>1. jump0' = jump0 /\ jump9' = jump9 /\ misread' = misread
      BY <2>1
    <3> QED
      BY <1>0, <1>3, <2>1, <3>1, Types, NextTypes, Zenon
  <2>3. Shape' /\ Known'
    BY <1>0, <2>1 DEF Shape, Known, PnpRead, PnpAvailable
  <2> QED
    BY <2>2, <2>3 DEF ListInv
<1>4. CASE RequestShutdown \/ HwTrigger \/ UNCHANGED vars
  <2>1. trig \in BOOLEAN /\ bc_shutdown \in BOOLEAN
    BY <1>0, Types
  <2>2. trig' \in BOOLEAN /\ bc_shutdown' \in BOOLEAN
    BY <1>4, <2>1, Zenon DEF RequestShutdown, HwTrigger, vars
  <2>3. UNCHANGED <<soft, frame, off, list, answers, task, clock, sw, rts>>
    BY <1>4 DEF RequestShutdown, HwTrigger, vars
  <2> QED
    BY <1>3, <2>2, <2>3
<1> QED
  BY <1>1, <1>2, <1>4, UnitList DEF Next

LEMMA ListInvariant == Spec => []ListInv
  BY InitList, NextList, PTL DEF Spec

(* Every counter, status and time of the controller keeps its range, for   *)
(* any terminals.                                                          *)
THEOREM ListTyping == Spec => []TypeOK
<1>1. ListInv => TypeOK
  BY DEF ListInv
<1> QED
  BY <1>1, ListInvariant, PTL

(* Unless what an uninitialised variable left in a status is taken for an  *)
(* answer, the bus runs only with the plug-and-play information of every   *)
(* terminal found: a dummy request or a lost one is never counted.         *)
THEOREM InformationRead == Spec => []PnpRead
<1>1. ListInv => PnpRead
  BY DEF ListInv, Known
<1> QED
  BY <1>1, ListInvariant, PTL


-----------------------------------------------------------------------------
(* The run message.                                                        *)

(* Units that have passed, at least, since bc_state or the count of calls  *)
(* began.                                                                  *)
Elapsed == Period * state_tick_cnt + Period - sw

(* A terminal that has not heard the run message has lost all that were    *)
(* sent: two in the 12 units of each initial frame.  Of those sent until   *)
(* the core leaves frame 0, at most two are still to come when the 10      *)
(* calls are over.                                                         *)
Hears(r) ==
  /\ bc_state = 2 /\ bus_status[r] # 2 =>
       Elapsed <= 6 * lost + (IF off = 0 THEN 10 ELSE IF off = 1 THEN 5 ELSE off - 2)
  /\ bc_state >= 3 /\ frame = 0 /\ bus_status[r] # 2 =>
       lost >= (IF off \in {2, 3} THEN 14 ELSE IF off = 1 THEN 13 ELSE 12)
  /\ frame = 1 /\ off = 0 => bus_status[r] = 2 /\ rt[r] \in {"started", "run"}
  /\ (frame = 1 /\ off > 0) \/ frame \in 2 .. 9 => rt[r] = "run"

AllHear == \A r \in rtup : Hears(r)

(* What the actions say of one terminal.                                   *)
LEMMA HearsUnit ==
  ASSUME ListInv, MaxLost <= 13, Unit, NEW r \in rtup, bc_state >= 1, ~misread, Hears(r)
  PROVE  Hears(r)'
<1>0. TypeOK /\ Shape /\ Known
  BY DEF ListInv
<1>1. /\ frame \in 0 .. 10 /\ off \in 0 .. 11 /\ sw \in 0 .. Period + Late
      /\ bc_state \in 1 .. 4 /\ state_tick_cnt \in 0 .. 9 /\ lost \in 0 .. MaxLost
      /\ r \in RT /\ rt[r] \in {"wait", "started", "run"} /\ bus_status[r] \in 0 .. 2
  <2>1. r \in RT
    BY <1>0, Types
  <2>2. rt[r] \in {"off", "wait", "started", "run"} /\ bus_status[r] \in 0 .. 2
    BY <1>0, <2>1, Types
  <2>3. rt[r] # "off"
    BY <1>0 DEF Known
  <2> QED
    BY <1>0, <2>1, <2>2, <2>3, Types
<1>2. Elapse /\ UNCHANGED <<bc_state, state_tick_cnt>>
  BY DEF Unit, InitFrame, WaitTrigger, TimeSyncFrame, ComFrame, FinalFrame, task
<1>3. sw' = sw - 1 /\ rt'[r] = Polled(r)
  BY <1>0, <1>1, <1>2, Passed
<1>4. Elapsed' = Elapsed + 1 /\ Elapsed \in Int
  BY <1>1, <1>2, <1>3 DEF Elapsed, Period
<1>5. /\ rt[r] = "run" => rt'[r] = "run"
      /\ bus_status[r] = 2 /\ rt[r] = "started" => rt'[r] = "run"
      /\ bus_status[r] = 2 => rt'[r] \in {"started", "run"}
  BY <1>1, <1>3 DEF Polled
<1>6. CASE InitFrame
  <2>1. /\ frame = 0
        /\ IF off = 3 /\ jump0 THEN frame' = 1 /\ off' = 0 ELSE NextUnit
    BY <1>6 DEF InitFrame, GoTo
  <2>2. off' = (IF off = 11 \/ (off = 3 /\ jump0) THEN 0 ELSE off + 1)
        /\ frame' = (IF off = 3 /\ jump0 THEN 1 ELSE 0)
    BY <1>1, <2>1 DEF NextUnit, GoTo, Length, Following
  <2>3. PICK deaf \in SUBSET RT :
          /\ lost' = lost + Cardinality(deaf) /\ lost' <= MaxLost
          /\ IF off \in {0, 1} THEN Broadcast(startMsg, Reached(deaf)) ELSE UNCHANGED bus_status
    BY <1>6 DEF InitFrame
  <2>4. /\ Cardinality(deaf) \in Nat /\ (r \in deaf => Cardinality(deaf) > 0)
    BY Lost
  <2>5. /\ lost' >= lost /\ lost' \in Nat /\ (r \in deaf => lost' >= lost + 1)
    <3> DEFINE c == Cardinality(deaf)
    <3>1. lost' = lost + c /\ c \in Nat /\ (r \in deaf => c > 0) /\ lost \in Nat
      BY <1>1, <2>3, <2>4
    <3> HIDE DEF c
    <3> QED
      BY <3>1
  <2>6. CASE bc_state = 1
    <3>1. ~jump0
      BY <1>0, <2>6 DEF Shape
    <3>2. frame' = 0 /\ bc_state' = 1
      BY <1>2, <2>2, <2>6, <3>1
    <3> QED
      BY <3>2 DEF Hears
  <2>7. CASE bc_state >= 2
    <3>1. startMsg = 2
      BY <1>0, <2>7 DEF Shape
    <3>2. off \in {0, 1} => bus_status'[r] = (IF r \in deaf THEN bus_status[r] ELSE 2)
      BY <1>1, <2>3, <3>1 DEF Broadcast, Reached
    <3>3. off \notin {0, 1} => bus_status'[r] = bus_status[r]
      BY <2>3
    <3>4. bus_status'[r] # 2 => bus_status[r] # 2 /\ (off \in {0, 1} => lost' >= lost + 1)
      BY <2>5, <3>2, <3>3
    <3>5. CASE bc_state = 2
      <4>1. ~jump0
        BY <1>0, <3>5 DEF Shape
      <4>2. frame' = 0 /\ bc_state' = 2 /\ off' = IF off = 11 THEN 0 ELSE off + 1
        BY <1>2, <2>2, <3>5, <4>1
      <4>3. bus_status[r] # 2 => Elapsed <= 6 * lost + (IF off = 0 THEN 10 ELSE IF off = 1 THEN 5 ELSE off - 2)
        BY <3>5 DEF Hears
      <4> HIDE DEF Elapsed
      <4>4. bus_status'[r] # 2 =>
              Elapsed' <= 6 * lost' + (IF off' = 0 THEN 10 ELSE IF off' = 1 THEN 5 ELSE off' - 2)
        <5>1. off \in 0 .. 11 /\ lost \in Nat
          BY <1>1
        <5>2. SUFFICES ASSUME bus_status'[r] # 2
                       PROVE  Elapsed' <= 6 * lost' + (IF off' = 0 THEN 10 ELSE IF off' = 1 THEN 5
                                                        ELSE off' - 2)
          OBVIOUS
        <5>3. Elapsed <= 6 * lost + (IF off = 0 THEN 10 ELSE IF off = 1 THEN 5 ELSE off - 2)
          BY <3>4, <4>3, <5>2
        <5>4. \A x, y, z \in Int, l \in Nat, k \in Nat :
                 /\ z = x + 1 /\ k >= l /\ y \in 0 .. 11
                 /\ x <= 6 * l + (IF y = 0 THEN 10 ELSE IF y = 1 THEN 5 ELSE y - 2)
                 /\ y \in {0, 1} => k >= l + 1
                 => z <= 6 * k + (IF y = 11 THEN 10 ELSE IF y = 0 THEN 5 ELSE y - 1)
          OBVIOUS
        <5>5. /\ Elapsed' = Elapsed + 1 /\ lost' >= lost /\ (off \in {0, 1} => lost' >= lost + 1)
              /\ Elapsed \in Int /\ Elapsed' \in Int /\ lost' \in Nat /\ off \in Int
          BY <1>4, <2>5, <3>4, <5>1, <5>2
        <5>6. Elapsed' <= 6 * lost' + (IF off = 11 THEN 10 ELSE IF off = 0 THEN 5 ELSE off - 1)
          BY <5>1, <5>3, <5>4, <5>5, Zenon
        <5> QED
          BY <4>2, <5>1, <5>6
      <4> QED
        BY <4>2, <4>4 DEF Hears
    <3>6. CASE bc_state >= 3
      <4>1. jump0 /\ bc_state' >= 3 /\ bc_state' # 2
        BY <1>0, <1>1, <1>2, <3>6 DEF Shape
      <4>2. bus_status[r] # 2 => lost >= (IF off \in {2, 3} THEN 14 ELSE IF off = 1 THEN 13 ELSE 12)
        BY <2>1, <3>6 DEF Hears
      <4>3. bus_status'[r] # 2 => lost' >= (IF off' \in {2, 3} THEN 14 ELSE IF off' = 1 THEN 13 ELSE 12)
        BY <1>1, <2>2, <2>5, <3>4, <4>2
      <4>4. off = 3 => bus_status[r] = 2 /\ bus_status'[r] = 2
        <5>1. off = 3 => bus_status[r] = 2
          BY <1>1, <4>2
        <5> QED
          BY <3>3, <5>1
      <4>5. frame' = 1 => off' = 0 /\ bus_status'[r] = 2 /\ rt'[r] \in {"started", "run"}
        BY <1>5, <2>2, <4>4
      <4>6. frame' \in {0, 1}
        BY <2>2
      <4> QED
        BY <4>1, <4>3, <4>5, <4>6 DEF Hears
    <3> QED
      BY <1>1, <2>7, <3>5, <3>6
  <2> QED
    BY <1>1, <2>6, <2>7
<1>7. CASE ~InitFrame
  <2>1. frame \in 1 .. 10
    BY <1>1, <1>7 DEF Unit, WaitTrigger, TimeSyncFrame, ComFrame, FinalFrame, Waiting
  <2>2. bc_state >= 3
    BY <1>0, <2>1 DEF Shape
  <2>3. bus_status'[r] = bus_status[r] \/ frame = 10
    BY <1>7 DEF Unit, WaitTrigger, TimeSyncFrame, ComFrame, FinalFrame
  <2>4. \/ frame' = frame /\ off' = off
        \/ frame' = frame /\ off' = off + 1
        \/ frame' = Following(frame) /\ off' = 0
        \/ frame = 9 /\ frame' = 10 /\ off' = 0
    <3>1. WaitTrigger => frame' = frame /\ off' = off
      BY DEF WaitTrigger
    <3>2. NextUnit => (frame' = frame /\ off' = off + 1) \/ (frame' = Following(frame) /\ off' = 0)
      BY DEF NextUnit, GoTo
    <3>3. TimeSyncFrame \/ FinalFrame => NextUnit
      BY DEF TimeSyncFrame, FinalFrame
    <3>4. ComFrame => NextUnit \/ (frame = 9 /\ frame' = 10 /\ off' = 0)
      BY DEF ComFrame, GoTo
    <3> QED
      BY <1>7, <3>1, <3>2, <3>3, <3>4 DEF Unit
  <2>5. Following(frame) = IF frame = 10 THEN 10 ELSE IF frame = 9 THEN 2 ELSE frame + 1
    BY <1>1, <2>1 DEF Following
  <2>6. frame' \in 1 .. 10 /\ (frame' = 1 => frame = 1) /\ (frame = 10 => frame' = 10) /\ off' \in Nat
    <3>1. off + 1 \in Nat /\ off \in Nat
      BY <1>1
    <3>2. Following(frame) \in 2 .. 10 /\ (frame = 10 => Following(frame) = 10)
      BY <2>1, <2>5
    <3> QED
      BY <2>1, <2>4, <3>1, <3>2
  <2>7. CASE frame' = 1 /\ off' = 0
    <3>1. frame = 1 /\ off = 0
      BY <1>1, <2>1, <2>4, <2>5, <2>7
    <3> QED
      BY <1>2, <1>5, <2>2, <2>3, <2>7, <3>1 DEF Hears
  <2>8. CASE ~(frame' = 1 /\ off' = 0)
    <3>1. frame = 10 \/ rt'[r] = "run"
      BY <1>1, <1>5, <2>1 DEF Hears
    <3> QED
      BY <1>2, <2>2, <2>6, <2>8, <3>1 DEF Hears
  <2> QED
    BY <2>7, <2>8
<1> QED
  BY <1>6, <1>7

LEMMA HearsProcess ==
  ASSUME ListInv, Process, AllHear
  PROVE  AllHear'
<1>0. TypeOK /\ Shape /\ Known
  BY DEF ListInv
<1>1. /\ sw = 0 /\ sw' >= Period /\ sw' \in Nat
      /\ UNCHANGED <<frame, off, rt, bus_status, lost>>
  <2>1. PICK s \in 0 .. 4 : Call(s)
    BY DEF Process, FindRts, WaitPnp, WaitRun, Communicate, ShutDown
  <2>2. sw = 0 /\ sw' \in 0 .. Period + Late /\ sw' >= Period /\ UNCHANGED <<frame, off, rt, bus_status, lost>>
    BY <1>0, <2>1, Called
  <2> QED
    BY <2>2 DEF Period
<1>2. /\ off \in 0 .. 11 /\ bc_state \in 0 .. 4 /\ state_tick_cnt \in 0 .. 9 /\ lost \in Nat
  BY <1>0, Types
<1>3. CASE FindRts
  <2>1. bc_state' \in 0 .. 1 /\ jump0 = FALSE
    <3>1. bc_state = 0
      BY <1>3 DEF FindRts, Call
    <3> QED
      BY <1>0, <1>3, <3>1, Types DEF FindRts, Shape
  <2>2. frame' = 0
    BY <1>0, <1>1, <2>1 DEF Shape
  <2> QED
    BY <2>1, <2>2 DEF AllHear, Hears
<1>4. CASE WaitPnp
  <2>1. bc_state = 1 /\ rtup' = rtup /\ (bc_state' = 1 \/ (bc_state' = 2 /\ state_tick_cnt' = 0))
    BY <1>4 DEF WaitPnp, Call
  <2>2. frame' = 0
    BY <1>0, <1>1, <2>1 DEF Shape
  <2>3. ASSUME bc_state' = 2
        PROVE  Elapsed' <= 0 /\ Elapsed' \in Int
    <3>1. state_tick_cnt' = 0
      BY <2>1, <2>3
    <3>2. Elapsed' = 8 * 0 + 8 - sw'
      BY <3>1 DEF Elapsed, Period
    <3>3. sw' \in Nat /\ sw' >= 8
      BY <1>1 DEF Period
    <3>4. \A x \in Nat : x >= 8 => 8 * 0 + 8 - x \in Int /\ 8 * 0 + 8 - x <= 0
      OBVIOUS
    <3> QED
      BY <3>2, <3>3, <3>4, Zenon
  <2> HIDE DEF Elapsed
  <2>4. bc_state' = 2 => Elapsed' <= 6 * lost' + (IF off' = 0 THEN 10 ELSE IF off' = 1 THEN 5 ELSE off' - 2)
    BY <1>1, <1>2, <2>3
  <2> QED
    BY <2>1, <2>2, <2>4 DEF AllHear, Hears
<1>5. CASE WaitRun
  <2>1. /\ bc_state = 2 /\ rtup' = rtup
        /\ IF state_tick_cnt + 1 >= 10 THEN bc_state' = 3 ELSE state_tick_cnt' = state_tick_cnt + 1 /\ bc_state' = 2
    BY <1>5 DEF WaitRun, Call
  <2>2. frame = 0 /\ frame' = 0
    BY <1>0, <1>1, <2>1 DEF Shape
  <2> SUFFICES ASSUME NEW r \in rtup
               PROVE  Hears(r)'
    BY <2>1 DEF AllHear
  <2>3. bus_status'[r] = bus_status[r] /\ off' = off /\ lost' = lost
    BY <1>1
  <2>4. bus_status[r] # 2 => Elapsed <= 6 * lost + (IF off = 0 THEN 10 ELSE IF off = 1 THEN 5 ELSE off - 2)
    BY <2>1 DEF AllHear, Hears
  <2>5. CASE state_tick_cnt + 1 >= 10
    <3>1. bc_state' = 3 /\ Elapsed = 80
      BY <1>1, <1>2, <2>1, <2>5 DEF Elapsed, Period
    <3> HIDE DEF Elapsed
    <3>2. bus_status[r] # 2 => lost >= (IF off \in {2, 3} THEN 14 ELSE IF off = 1 THEN 13 ELSE 12)
      BY <1>2, <2>4, <3>1
    <3> QED
      BY <2>2, <2>3, <3>1, <3>2 DEF Hears
  <2>6. CASE ~(state_tick_cnt + 1 >= 10)
    <3>1. bc_state' = 2 /\ Elapsed' <= Elapsed /\ Elapsed \in Int /\ Elapsed' \in Int
      <4>1. bc_state' = 2 /\ state_tick_cnt' = state_tick_cnt + 1
        BY <2>1, <2>6
      <4>2. Elapsed' = 8 * (state_tick_cnt + 1) + 8 - sw' /\ Elapsed = 8 * state_tick_cnt + 8 - sw
        BY <4>1 DEF Elapsed, Period
      <4>3. sw' \in Nat /\ sw' >= 8 /\ sw = 0
        BY <1>1 DEF Period
      <4>4. \A x \in Nat : x >= 8 =>
              /\ 8 * (state_tick_cnt + 1) + 8 - x <= 8 * state_tick_cnt + 8 - sw
              /\ 8 * (state_tick_cnt + 1) + 8 - x \in Int /\ 8 * state_tick_cnt + 8 - sw \in Int
        BY <1>2, <4>3
      <4> QED
        BY <4>1, <4>2, <4>3, <4>4, Zenon
    <3>2. bus_status'[r] # 2 => Elapsed' <= 6 * lost' + (IF off' = 0 THEN 10 ELSE IF off' = 1 THEN 5 ELSE off' - 2)
      BY <1>2, <2>3, <2>4, <3>1
    <3> QED
      BY <2>2, <3>1, <3>2 DEF Hears
  <2> QED
    BY <2>5, <2>6
<1>6. CASE Communicate \/ ShutDown
  <2>1. bc_state >= 3 /\ bc_state' >= 3 /\ bc_state' \in 3 .. 4 /\ rtup' = rtup
    BY <1>2, <1>6 DEF Communicate, ShutDown, Call, task
  <2> QED
    BY <1>1, <2>1 DEF AllHear, Hears
<1> QED
  BY <1>3, <1>4, <1>5, <1>6 DEF Process


LEMMA InitHears == Init => AllHear
  BY DEF Init, AllHear, Hears

(* What was once taken for an answer is not forgotten.                     *)
LEMMA NextMisread ==
  ASSUME ListInv, [Next]_vars, misread
  PROVE  misread'
<1>1. ~FindRts
  BY DEF ListInv, Known, FindRts, Call
<1>2. CASE WaitPnp
  BY <1>2 DEF WaitPnp
<1>3. CASE ~FindRts /\ ~WaitPnp
  BY <1>3 DEF Next, Unit, InitFrame, WaitTrigger, TimeSyncFrame, ComFrame, FinalFrame, Process,
              WaitRun, Communicate, ShutDown, RtOn, RequestShutdown, HwTrigger, vars, answers
<1> QED
  BY <1>1, <1>2, <1>3

LEMMA NextHears ==
  ASSUME ListInv, MaxLost <= 13, [Next]_vars, ~misread, AllHear
  PROVE  AllHear'
<1>0. TypeOK /\ Shape /\ Known
  BY DEF ListInv
<1>1. CASE Unit
  <2>1. rtup' = rtup /\ bc_state' = bc_state
    BY <1>1 DEF Unit, InitFrame, WaitTrigger, TimeSyncFrame, ComFrame, FinalFrame, task
  <2>2. CASE bc_state >= 1
    BY <1>1, <2>1, <2>2, HearsUnit DEF AllHear
  <2>3. CASE ~(bc_state >= 1)
    <3>1. bc_state = 0
      BY <1>0, <2>3, Types
    <3>2. ~jump0'
      <4>1. ListInv'
        BY <1>1, UnitList
      <4> QED
        BY <2>1, <3>1, <4>1 DEF ListInv, Shape
    <3>3. frame' = 0
      <4>1. ListInv'
        BY <1>1, UnitList
      <4> QED
        BY <3>2, <4>1 DEF ListInv, Shape
    <3> QED
      BY <2>1, <3>1, <3>3 DEF AllHear, Hears
  <2> QED
    BY <2>2, <2>3
<1>2. CASE Process
  BY <1>2, HearsProcess
<1>3. ASSUME NEW q \in RT, RtOn(q)
      PROVE  AllHear'
  <2>1. /\ rt' = [rt EXCEPT ![q] = "wait"] /\ rt[q] = "off"
        /\ UNCHANGED <<frame, off, bc_state, rtup, state_tick_cnt, sw, bus_status, lost>>
    BY <1>3 DEF RtOn, task
  <2>2. \A r \in rtup : rt'[r] = rt[r] \/ frame = 0
    <3>1. rtup \subseteq RT /\ bc_state \in 0 .. 4 /\ rt \in [RT -> {"off", "wait", "started", "run"}]
      BY <1>0, Types
    <3>2. bc_state = 0 => frame = 0
      BY <1>0 DEF Shape
    <3>3. bc_state >= 1 => \A r \in rtup : r # q
      BY <1>0, <2>1 DEF Known
    <3>4. \A r \in rtup : r # q => rt'[r] = rt[r]
      BY <2>1, <3>1
    <3> QED
      BY <3>1, <3>2, <3>3, <3>4
  <2> QED
    BY <2>1, <2>2 DEF AllHear, Hears, Elapsed
<1>4. CASE RequestShutdown \/ HwTrigger \/ UNCHANGED vars
  <2>1. UNCHANGED <<frame, off, bc_state, rtup, state_tick_cnt, sw, rt, bus_status, lost>>
    BY <1>4 DEF RequestShutdown, HwTrigger, vars, task, rts
  <2> QED
    BY <2>1 DEF AllHear, Hears, Elapsed
<1> QED
  BY <1>1, <1>2, <1>3, <1>4 DEF Next

(* As long as no more than 13 transfers are lost, and what a variable      *)
(* never set has left is not taken for an answer, every terminal that the  *)
(* controller found has heard the run message and acted on it before data  *)
(* are exchanged, for any number of terminals and any delay of the task.   *)
(* Of the 14 messages that are sent at least, one gets through.            *)
THEOREM DataAfterRun == MaxLost <= 13 => (Spec => []RunBeforeData)
<1> SUFFICES ASSUME MaxLost <= 13
             PROVE  Spec => []RunBeforeData
  OBVIOUS
<1> DEFINE HearInv == ListInv /\ (~misread => AllHear)
<1>1. HearInv => RunBeforeData
  BY DEF AllHear, Hears, RunBeforeData
<1>2. HearInv /\ [Next]_vars => HearInv'
  BY NextList, NextMisread, NextHears
<1>3. Init => HearInv
  BY InitList, InitHears
<1> HIDE DEF HearInv
<1> QED
  BY <1>1, <1>2, <1>3, PTL DEF Spec

-----------------------------------------------------------------------------
(* Task and core in step, with the trigger given by the task.              *)

Ready == frame \in {1, 2} /\ off = 0

(* Units since frame 2 began.                                              *)
Place == 10 * (frame - 2) + off

(* The core is back and waits by the time the task gives a trigger.        *)
InTime ==
  /\ bc_state >= 3 /\ trig => Ready
  /\ bc_state = 3 =>
       /\ trig => state_tick_cnt = 0 /\ sw >= Period
       /\ frame = 0 => Elapsed <= (IF off <= 3 THEN off + 8 ELSE off - 4)
       /\ frame = 1 /\ off > 0 => Elapsed <= off
       /\ frame \in 2 .. 9 /\ ~Ready => Elapsed <= Place

(* The five things a unit may be to the core.                              *)
Starts ==
  /\ frame = 0 /\ UNCHANGED <<trig, told, syncs, lag>>
  /\ frame' = (IF off = 3 /\ jump0 THEN 1 ELSE 0)
  /\ off' = (IF off = 11 \/ (off = 3 /\ jump0) THEN 0 ELSE off + 1)
Waits == Ready /\ ~trig /\ UNCHANGED <<frame, off, trig, told, syncs, lag>>
Tells ==
  /\ frame = 1 /\ UNCHANGED <<syncs, lag>>
  /\ off = 0 => trig /\ trig' = FALSE /\ told' = nexttime
  /\ off > 0 => UNCHANGED <<trig, told>>
  /\ frame' = (IF off = 4 THEN 2 ELSE 1) /\ off' = (IF off = 4 THEN 0 ELSE off + 1)
Communicates ==
  /\ frame \in 2 .. 9 /\ off <= 9
  /\ Ready => /\ trig /\ trig' = FALSE
              /\ syncs' = (IF syncs = 2 THEN 2 ELSE syncs + 1)
              /\ lag' = (nexttime - told) % TimeMod
  /\ ~Ready => UNCHANGED <<trig, syncs, lag>>
  /\ told' = (IF frame = 9 /\ off = 3 THEN nexttime ELSE told)
  /\ \/ frame = 9 /\ off = 0 /\ jump9 /\ frame' = 10 /\ off' = 0
     \/ frame = 9 /\ off = 9 /\ frame' = 2 /\ off' = 0
     \/ off < 9 /\ frame' = frame /\ off' = off + 1
     \/ off = 9 /\ frame < 9 /\ frame' = frame + 1 /\ off' = 0
Ends == frame = 10 /\ frame' = 10 /\ UNCHANGED <<trig, told, syncs, lag>>

LEMMA Moves ==
  ASSUME ListInv, Unit
  PROVE  /\ sw > 0 /\ sw' = sw - 1 /\ UNCHANGED <<soft, bc_state, state_tick_cnt, nexttime>>
         /\ Elapsed \in Int /\ Elapsed' = Elapsed + 1
         /\ Starts \/ Waits \/ Tells \/ Communicates \/ Ends
<1>0. TypeOK /\ Shape
  BY DEF ListInv
<1>1. /\ frame \in 0 .. 10 /\ off \in 0 .. 11 /\ sw \in 0 .. Period + Late /\ state_tick_cnt \in 0 .. 9
      /\ off < Length(frame)
  BY <1>0, Types DEF Shape
<1>2. Elapse /\ UNCHANGED <<bc_state, state_tick_cnt, nexttime>>
  BY DEF Unit, InitFrame, WaitTrigger, TimeSyncFrame, ComFrame, FinalFrame, task
<1>3. sw > 0 /\ sw' = sw - 1 /\ soft' = soft
  BY <1>0, <1>2, Passed
<1>4. Elapsed \in Int /\ Elapsed' = Elapsed + 1
  BY <1>1, <1>2, <1>3 DEF Elapsed, Period
<1>5. ASSUME InitFrame PROVE Starts
  <2>1. frame = 0 /\ IF off = 3 /\ jump0 THEN frame' = 1 /\ off' = 0 ELSE NextUnit
    BY <1>5 DEF InitFrame, GoTo
  <2>2. UNCHANGED <<trig, told, syncs, lag>>
    BY <1>5 DEF InitFrame, clock
  <2>3. /\ off' = (IF off = 11 \/ (off = 3 /\ jump0) THEN 0 ELSE off + 1)
        /\ frame' = (IF off = 3 /\ jump0 THEN 1 ELSE 0)
    BY <1>1, <2>1 DEF NextUnit, GoTo, Length, Following
  <2> QED
    BY <2>1, <2>2, <2>3 DEF Starts
<1>6. WaitTrigger => Waits
  BY DEF WaitTrigger, Waiting, Waits, Ready, clock
<1>7. ASSUME TimeSyncFrame PROVE Tells
  <2>1. /\ frame = 1 /\ ~Waiting /\ NextUnit /\ UNCHANGED <<syncs, lag>>
        /\ IF off = 0 THEN trig' = FALSE /\ told' = nexttime ELSE UNCHANGED <<trig, told>>
    BY <1>7 DEF TimeSyncFrame
  <2>2. frame' = (IF off = 4 THEN 2 ELSE 1) /\ off' = (IF off = 4 THEN 0 ELSE off + 1)
    BY <1>1, <2>1 DEF NextUnit, GoTo, Length, Following
  <2>3. off = 0 => trig
    BY <2>1 DEF Waiting
  <2> QED
    BY <1>1, <2>1, <2>2, <2>3 DEF Tells
<1>8. ASSUME ComFrame PROVE Communicates
  <2>1. /\ frame \in 2 .. 9 /\ ~Waiting
        /\ IF frame = 2 /\ off = 0
             THEN /\ trig' = FALSE
                  /\ syncs' = (IF syncs = 2 THEN 2 ELSE syncs + 1)
                  /\ lag' = (nexttime - told) % TimeMod
             ELSE UNCHANGED <<trig, syncs, lag>>
        /\ told' = (IF frame = 9 /\ off = 3 THEN nexttime ELSE told)
        /\ IF frame = 9 /\ off = 0 /\ jump9 THEN frame' = 10 /\ off' = 0 ELSE NextUnit
    BY <1>8 DEF ComFrame, GoTo
  <2>2. Length(frame) = 10 /\ Following(frame) = (IF frame = 9 THEN 2 ELSE frame + 1)
    BY <2>1 DEF Length, Following
  <2>3. off <= 9
    BY <1>1, <2>2
  <2>4. NextUnit => \/ frame = 9 /\ off = 9 /\ frame' = 2 /\ off' = 0
                    \/ off < 9 /\ frame' = frame /\ off' = off + 1
                    \/ off = 9 /\ frame < 9 /\ frame' = frame + 1 /\ off' = 0
    BY <1>1, <2>1, <2>2, <2>3 DEF NextUnit, GoTo
  <2>5. Ready <=> frame = 2 /\ off = 0
    BY <2>1 DEF Ready
  <2>6. Ready => trig
    BY <2>1, <2>5 DEF Waiting
  <2> QED
    BY <2>1, <2>3, <2>4, <2>5, <2>6 DEF Communicates
<1>9. ASSUME FinalFrame PROVE Ends
  <2>1. frame = 10 /\ NextUnit /\ UNCHANGED <<trig, told, syncs, lag>>
    BY <1>9 DEF FinalFrame, clock
  <2>2. frame' = 10
    BY <2>1 DEF NextUnit, GoTo, Following
  <2> QED
    BY <2>1, <2>2 DEF Ends
<1> QED
  BY <1>2, <1>3, <1>4, <1>5, <1>6, <1>7, <1>8, <1>9 DEF Unit

LEMMA UnitInTime ==
  ASSUME ListInv, Unit, InTime
  PROVE  InTime' /\ (bc_state >= 3 => ~trig')
<1>0. /\ frame \in 0 .. 10 /\ off \in 0 .. 11 /\ sw \in 0 .. Period + Late
      /\ bc_state \in 0 .. 4 /\ state_tick_cnt \in 0 .. 9 /\ trig \in BOOLEAN
      /\ (bc_state = 3 => jump0 /\ ~jump9 /\ frame # 10)
  <2>1. TypeOK /\ Shape
    BY DEF ListInv
  <2> QED
    BY <2>1, Types DEF Shape
<1>1. /\ sw > 0 /\ sw' = sw - 1 /\ UNCHANGED <<bc_state, state_tick_cnt>>
      /\ Elapsed \in Int /\ Elapsed' = Elapsed + 1
      /\ Starts \/ Waits \/ Tells \/ Communicates \/ Ends
  BY Moves
<1>2. ASSUME bc_state >= 3
      PROVE  ~trig'
  <2>1. ~Ready => ~trig
    BY <1>2, Zenon DEF InTime
  <2>2. frame \in {0, 10} \/ off > 0 => ~Ready
    BY <1>0 DEF Ready
  <2>3. CASE Starts
    <3>1. frame = 0 /\ trig' = trig
      BY <2>3, Zenon DEF Starts
    <3>2. ~Ready
      BY <2>2, <3>1
    <3> QED
      BY <2>1, <3>1, <3>2, Zenon
  <2>4. CASE Waits
    BY <2>4, Zenon DEF Waits
  <2>5. CASE Tells
    <3>1. off = 0 => trig' = FALSE
      BY <2>5, Zenon DEF Tells
    <3>2. off > 0 => trig' = trig
      BY <2>5, Zenon DEF Tells
    <3>3. off = 0 \/ off > 0
      BY <1>0
    <3> QED
      BY <2>1, <2>2, <3>1, <3>2, <3>3, Zenon
  <2>6. CASE Communicates
    BY <2>1, <2>6, Zenon DEF Communicates
  <2>7. CASE Ends
    <3>1. frame = 10 /\ trig' = trig
      BY <2>7, Zenon DEF Ends
    <3>2. ~Ready
      BY <2>2, <3>1
    <3> QED
      BY <2>1, <3>1, <3>2, Zenon
  <2> QED
    BY <1>1, <2>3, <2>4, <2>5, <2>6, <2>7, Zenon
<1>3. ASSUME bc_state = 3
      PROVE  /\ frame' = 0 => Elapsed' <= (IF off' <= 3 THEN off' + 8 ELSE off' - 4)
             /\ frame' = 1 /\ off' > 0 => Elapsed' <= off'
             /\ frame' \in 2 .. 9 /\ ~Ready' => Elapsed' <= Place'
  <2>1. Ready /\ trig => Elapsed <= 0
    <3>1. Ready /\ trig => state_tick_cnt = 0 /\ sw >= 8
      BY <1>3 DEF InTime, Period
    <3> QED
      BY <1>0, <3>1 DEF Elapsed, Period
  <2>2. CASE Starts
    <3>1. Elapsed <= (IF off <= 3 THEN off + 8 ELSE off - 4)
      BY <1>3, <2>2 DEF InTime, Starts
    <3>2. /\ frame' = (IF off = 3 THEN 1 ELSE 0)
          /\ off' = (IF off = 11 \/ off = 3 THEN 0 ELSE off + 1)
      BY <1>0, <1>3, <2>2 DEF Starts
    <3>3. frame' = 0 => Elapsed' <= (IF off' <= 3 THEN off' + 8 ELSE off' - 4)
      BY <1>0, <1>1, <3>1, <3>2
    <3> QED
      BY <3>2, <3>3
  <2>3. CASE Waits
    BY <2>3 DEF Waits, Ready
  <2>4. CASE Tells
    <3>1. frame = 1 /\ frame' = (IF off = 4 THEN 2 ELSE 1) /\ off' = (IF off = 4 THEN 0 ELSE off + 1)
      BY <2>4 DEF Tells
    <3>2. Elapsed <= off
      <4>1. off = 0 => Elapsed <= 0
        BY <2>1, <2>4 DEF Tells, Ready
      <4>2. off > 0 => Elapsed <= off
        BY <1>3, <3>1 DEF InTime
      <4> QED
        BY <1>0, <4>1, <4>2
    <3>3. off' > 0 => Elapsed' <= off'
      BY <1>0, <1>1, <3>1, <3>2
    <3>4. frame' # 1 => Ready'
      BY <3>1 DEF Ready
    <3> QED
      BY <3>1, <3>3, <3>4
  <2>5. CASE Communicates
    <3>1. Elapsed <= Place
      <4>1. Ready => Elapsed <= 0 /\ Place = 0
        BY <2>1, <2>5 DEF Communicates, Ready, Place
      <4>2. ~Ready => Elapsed <= Place
        BY <1>3, <2>5 DEF InTime, Communicates
      <4> QED
        BY <4>1, <4>2
    <3>2. \/ frame' = 2 /\ off' = 0
          \/ frame' \in 2 .. 9 /\ off' \in 0 .. 9 /\ Place' = Place + 1
      <4>1. \/ frame' = 2 /\ off' = 0
            \/ off < 9 /\ frame' = frame /\ off' = off + 1
            \/ off = 9 /\ frame < 9 /\ frame' = frame + 1 /\ off' = 0
        BY <1>0, <1>3, <2>5 DEF Communicates
      <4>2. frame \in 2 .. 9
        BY <2>5 DEF Communicates
      <4> QED
        BY <1>0, <4>1, <4>2 DEF Place
    <3>3. Place \in Int
      BY <1>0 DEF Place
    <3>4. Place' = Place + 1 => Elapsed' <= Place'
      BY <1>1, <3>1, <3>3
    <3> QED
      BY <3>2, <3>4 DEF Ready
  <2>6. ~Ends
    BY <1>0, <1>3 DEF Ends
  <2> QED
    BY <1>1, <2>2, <2>3, <2>4, <2>5, <2>6
<1> QED
  BY <1>0, <1>1, <1>2, <1>3 DEF InTime

(* The calls.  The one that gives the trigger finds the core waiting.      *)
LEMMA ProcessInTime ==
  ASSUME ListInv, soft, Process, InTime
  PROVE  InTime'
<1>0. /\ frame \in 0 .. 10 /\ off \in 0 .. 11 /\ off < Length(frame)
      /\ bc_state \in 0 .. 4 /\ state_tick_cnt \in 0 .. 9 /\ trig \in BOOLEAN
      /\ (bc_state = 2 => frame = 0) /\ (bc_state = 3 => frame # 10)
  <2>1. TypeOK /\ Shape
    BY DEF ListInv
  <2> QED
    BY <2>1, Types DEF Shape
<1>1. \A s : Call(s) => sw = 0 /\ bc_state = s /\ sw' \in Nat /\ sw' >= 8 /\ frame' = frame /\ off' = off
  <2> SUFFICES ASSUME NEW s, Call(s)
               PROVE  sw = 0 /\ bc_state = s /\ sw' \in Nat /\ sw' >= 8 /\ frame' = frame /\ off' = off
    OBVIOUS
  <2>1. TypeOK
    BY DEF ListInv
  <2>2. sw = 0 /\ bc_state = s /\ sw' \in 0 .. Period + Late /\ sw' >= Period /\ frame' = frame /\ off' = off
    BY <2>1, Called
  <2> QED
    BY <2>2 DEF Period
<1>2. CASE FindRts \/ WaitPnp
  <2>1. FindRts => bc_state = 0 /\ bc_state' \in {1, bc_state}
    BY DEF FindRts, Call
  <2>2. WaitPnp => bc_state = 1 /\ bc_state' \in {2, bc_state}
    BY DEF WaitPnp, Call
  <2>3. ~(bc_state' >= 3) /\ bc_state' # 3
    BY <1>2, <2>1, <2>2
  <2> QED
    BY <2>3 DEF InTime
<1>3. CASE WaitRun
  <2>1. sw' \in Nat /\ sw' >= 8 /\ frame' = 0 /\ off' = off
    BY <1>0, <1>1, <1>3, Zenon DEF WaitRun
  <2>2. CASE bc_state' = 2
    BY <2>2 DEF InTime
  <2>3. CASE bc_state' # 2
    <3>1. bc_state = 2
      BY <1>3 DEF WaitRun, Call
    <3>2. bc_state' = 3 /\ state_tick_cnt' = 0
      BY <1>3, <2>3, <3>1 DEF WaitRun
    <3>3. trig' = (trig /\ ~soft)
      BY <1>3, <2>3, <3>1 DEF WaitRun
    <3>4. ~trig'
      BY <3>3
    <3>5. Elapsed' <= (IF off' <= 3 THEN off' + 8 ELSE off' - 4)
      <4>1. Elapsed' = 8 * 0 + 8 - sw'
        BY <3>2 DEF Elapsed, Period
      <4>2. \A x \in Nat : x >= 8 => 8 * 0 + 8 - x <= (IF off <= 3 THEN off + 8 ELSE off - 4)
        BY <1>0
      <4> QED
        BY <2>1, <4>1, <4>2, Zenon
    <3> HIDE DEF Elapsed
    <3>6. ~(frame' = 1) /\ ~(frame' \in 2 .. 9)
      BY <2>1
    <3> QED
      BY <3>4, <3>5, <3>6, Zenon DEF InTime
  <2> QED
    BY <2>2, <2>3
<1>4. CASE Communicate
  <2>1. sw = 0 /\ bc_state = 3 /\ sw' \in Nat /\ sw' >= 8 /\ frame' = frame /\ off' = off
    BY <1>1, <1>4, Zenon DEF Communicate
  <2>2. trig' = (trig \/ (state_tick_cnt + 1 >= 10 /\ soft))
        /\ state_tick_cnt' = (IF state_tick_cnt + 1 >= 10 THEN 0 ELSE state_tick_cnt + 1)
    BY <1>4, Zenon DEF Communicate
  <2>3. ~trig
    BY <2>1 DEF InTime, Period
  <2>4. Elapsed = 8 * state_tick_cnt + 8
    BY <1>0, <2>1 DEF Elapsed, Period
  <2>5. CASE state_tick_cnt = 9
    <3>1. Elapsed = 80
      BY <2>4, <2>5
    <3>2. frame \in 2 .. 9 => off < 10
      BY <1>0 DEF Length
    <3>3. Place \in Int /\ (frame \in 2 .. 9 => Place < 80)
      BY <1>0, <3>2 DEF Place
    <3> HIDE DEF Elapsed, Place
    <3>4. Ready
      <4>1. frame # 0
        BY <1>0, <2>1, <3>1 DEF InTime
      <4>2. frame = 1 => ~(off > 0)
        BY <1>0, <2>1, <3>1 DEF InTime
      <4>3. frame \in 2 .. 9 => Ready
        BY <2>1, <3>1, <3>3 DEF InTime
      <4> QED
        BY <1>0, <2>1, <4>1, <4>2, <4>3 DEF Ready
    <3>5. Ready' /\ ~(frame' = 0) /\ (frame' = 1 => ~(off' > 0))
      BY <2>1, <3>4 DEF Ready
    <3>6. state_tick_cnt' = 0 /\ sw' >= Period
      BY <2>1, <2>2, <2>5 DEF Period
    <3> QED
      BY <3>5, <3>6, Zenon DEF InTime
  <2>6. CASE state_tick_cnt # 9
    <3>1. state_tick_cnt + 1 < 10
      BY <1>0, <2>6
    <3>2. ~(state_tick_cnt + 1 >= 10)
      BY <1>0, <3>1
    <3>3. ~trig' /\ state_tick_cnt' = state_tick_cnt + 1
      BY <2>2, <2>3, <3>2, Zenon
    <3>4. Elapsed' <= Elapsed /\ Elapsed' \in Int /\ Elapsed \in Int
      <4>1. Elapsed' = 8 * (state_tick_cnt + 1) + 8 - sw'
        BY <3>3 DEF Elapsed, Period
      <4>2. \A x \in Nat : x >= 8 => /\ 8 * (state_tick_cnt + 1) + 8 - x <= 8 * state_tick_cnt + 8
                                     /\ 8 * (state_tick_cnt + 1) + 8 - x \in Int
                                     /\ 8 * state_tick_cnt + 8 \in Int
        BY <1>0
      <4> QED
        BY <2>1, <2>4, <4>1, <4>2, Zenon
    <3>5. Place' = Place /\ Ready' = Ready /\ Place \in Int
      BY <1>0, <2>1 DEF Place, Ready
    <3> HIDE DEF Elapsed, Place, Ready
    <3>6. /\ frame = 0 => Elapsed <= (IF off <= 3 THEN off + 8 ELSE off - 4)
          /\ frame = 1 /\ off > 0 => Elapsed <= off
          /\ frame \in 2 .. 9 /\ ~Ready => Elapsed <= Place
      BY <2>1 DEF InTime
    <3>7. /\ frame = 0 => Elapsed' <= (IF off <= 3 THEN off + 8 ELSE off - 4)
          /\ frame = 1 /\ off > 0 => Elapsed' <= off
          /\ frame \in 2 .. 9 /\ ~Ready => Elapsed' <= Place
      BY <1>0, <3>4, <3>5, <3>6
    <3>8. /\ frame' = 0 => Elapsed' <= (IF off' <= 3 THEN off' + 8 ELSE off' - 4)
          /\ frame' = 1 /\ off' > 0 => Elapsed' <= off'
          /\ frame' \in 2 .. 9 /\ ~Ready' => Elapsed' <= Place'
      BY <2>1, <3>5, <3>7
    <3> QED
      BY <3>3, <3>8, Zenon DEF InTime
  <2> QED
    BY <2>5, <2>6
<1>5. CASE ShutDown
  <2>1. bc_state = 4 /\ bc_state' = 4 /\ trig' = trig /\ frame' = frame /\ off' = off
    BY <1>5 DEF ShutDown, Call, task
  <2> QED
    BY <2>1 DEF InTime, Ready
<1> QED
  BY <1>2, <1>3, <1>4, <1>5 DEF Process

LEMMA NextInTime ==
  ASSUME ListInv, [Next]_vars, soft => InTime
  PROVE  soft' => InTime'
<1>1. soft' = soft
  BY DEF Next, Unit, InitFrame, WaitTrigger, TimeSyncFrame, ComFrame, FinalFrame, Elapse,
         Process, FindRts, WaitPnp, WaitRun, Communicate, ShutDown, Call,
         RtOn, RequestShutdown, HwTrigger, vars
<1> SUFFICES ASSUME soft, InTime
             PROVE  InTime'
  BY <1>1
<1>2. CASE (\E r \in RT : RtOn(r)) \/ RequestShutdown \/ HwTrigger \/ UNCHANGED vars
  <2>1. UNCHANGED <<frame, off, trig, bc_state, state_tick_cnt, sw>>
    BY <1>2 DEF RtOn, RequestShutdown, HwTrigger, vars, task
  <2> QED
    BY <2>1 DEF InTime, Ready, Elapsed, Place
<1> QED
  BY <1>2, UnitInTime, ProcessInTime DEF Next

LEMMA InTimeInvariant == Spec => [](ListInv /\ (soft => InTime))
<1>1. Init => ListInv /\ (soft => InTime)
  BY InitList DEF Init, InTime
<1>2. ListInv /\ (soft => InTime) /\ [Next]_vars => ListInv' /\ (soft' => InTime')
  BY NextList, NextInTime
<1> QED
  BY <1>1, <1>2, PTL DEF Spec

(* No trigger finds the one before it waiting, however late the calls: a   *)
(* late call delays the trigger after it as well.                          *)
THEOREM TriggersTaken == Spec => NoTriggerLost
<1>1. /\ ListInv /\ (soft => InTime) /\ [Next]_vars
      => [soft /\ bc_state = 3 /\ state_tick_cnt # 0 /\ state_tick_cnt' = 0 => ~trig]_vars
  BY DEF InTime
<1> QED
  BY <1>1, InTimeInvariant, PTL DEF Spec, NoTriggerLost

-----------------------------------------------------------------------------
(* The first time message.                                                 *)

(* Until it is sent the next time is set by the ninth call of Communicate, *)
(* and by none before.                                                     *)
FirstTime ==
  told = NoTime =>
    /\ frame = 0 \/ (frame = 1 /\ off = 0)
    /\ bc_state < 3 => nexttime = 0
    /\ bc_state = 3 => nexttime = (IF trig \/ state_tick_cnt = 9 THEN 1 ELSE 0)
    /\ bc_state = 4 /\ trig => nexttime = 1

LEMMA UnitFirstTime ==
  ASSUME ListInv, Unit, FirstTime
  PROVE  /\ FirstTime'
         /\ told = NoTime /\ told' # NoTime => nexttime # 0
<1>0. /\ frame \in 0 .. 10 /\ off \in 0 .. 11 /\ bc_state \in 0 .. 4
      /\ nexttime # NoTime /\ (frame # 0 => bc_state >= 3)
  <2>1. TypeOK /\ Shape
    BY DEF ListInv
  <2>2. nexttime \in 0 .. TimeMod - 1
    BY <2>1, Types
  <2>3. nexttime # NoTime
    BY <2>2 DEF NoTime
  <2> QED
    BY <2>1, <2>3, Types DEF Shape
<1>1. /\ UNCHANGED <<bc_state, state_tick_cnt, nexttime>>
      /\ Starts \/ Waits \/ Tells \/ Communicates \/ Ends
  BY Moves
<1> SUFFICES ASSUME told = NoTime
             PROVE  /\ FirstTime'
                    /\ told' # NoTime => nexttime # 0
  <2>1. CASE told # NoTime
    <3>1. told' # NoTime
      BY <1>0, <1>1, <2>1 DEF Starts, Waits, Tells, Communicates, Ends
    <3> QED
      BY <2>1, <3>1 DEF FirstTime
  <2> QED
    BY <2>1
<1>2. /\ frame = 0 \/ (frame = 1 /\ off = 0)
      /\ bc_state < 3 => nexttime = 0
      /\ bc_state = 3 => nexttime = (IF trig \/ state_tick_cnt = 9 THEN 1 ELSE 0)
      /\ bc_state = 4 /\ trig => nexttime = 1
  BY DEF FirstTime
<1>3. CASE Starts \/ Waits
  <2>1. UNCHANGED <<trig, told>>
    BY <1>3 DEF Starts, Waits
  <2>2. frame' = 0 \/ (frame' = 1 /\ off' = 0)
    BY <1>0, <1>2, <1>3 DEF Starts, Waits
  <2> QED
    BY <1>1, <1>2, <2>1, <2>2 DEF FirstTime
<1>4. CASE Tells
  <2>1. frame = 1 /\ off = 0
    BY <1>2, <1>4 DEF Tells
  <2>2. trig /\ told' = nexttime
    BY <1>4, <2>1 DEF Tells
  <2>3. nexttime = 1
    BY <1>0, <1>2, <2>1, <2>2
  <2> QED
    BY <1>0, <2>2, <2>3 DEF FirstTime
<1>5. ~Communicates /\ ~Ends
  BY <1>0, <1>2 DEF Communicates, Ends
<1> QED
  BY <1>1, <1>3, <1>4, <1>5

LEMMA ProcessFirstTime ==
  ASSUME ListInv, TimeMod >= 2, soft, Process, InTime, FirstTime
  PROVE  FirstTime' /\ told' = told
<1>0. bc_state \in 0 .. 4 /\ state_tick_cnt \in 0 .. 9 /\ trig \in BOOLEAN
  BY Types DEF ListInv
<1>1. UNCHANGED <<frame, off, told>>
  BY DEF Process, FindRts, WaitPnp, WaitRun, Communicate, ShutDown, Call, clock
<1> SUFFICES ASSUME told = NoTime
             PROVE  FirstTime'
  BY <1>1 DEF FirstTime
<1>2. /\ frame = 0 \/ (frame = 1 /\ off = 0)
      /\ bc_state < 3 => nexttime = 0
      /\ bc_state = 3 => nexttime = (IF trig \/ state_tick_cnt = 9 THEN 1 ELSE 0)
      /\ bc_state = 4 /\ trig => nexttime = 1
  BY DEF FirstTime
<1>3. CASE FindRts \/ WaitPnp
  <2>1. FindRts => bc_state = 0 /\ bc_state' \in {1, bc_state} /\ nexttime' = nexttime
    BY DEF FindRts, Call
  <2>2. WaitPnp => bc_state = 1 /\ bc_state' \in {2, bc_state} /\ nexttime' = nexttime
    BY DEF WaitPnp, Call
  <2>3. bc_state' < 3 /\ bc_state' # 3 /\ bc_state' # 4 /\ nexttime' = 0
    BY <1>2, <1>3, <2>1, <2>2
  <2> QED
    BY <1>1, <1>2, <2>3 DEF FirstTime
<1>4. CASE WaitRun
  <2>1. bc_state = 2 /\ nexttime' = nexttime /\ nexttime = 0
    BY <1>2, <1>4 DEF WaitRun, Call
  <2>2. \/ bc_state' = 2
        \/ bc_state' = 3 /\ state_tick_cnt' = 0 /\ trig' = (trig /\ ~soft)
    BY <1>4, <2>1 DEF WaitRun
  <2>3. bc_state' = 3 => state_tick_cnt' = 0 /\ ~trig'
    <3>1. 2 # 3
      OBVIOUS
    <3> QED
      BY <2>2, <3>1, Zenon
  <2> QED
    BY <1>1, <1>2, <2>1, <2>2, <2>3 DEF FirstTime
<1>5. CASE Communicate
  <2>1. /\ sw = 0 /\ bc_state = 3 /\ bc_state' \in {3, 4}
        /\ nexttime' = (IF state_tick_cnt + 1 = 9 THEN (nexttime + 1) % TimeMod ELSE nexttime)
        /\ state_tick_cnt' = (IF state_tick_cnt + 1 >= 10 THEN 0 ELSE state_tick_cnt + 1)
    BY <1>5 DEF Communicate, Call
  <2>2. trig' = (trig \/ (state_tick_cnt + 1 >= 10 /\ soft))
    BY <1>5, Zenon DEF Communicate
  <2>3. ~trig
    BY <2>1 DEF InTime, Period
  <2>4. nexttime = (IF state_tick_cnt = 9 THEN 1 ELSE 0)
    BY <1>2, <2>1, <2>3
  <2>5. (0 + 1) % TimeMod = 1
    OBVIOUS
  <2>6. CASE state_tick_cnt = 9
    <3>1. nexttime' = 1 /\ state_tick_cnt + 1 >= 10
      BY <2>1, <2>4, <2>6
    <3>2. trig'
      BY <2>2, <3>1, Zenon
    <3> QED
      BY <1>1, <1>2, <2>1, <3>1, <3>2 DEF FirstTime
  <2>7. CASE state_tick_cnt # 9
    <3>1. nexttime' = (IF state_tick_cnt = 8 THEN 1 ELSE 0) /\ state_tick_cnt' = state_tick_cnt + 1
      <4>1. nexttime = 0
        BY <2>4, <2>7
      <4>2. state_tick_cnt + 1 = 9 <=> state_tick_cnt = 8
        BY <1>0
      <4>3. ~(state_tick_cnt + 1 >= 10)
        BY <1>0, <2>7
      <4> HIDE DEF NoTime
      <4> QED
        BY <2>1, <2>5, <4>1, <4>2, <4>3, Zenon
    <3>2. ~(state_tick_cnt + 1 >= 10)
      BY <1>0, <2>7
    <3>3. ~trig'
      BY <2>2, <2>3, <3>2, Zenon
    <3>4. state_tick_cnt' = 9 <=> state_tick_cnt = 8
      BY <1>0, <3>1
    <3>5. nexttime' = (IF trig' \/ state_tick_cnt' = 9 THEN 1 ELSE 0)
      BY <3>1, <3>3, <3>4, Zenon
    <3> QED
      BY <1>1, <1>2, <2>1, <3>3, <3>5 DEF FirstTime
  <2> QED
    BY <2>6, <2>7
<1>6. CASE ShutDown
  <2>1. bc_state = 4 /\ UNCHANGED <<bc_state, trig, nexttime>>
    BY <1>6 DEF ShutDown, Call, task
  <2> QED
    BY <1>1, <1>2, <2>1 DEF FirstTime
<1> QED
  BY <1>3, <1>4, <1>5, <1>6 DEF Process

(* The bus is started by a trigger of the task, not by one left over from  *)
(* before: when the first time message is sent the next time has been set. *)
(* It is so where the task gives the trigger, and times are not all alike. *)
THEOREM StartedByTheTask ==
  SoftTriggers = {TRUE} /\ TimeMod >= 2 => (Spec => TimeStarted)
<1> SUFFICES ASSUME SoftTriggers = {TRUE}, TimeMod >= 2
             PROVE  Spec => TimeStarted
  OBVIOUS
<1>1. Init => FirstTime
  BY DEF Init, FirstTime
<1>2. ASSUME ListInv, soft => InTime, [Next]_vars, FirstTime
      PROVE  FirstTime' /\ (told = NoTime /\ told' # NoTime => nexttime # 0)
  <2>1. soft
    BY <1>2, Types DEF ListInv
  <2>2. CASE (\E r \in RT : RtOn(r)) \/ RequestShutdown \/ UNCHANGED vars
    <3>1. UNCHANGED <<frame, off, trig, bc_state, state_tick_cnt, nexttime, told>>
      BY <2>2 DEF RtOn, RequestShutdown, vars, task, clock
    <3> QED
      BY <1>2, <3>1 DEF FirstTime
  <2>3. ~HwTrigger
    BY <2>1 DEF HwTrigger
  <2> QED
    BY <1>2, <2>1, <2>2, <2>3, UnitFirstTime, ProcessFirstTime DEF Next
<1>3. ListInv /\ (soft => InTime) /\ [Next]_vars /\ FirstTime
      => FirstTime' /\ [told = NoTime /\ told' # NoTime => nexttime # 0]_vars
  BY <1>2
<1> QED
  BY <1>1, <1>3, InTimeInvariant, PTL DEF Spec, TimeStarted

-----------------------------------------------------------------------------
(* The time that is told, when no call is late.                            *)

(* The calls then count the units of the communication frames exactly: the *)
(* next time is set at 72, told at 73, and taken over after 80.            *)
InLock ==
  /\ frame \in {0, 1} => syncs = 0
  /\ frame \in 2 .. 9 /\ ~Ready => syncs > 0
  /\ bc_state >= 3 /\ trig /\ syncs > 0 => told = nexttime
  /\ bc_state = 3 /\ frame \in 2 .. 9 /\ ~Ready =>
       Elapsed = Place /\ (Place > 73 => told = nexttime)
  /\ bc_state = 3 /\ frame = 2 /\ off = 0 /\ syncs > 0 =>
       told = nexttime /\ (trig \/ Elapsed = 80)
  /\ syncs = 2 => lag = 0

LEMMA UnitInLock ==
  ASSUME ListInv, Late = 0, Unit, InTime, InLock
  PROVE  InLock'
<1>0. /\ frame \in 0 .. 10 /\ off \in 0 .. 11 /\ sw \in 0 .. 8 /\ state_tick_cnt \in 0 .. 9
      /\ bc_state \in 0 .. 4 /\ syncs \in 0 .. 2 /\ (frame # 0 => bc_state >= 3)
      /\ nexttime \in Int
  <2>1. TypeOK /\ Shape
    BY DEF ListInv
  <2>2. nexttime \in 0 .. TimeMod - 1 /\ sw \in 0 .. Period + Late
    BY <2>1, Types
  <2>3. nexttime \in Int /\ sw \in 0 .. 8
    BY <2>2 DEF Period
  <2> QED
    BY <2>1, <2>3, Types DEF Shape
<1>1. /\ sw > 0 /\ UNCHANGED <<bc_state, nexttime>>
      /\ Elapsed \in Int /\ Elapsed' = Elapsed + 1
      /\ Starts \/ Waits \/ Tells \/ Communicates \/ Ends
  BY Moves
<1>2. bc_state' >= 3 => ~trig'
  BY <1>1, UnitInTime
<1>3. CASE Starts \/ Ends
  <2>1. UNCHANGED <<syncs, lag>> /\ ~(frame' \in 2 .. 9) /\ frame' # 2
    BY <1>3 DEF Starts, Ends
  <2>2. frame' \in {0, 1} => syncs' = 0
    BY <1>3, <2>1 DEF Starts, Ends, InLock
  <2>3. syncs' = 2 => lag' = 0
    BY <2>1 DEF InLock
  <2> QED
    BY <1>2, <2>1, <2>2, <2>3, Zenon DEF InLock
<1>4. CASE Waits
  <2>1. Ready /\ ~trig /\ UNCHANGED <<frame, off, told, syncs, lag>>
    BY <1>4 DEF Waits
  <2>2. Elapsed # 80
    BY <1>0, <1>1 DEF Elapsed, Period
  <2>3. ~(bc_state = 3 /\ frame = 2 /\ off = 0 /\ syncs > 0)
    BY <2>1, <2>2, Zenon DEF InLock
  <2>4. Ready'
    BY <2>1 DEF Ready
  <2>5. (frame' \in {0, 1} => syncs' = 0) /\ (syncs' = 2 => lag' = 0)
    BY <2>1 DEF InLock
  <2>6. ~(bc_state' = 3 /\ frame' = 2 /\ off' = 0 /\ syncs' > 0)
    BY <1>1, <2>1, <2>3
  <2> QED
    BY <1>2, <2>4, <2>5, <2>6, Zenon DEF InLock
<1>5. CASE Tells
  <2>1. /\ frame = 1 /\ UNCHANGED <<syncs, lag>>
        /\ frame' = (IF off = 4 THEN 2 ELSE 1) /\ off' = (IF off = 4 THEN 0 ELSE off + 1)
    BY <1>5 DEF Tells
  <2>2. syncs = 0 /\ syncs' = 0
    BY <2>1 DEF InLock
  <2>3. frame' # 1 => Ready'
    BY <2>1 DEF Ready
  <2>4. ~(syncs' > 0) /\ syncs' # 2 /\ (frame' \in 2 .. 9 => Ready')
    BY <2>1, <2>2, <2>3
  <2> QED
    BY <1>2, <2>2, <2>4, Zenon DEF InLock
<1>6. CASE Communicates
  <2>1. /\ frame \in 2 .. 9 /\ off \in 0 .. 9 /\ bc_state >= 3
        /\ Ready => /\ trig
                    /\ syncs' = (IF syncs = 2 THEN 2 ELSE syncs + 1)
                    /\ lag' = (nexttime - told) % TimeMod
        /\ ~Ready => UNCHANGED <<syncs, lag>>
        /\ told' = (IF frame = 9 /\ off = 3 THEN nexttime ELSE told)
    BY <1>0, <1>6 DEF Communicates
  <2>2. \/ frame = 9 /\ frame' = 10
        \/ frame = 9 /\ off = 9 /\ frame' = 2 /\ off' = 0
        \/ frame' \in 2 .. 9 /\ Place' = Place + 1
    <3>1. \/ frame = 9 /\ frame' = 10
          \/ frame = 9 /\ off = 9 /\ frame' = 2 /\ off' = 0
          \/ off < 9 /\ frame' = frame /\ off' = off + 1
          \/ off = 9 /\ frame < 9 /\ frame' = frame + 1 /\ off' = 0
      BY <1>6 DEF Communicates
    <3> QED
      BY <2>1, <3>1 DEF Place
  <2>3. syncs' > 0
    <3>1. ~Ready => syncs > 0
      BY <2>1 DEF InLock
    <3> QED
      BY <1>0, <2>1, <3>1
  <2>4. syncs' = 2 => lag' = 0
    <3>1. Ready /\ syncs > 0 => lag' = 0
      <4>1. Ready /\ syncs > 0 => told = nexttime
        BY <2>1 DEF InLock
      <4>2. (nexttime - nexttime) % TimeMod = 0
        <5>1. nexttime - nexttime = 0
          BY <1>0
        <5>2. 0 % TimeMod = 0
          OBVIOUS
        <5> QED
          BY <5>1, <5>2
      <4> QED
        BY <2>1, <4>1, <4>2
    <3>2. Ready /\ ~(syncs > 0) => syncs' # 2
      BY <1>0, <2>1
    <3>3. ~Ready => (syncs' = 2 => lag' = 0)
      BY <2>1 DEF InLock
    <3> QED
      BY <3>1, <3>2, <3>3
  <2>5. Place \in Int /\ (frame = 9 /\ off = 3 <=> Place = 73)
        /\ (frame = 9 /\ off = 9 => Place = 79) /\ (Ready => Place = 0)
    BY <2>1 DEF Place, Ready
  <2>6. bc_state = 3 => Elapsed = Place /\ (Place > 73 => told = nexttime)
    <3>1. bc_state = 3 /\ ~Ready => Elapsed = Place /\ (Place > 73 => told = nexttime)
      BY <2>1, Zenon DEF InLock
    <3>2. bc_state = 3 /\ Ready => Elapsed = 0
      <4>1. bc_state = 3 /\ Ready => state_tick_cnt = 0 /\ sw >= 8
        BY <2>1 DEF InTime, Period
      <4> QED
        BY <1>0, <4>1 DEF Elapsed, Period
    <3> QED
      BY <2>5, <3>1, <3>2
  <2>7. bc_state' = 3 /\ frame' \in 2 .. 9 /\ ~Ready' =>
          Elapsed' = Place' /\ (Place' > 73 => told' = nexttime')
    <3> SUFFICES ASSUME bc_state' = 3, frame' \in 2 .. 9, ~Ready'
                 PROVE  Elapsed' = Place' /\ (Place' > 73 => told' = nexttime')
      OBVIOUS
    <3>1. Place' = Place + 1
      BY <2>2 DEF Ready
    <3>2. Elapsed = Place /\ (Place > 73 => told = nexttime)
      BY <1>1, <2>6
    <3> HIDE DEF Elapsed, Place
    <3>3. Elapsed' = Place'
      BY <1>1, <3>1, <3>2
    <3>4. Place + 1 > 73 => Place = 73 \/ Place > 73
      BY <2>5
    <3> QED
      BY <1>1, <2>1, <2>5, <3>1, <3>2, <3>3, <3>4
  <2>8. bc_state' = 3 /\ frame' = 2 /\ off' = 0 => told' = nexttime' /\ Elapsed' = 80
    <3> SUFFICES ASSUME bc_state' = 3, frame' = 2, off' = 0
                 PROVE  told' = nexttime' /\ Elapsed' = 80
      OBVIOUS
    <3>1. frame = 9 /\ off = 9
      <4>1. frame' \in 2 .. 9 /\ Place' = Place + 1 => Place = -1
        BY <2>5 DEF Place
      <4>2. Place # -1
        BY <2>1 DEF Place
      <4> QED
        BY <2>2, <4>1, <4>2
    <3>2. Elapsed = 79 /\ told = nexttime
      BY <1>1, <2>5, <2>6, <3>1
    <3> QED
      BY <1>1, <2>1, <3>1, <3>2
  <2>9. ~(frame' \in {0, 1})
    BY <2>2
  <2> QED
    BY <1>2, <2>3, <2>4, <2>7, <2>8, <2>9, Zenon DEF InLock
<1> QED
  BY <1>1, <1>3, <1>4, <1>5, <1>6

LEMMA ProcessInLock ==
  ASSUME ListInv, Late = 0, soft, Process, InTime, InLock
  PROVE  InLock'
<1>0. /\ frame \in 0 .. 10 /\ off \in 0 .. 11 /\ state_tick_cnt \in 0 .. 9 /\ trig \in BOOLEAN
      /\ syncs \in 0 .. 2 /\ (bc_state < 3 => frame = 0) /\ bc_state \in 0 .. 4
      /\ off < Length(frame)
  <2>1. TypeOK /\ Shape
    BY DEF ListInv
  <2> QED
    BY <2>1, Types DEF Shape
<1>1. sw = 0 /\ sw' = 8 /\ UNCHANGED <<frame, off, told, syncs, lag>>
  <2>1. TypeOK
    BY DEF ListInv
  <2>2. PICK s \in 0 .. 4 : Call(s)
    BY DEF Process, FindRts, WaitPnp, WaitRun, Communicate, ShutDown
  <2>3. sw = 0 /\ sw' \in 0 .. Period + Late /\ sw' >= Period /\ UNCHANGED <<frame, off, told, syncs, lag>>
    BY <2>1, <2>2, Called
  <2> QED
    BY <2>3 DEF Period
<1>2. InTime'
  BY ProcessInTime
<1>3. /\ Place' = Place /\ Ready' = Ready
      /\ frame' \in {0, 1} => syncs' = 0
      /\ frame' \in 2 .. 9 /\ ~Ready' => syncs' > 0
      /\ syncs' = 2 => lag' = 0
  BY <1>1 DEF Place, Ready, InLock
<1>4. CASE FindRts \/ WaitPnp \/ WaitRun
  <2>1. bc_state < 3
    <3>1. FindRts => bc_state = 0
      BY DEF FindRts, Call
    <3>2. WaitPnp => bc_state = 1
      BY DEF WaitPnp, Call
    <3>3. WaitRun => bc_state = 2
      BY DEF WaitRun, Call
    <3> QED
      BY <1>4, <3>1, <3>2, <3>3
  <2>2. frame' = 0
    BY <1>0, <1>1, <2>1
  <2>3. ~(frame' \in 2 .. 9) /\ frame' # 2 /\ ~(syncs' > 0)
    BY <1>3, <2>2
  <2> QED
    BY <1>3, <2>3, Zenon DEF InLock
<1>5. CASE Communicate
  <2>1. /\ bc_state = 3
        /\ nexttime' = (IF state_tick_cnt + 1 = 9 THEN (nexttime + 1) % TimeMod ELSE nexttime)
        /\ state_tick_cnt' = (IF state_tick_cnt + 1 >= 10 THEN 0 ELSE state_tick_cnt + 1)
    BY <1>5 DEF Communicate, Call
  <2>2. trig' = (trig \/ (state_tick_cnt + 1 >= 10 /\ soft))
    BY <1>5, Zenon DEF Communicate
  <2>3. ~trig
    BY <1>1, <2>1 DEF InTime, Period
  <2>4. Elapsed = 8 * state_tick_cnt + 8
    BY <1>0, <1>1 DEF Elapsed, Period
  <2>5. bc_state' \in {3, 4}
    BY <1>5 DEF Communicate
  <2>6. CASE state_tick_cnt = 9
    <3>1. nexttime' = nexttime /\ state_tick_cnt + 1 >= 10 /\ Elapsed = 80
      BY <2>1, <2>4, <2>6
    <3>2. trig'
      BY <2>2, <3>1, Zenon
    <3>3. Ready' /\ Ready
      BY <1>2, <1>3, <2>5, <3>2 DEF InTime
    <3>4. syncs > 0 => told = nexttime
      <4>1. syncs > 0 => frame # 1
        BY DEF InLock
      <4>2. syncs > 0 => frame = 2 /\ off = 0
        BY <3>3, <4>1 DEF Ready
      <4> QED
        BY <2>1, <4>2, Zenon DEF InLock
    <3>5. syncs' > 0 => told' = nexttime'
      BY <1>1, <3>1, <3>4
    <3> QED
      BY <1>3, <3>2, <3>3, <3>5, Zenon DEF InLock
  <2>7. CASE state_tick_cnt # 9
    <3>1. ~(state_tick_cnt + 1 >= 10)
      BY <1>0, <2>7
    <3>2. ~trig'
      BY <2>2, <2>3, <3>1, Zenon
    <3>3. Elapsed' = Elapsed /\ Elapsed # 80
      <4>1. state_tick_cnt' = state_tick_cnt + 1
        BY <2>1, <3>1
      <4>2. Elapsed' = 8 * (state_tick_cnt + 1) + 8 - 8
        BY <1>1, <4>1 DEF Elapsed, Period
      <4> QED
        BY <1>0, <2>4, <2>7, <4>2
    <3>4. ~(frame' = 2 /\ off' = 0 /\ syncs' > 0)
      <4>1. ~(frame = 2 /\ off = 0 /\ syncs > 0)
        BY <2>1, <2>3, <3>3, Zenon DEF InLock
      <4> QED
        BY <1>1, <4>1
    <3>5. frame' \in 2 .. 9 /\ ~Ready' => Elapsed' = Place' /\ (Place' > 73 => told' = nexttime')
      <4> SUFFICES ASSUME frame \in 2 .. 9, ~Ready
                   PROVE  Elapsed = Place /\ (Place > 73 => told = nexttime')
        BY <1>1, <1>3, <3>3
      <4>1. Elapsed = Place /\ (Place > 73 => told = nexttime)
        BY <2>1 DEF InLock
      <4> HIDE DEF Elapsed, Place
      <4>2. Place > 73 => state_tick_cnt + 1 # 9
        BY <1>0, <2>4, <2>7, <4>1
      <4> QED
        BY <2>1, <4>1, <4>2
    <3> QED
      BY <1>3, <3>2, <3>4, <3>5, Zenon DEF InLock
  <2> QED
    BY <2>6, <2>7
<1>6. CASE ShutDown
  <2>1. bc_state = 4 /\ UNCHANGED <<bc_state, trig, nexttime>>
    BY <1>6 DEF ShutDown, Call, task
  <2>2. bc_state' # 3
    BY <2>1
  <2>3. trig' /\ syncs' > 0 => told' = nexttime'
    BY <1>1, <2>1 DEF InLock
  <2> QED
    BY <1>3, <2>2, <2>3, Zenon DEF InLock
<1> QED
  BY <1>4, <1>5, <1>6 DEF Process

(* When the calls keep their period and the task gives the trigger, the    *)
(* terminals take over, from the second time sync on, the very time that   *)
(* the controller has: for any terminals and any losses, as the list is    *)
(* never held up by them.                                                  *)
THEOREM TimeTaken == Late = 0 => (Spec => []NextTimeKnown)
<1> SUFFICES ASSUME Late = 0
             PROVE  Spec => []NextTimeKnown
  OBVIOUS
<1> DEFINE IInv == ListInv /\ (soft => InTime /\ InLock)
<1>1. Init => IInv
  <2>1. Init => InLock
    BY DEF Init, InLock
  <2> QED
    BY <2>1, InitList DEF Init, InTime
<1>2. IInv /\ [Next]_vars => IInv'
  <2> SUFFICES ASSUME IInv, [Next]_vars
               PROVE  IInv'
    OBVIOUS
  <2>1. ListInv' /\ (soft' => InTime')
    BY NextList, NextInTime
  <2>2. soft' = soft
    BY DEF Next, Unit, InitFrame, WaitTrigger, TimeSyncFrame, ComFrame, FinalFrame, Elapse,
           Process, FindRts, WaitPnp, WaitRun, Communicate, ShutDown, Call,
           RtOn, RequestShutdown, HwTrigger, vars
  <2>3. CASE (\E r \in RT : RtOn(r)) \/ RequestShutdown \/ UNCHANGED vars
    <3>1. UNCHANGED <<frame, off, trig, bc_state, state_tick_cnt, sw, nexttime, told, syncs, lag>>
      BY <2>3 DEF RtOn, RequestShutdown, vars, task, clock
    <3> QED
      BY <2>1, <2>2, <3>1 DEF InLock, Ready, Elapsed, Place
  <2>4. soft => ~HwTrigger
    BY DEF HwTrigger
  <2> QED
    BY <2>1, <2>2, <2>3, <2>4, UnitInLock, ProcessInLock DEF Next
<1>3. IInv => NextTimeKnown
  BY DEF InLock, NextTimeKnown
<1> QED
  BY <1>1, <1>2, <1>3, PTL DEF Spec

=============================================================================
