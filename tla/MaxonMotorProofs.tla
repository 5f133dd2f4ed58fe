-------------------------- MODULE MaxonMotorProofs --------------------------
(***************************************************************************)
(* The invariants of the motor, for any number of failing calls, faults    *)
(* and losses of the connection, at any point of the program.              *)
(***************************************************************************)
EXTENDS MaxonMotor, TLAPS

\* A handle is lost with its connection.
ConnectionInv == (epos.open => epos.plugged) /\ (clean => epos.plugged)

\* Where closeDevice goes on to.
ReturnInv ==
  /\ pc = At("OpenDevice", "activate_device") =>
       closeThen = At("OpenDevice", "activate_device")
  /\ closeThen = EnableFirst => ~ clean
  /\ closeThen = Ended =>
       pc[2] = "DisableDevice" \/ pc[2] = "closeDevice" \/ pc = Ended
  /\ pc = Ended => closeThen = Ended

\* What is known of the controller on the way through initializeDevice.
ReadyInv ==
  clean =>
    /\ pc = At("SetProtocolStackSettings", "activate_device") => epos.open
    /\ pc[2] = "EnableDevice" => epos.open
    /\ pc = At("GetEnableState", "EnableDevice") => ~ epos.fault
    /\ pc = At("SetState", "EnableDevice") => ~ epos.fault
    /\ pc = At("SetPositionProfile", "SetPosModeParameter") =>
         epos.open /\ epos.enabled /\ ~ epos.fault
    /\ pc = At("SetDcMotorParameter", "SetPosModeParameter") => Ready

\* And on the way to the end of the program.
EndInv ==
  clean /\ closeThen = Ended =>
    /\ pc[2] = "DisableDevice" => epos.open
    /\ pc[2] = "closeDevice" => ~ epos.enabled
    /\ pc = Ended => ~ epos.open /\ ~ epos.enabled

\* The ramp of a controller that is open, and the one setSpeed writes.
RampInv ==
  ~ failed /\ epos.open =>
    /\ pc = At("SetDcMotorParameter", "SetPosModeParameter") =>
         epos.profile.ramp # "garbage"
    /\ pc[2] \in {"TimerFunc", "setSpeed", "vProcessMovement", "GetSupply", "IdleFunc", "main"}
         => epos.profile.ramp # "garbage"
    /\ pc = At("SetPositionProfile", "setSpeed") => profile.ramp # "garbage"

MotorInv == MotorTypeOK /\ ConnectionInv /\ ReturnInv /\ ReadyInv /\ EndInv /\ RampInv

\* A point is known by its call and its method.
LEMMA AtIsAPair ==
  ASSUME NEW a, NEW b
  PROVE  /\ At(a, b)[2] = b
         /\ \A c, d : At(a, b) = At(c, d) <=> a = c /\ b = d
  BY DEF At

\* Every point a step goes to is one.
LEMMA PointsOK ==
  /\ \A method \in Methods :
       /\ At("GetFaultState", method) \in Points /\ At("ClearFault", method) \in Points
       /\ At("GetEnableState", method) \in Points /\ At("SetState", method) \in Points
       /\ AfterMethod(method) \in Points
  /\ \A caller \in Callers :
       /\ At("ActivateProfilePositionMode", caller) \in Points
       /\ At("MoveToPosition", caller) \in Points
       /\ AfterMove(caller) \in Points
  /\ DisableFirst \in Points /\ EnableFirst \in Points
  /\ At("CloseDevice", "closeDevice") \in Points
  /\ At("CloseAllDevices", "closeDevice") \in Points
  /\ At("OpenDevice", "activate_device") \in Points
  /\ At("SetProtocolStackSettings", "activate_device") \in Points
  /\ At("SetPositionProfile", "SetPosModeParameter") \in Points
  /\ At("SetDcMotorParameter", "SetPosModeParameter") \in Points
  /\ Round \in Points /\ At("Keys", "TimerFunc") \in Points
  /\ At("GetPositionProfile", "setSpeed") \in Points
  /\ At("SetPositionProfile", "setSpeed") \in Points
  /\ At("ActivateProfilePositionMode", "TimerFunc") \in Points
  /\ At("ActivateProfilePositionMode", "vProcessMovement") \in Points
  /\ At("HaltPositionMovement", "TimerFunc") \in Points
  /\ At("GetAnalogInput", "GetSupply") \in Points
  /\ At("GetNbOfDeviceError", "IdleFunc") \in Points
  /\ At("cErrorNbr", "IdleFunc") \in Points
  /\ At("usleep", "main") \in Points /\ Ended \in Points
  BY DEF Points, At, Methods, Callers, AfterMethod, AfterMove, DisableFirst, EnableFirst,
       Round, Ended

\* The profiles of SetPosModeParameter and setSpeed.
LEMMA StandardProfile ==
  [velocity |-> StandardVelocity, ramp |-> "1000/2000"] \in Profiles
  BY DEF Profiles, Velocities, Ramps

\* The profile setSpeed writes is one.
LEMMA SpeedProfile ==
  ASSUME NEW speed \in Speeds, NEW p \in Profiles
  PROVE  /\ p.ramp \in Ramps
         /\ [velocity |-> 200 * speed, ramp |-> p.ramp] \in Profiles
         /\ [velocity |-> 200 * speed, ramp |-> "garbage"] \in Profiles
  BY DEF Profiles, Velocities, Ramps

\* Types: those of the histories are a matter of how calls end.
HistoryTypeOK == troubles \in 0 .. MaxTroubles /\ failed \in BOOLEAN /\ clean \in BOOLEAN

\* The count of troubles stays below its bound.
LEMMA OneMore ==
  ASSUME NEW n \in 0 .. MaxTroubles, n < MaxTroubles
  PROVE  n + 1 \in 0 .. MaxTroubles
  BY TroublesAssumption

\* However a call ends, the histories have their types.
LEMMA OutcomeType ==
  ASSUME HistoryTypeOK, NEW possible, Succeeds(possible) \/ Fails(possible)
  PROVE  HistoryTypeOK'
<1>1. CASE UNCHANGED historyVars
  BY <1>1 DEF HistoryTypeOK, historyVars
<1>2. CASE troubles < MaxTroubles /\ troubles' = troubles + 1 /\ failed' = TRUE /\ clean' = FALSE
  BY <1>2, OneMore DEF HistoryTypeOK
<1> QED
  BY <1>1, <1>2 DEF Succeeds, Fails

\* A fault or a lost connection is one more trouble, and no step of the program.
LEMMA TroubleType ==
  ASSUME HistoryTypeOK, Trouble
  PROVE  HistoryTypeOK' /\ UNCHANGED programVars
  BY OneMore DEF HistoryTypeOK, Trouble

\* Every step keeps the types.
LEMMA TypeStep ==
  ASSUME MotorTypeOK, [MotorNext]_motorVars
  PROVE  MotorTypeOK'
<1> USE PointsOK, StandardProfile DEF MotorTypeOK, HistoryTypeOK, Goto, programVars,
      stateVars, historyVars, Epos, ErrorCodes
<1>1. ASSUME NEW method \in Methods, GetFaultState(method)
      PROVE  MotorTypeOK'
  BY <1>1, OutcomeType DEF GetFaultState
<1>2. ASSUME NEW method \in Methods, ClearFault(method)
      PROVE  MotorTypeOK'
  BY <1>2, OutcomeType DEF ClearFault
<1>3. ASSUME NEW method \in Methods, GetEnableState(method)
      PROVE  MotorTypeOK'
  BY <1>3, OutcomeType DEF GetEnableState
<1>4. ASSUME NEW method \in Methods, SetState(method)
      PROVE  MotorTypeOK'
  BY <1>4, OutcomeType DEF SetState, Attempt
<1>5. CASE CloseDevice
  BY <1>5, OutcomeType DEF CloseDevice, Attempt
<1>6. CASE CloseAllDevices
  BY <1>6, OutcomeType DEF CloseAllDevices, Attempt
<1>7. CASE OpenDevice
  BY <1>7, OutcomeType DEF OpenDevice
<1>8. CASE SetProtocolStackSettings
  BY <1>8, OutcomeType DEF SetProtocolStackSettings
<1>9. CASE SetPosModeParameter
  BY <1>9, OutcomeType DEF SetPosModeParameter, Reported
<1>10. CASE EndOfInitialize
  BY <1>10, OutcomeType DEF EndOfInitialize, Reported
<1>11. CASE ReachedTarget
  BY <1>11, OutcomeType DEF ReachedTarget
<1>12. CASE GetPositionProfile
  <2>1. PICK speed \in Speeds :
          \/ /\ Succeeds(epos.open)
             /\ profile' = [velocity |-> 200 * speed, ramp |-> epos.profile.ramp]
          \/ /\ Fails(epos.open)
             /\ profile' = [velocity |-> 200 * speed, ramp |-> "garbage"]
    BY <1>12 DEF GetPositionProfile
  <2>2. epos.profile \in Profiles
    OBVIOUS
  <2>3. profile' \in Profiles /\ HistoryTypeOK'
    BY <2>1, <2>2, OutcomeType, SpeedProfile
  <2> QED
    BY <1>12, <2>3 DEF GetPositionProfile
<1>13. CASE SetPositionProfile
  BY <1>13, OutcomeType DEF SetPositionProfile, Reported
<1>14. ASSUME NEW caller \in Callers, ActivateProfilePositionMode(caller)
      PROVE  MotorTypeOK'
  BY <1>14, OutcomeType DEF ActivateProfilePositionMode
<1>15. ASSUME NEW caller \in Callers, MoveToPosition(caller)
      PROVE  MotorTypeOK'
  BY <1>15, OutcomeType DEF MoveToPosition, Attempt
<1>16. CASE KeyOfRound
  BY <1>16 DEF KeyOfRound
<1>17. CASE Halt
  BY <1>17, OutcomeType DEF Halt, Attempt
<1>18. CASE GetSupply
  BY <1>18, OutcomeType DEF GetSupply, Reported
<1>19. CASE ErrorNbr
  BY <1>19, OutcomeType DEF ErrorNbr, Initialize
<1>20. CASE RepairError
  BY <1>20 DEF RepairError, Initialize
<1>21. CASE EndOfRound
  BY <1>21 DEF EndOfRound
<1>22. CASE DeviceFault
  BY <1>22, TroubleType DEF DeviceFault
<1>23. CASE Unplug
  BY <1>23, TroubleType DEF Unplug
<1>24. CASE PlugIn
  BY <1>24 DEF PlugIn
<1>25. CASE Arrive
  BY <1>25 DEF Arrive
<1>26. CASE Sigterm
  BY <1>26 DEF Sigterm
<1>27. CASE UNCHANGED motorVars
  BY <1>27 DEF motorVars
<1> QED
  BY <1>1, <1>2, <1>3, <1>4, <1>5, <1>6, <1>7, <1>8, <1>9, <1>10, <1>11, <1>12, <1>13,
       <1>14, <1>15, <1>16, <1>17, <1>18, <1>19, <1>20, <1>21, <1>22, <1>23, <1>24,
       <1>25, <1>26, <1>27 DEF MotorNext, Program

\* A call that succeeds leaves the histories alone; one that fails on a device
\* that could do it spoils them.
LEMMA Outcome ==
  ASSUME MotorTypeOK, NEW possible
  PROVE  /\ Succeeds(possible) => possible /\ clean' = clean /\ failed' = failed
         /\ Fails(possible) => /\ clean' => clean /\ ~ possible
                               /\ ~ failed' => ~ failed /\ ~ possible
  BY DEF MotorTypeOK, Succeeds, Fails, historyVars

\* Open and clean only while plugged in.
LEMMA ConnectionStep ==
  ASSUME MotorTypeOK, ConnectionInv, [MotorNext]_motorVars
  PROVE  ConnectionInv'
<1> USE AtIsAPair DEF ConnectionInv, MotorTypeOK, programVars, stateVars, historyVars, Epos
<1>1. ASSUME NEW method \in Methods, GetFaultState(method)
      PROVE  ConnectionInv'
  BY <1>1 DEF GetFaultState, Succeeds, Fails
<1>2. ASSUME NEW method \in Methods, ClearFault(method)
      PROVE  ConnectionInv'
  BY <1>2 DEF ClearFault, Succeeds, Fails
<1>3. ASSUME NEW method \in Methods, GetEnableState(method)
      PROVE  ConnectionInv'
  BY <1>3 DEF GetEnableState, Succeeds, Fails
<1>4. ASSUME NEW method \in Methods, SetState(method)
      PROVE  ConnectionInv'
  BY <1>4 DEF SetState, Attempt, Succeeds, Fails
<1>5. CASE CloseDevice
  BY <1>5 DEF CloseDevice, Attempt, Succeeds, Fails
<1>6. CASE CloseAllDevices
  BY <1>6 DEF CloseAllDevices, Attempt, Succeeds, Fails
<1>7. CASE OpenDevice
  BY <1>7 DEF OpenDevice, Fails
<1>8. CASE SetProtocolStackSettings
  BY <1>8 DEF SetProtocolStackSettings, Succeeds, Fails
<1>9. CASE SetPosModeParameter
  BY <1>9 DEF SetPosModeParameter, Reported, Succeeds, Fails
<1>10. CASE EndOfInitialize
  BY <1>10 DEF EndOfInitialize, Reported, Succeeds, Fails
<1>11. CASE ReachedTarget
  BY <1>11 DEF ReachedTarget, Succeeds, Fails
<1>12. CASE GetPositionProfile
  BY <1>12 DEF GetPositionProfile, Succeeds, Fails
<1>13. CASE SetPositionProfile
  BY <1>13 DEF SetPositionProfile, Reported, Succeeds, Fails
<1>14. ASSUME NEW caller \in Callers, ActivateProfilePositionMode(caller)
      PROVE  ConnectionInv'
  BY <1>14 DEF ActivateProfilePositionMode, Succeeds, Fails
<1>15. ASSUME NEW caller \in Callers, MoveToPosition(caller)
      PROVE  ConnectionInv'
  BY <1>15 DEF MoveToPosition, Attempt, Succeeds, Fails
<1>16. CASE KeyOfRound
  BY <1>16 DEF KeyOfRound
<1>17. CASE Halt
  BY <1>17 DEF Halt, Attempt, Succeeds, Fails
<1>18. CASE GetSupply
  BY <1>18 DEF GetSupply, Reported, Succeeds, Fails
<1>19. CASE ErrorNbr
  BY <1>19 DEF ErrorNbr, Initialize, Succeeds, Fails
<1>20. CASE RepairError
  BY <1>20 DEF RepairError, Initialize
<1>21. CASE EndOfRound
  BY <1>21 DEF EndOfRound
<1>22. CASE DeviceFault
  BY <1>22 DEF DeviceFault, Trouble
<1>23. CASE Unplug
  BY <1>23 DEF Unplug, Trouble
<1>24. CASE PlugIn
  BY <1>24 DEF PlugIn
<1>25. CASE Arrive
  BY <1>25 DEF Arrive
<1>26. CASE Sigterm
  BY <1>26 DEF Sigterm
<1>27. CASE UNCHANGED motorVars
  BY <1>27 DEF motorVars
<1> QED
  BY <1>1, <1>2, <1>3, <1>4, <1>5, <1>6, <1>7, <1>8, <1>9, <1>10, <1>11, <1>12, <1>13,
       <1>14, <1>15, <1>16, <1>17, <1>18, <1>19, <1>20, <1>21, <1>22, <1>23, <1>24,
       <1>25, <1>26, <1>27 DEF MotorNext, Program

\* closeDevice returns to where it was called.
LEMMA ReturnStep ==
  ASSUME MotorTypeOK, ConnectionInv, ReturnInv, ReadyInv, [MotorNext]_motorVars
  PROVE  ReturnInv'
<1> USE AtIsAPair DEF ReturnInv, MotorTypeOK, Goto, programVars, stateVars, historyVars,
      Epos, Profiles, DisableFirst, EnableFirst, Round, Ended, AfterMethod, AfterMove,
      Methods, Callers
<1>1. ASSUME NEW method \in Methods, GetFaultState(method)
      PROVE  ReturnInv'
  BY <1>1 DEF GetFaultState, Succeeds, Fails
<1>2. ASSUME NEW method \in Methods, ClearFault(method)
      PROVE  ReturnInv'
  BY <1>2 DEF ClearFault, Succeeds, Fails
<1>3. ASSUME NEW method \in Methods, GetEnableState(method)
      PROVE  ReturnInv'
  BY <1>3 DEF GetEnableState, Succeeds, Fails
<1>4. ASSUME NEW method \in Methods, SetState(method)
      PROVE  ReturnInv'
  BY <1>4 DEF SetState, Attempt, Succeeds, Fails
<1>5. CASE CloseDevice
  BY <1>5 DEF CloseDevice, Attempt, Succeeds, Fails
<1>6. CASE CloseAllDevices
  BY <1>6 DEF CloseAllDevices, Attempt, Succeeds, Fails
<1>7. CASE OpenDevice
  BY <1>7 DEF OpenDevice, Fails, ConnectionInv
<1>8. CASE SetProtocolStackSettings
  BY <1>8 DEF SetProtocolStackSettings, Succeeds, Fails, ReadyInv
<1>9. CASE SetPosModeParameter
  BY <1>9 DEF SetPosModeParameter, Reported, Succeeds, Fails
<1>10. CASE EndOfInitialize
  BY <1>10 DEF EndOfInitialize, Reported, Succeeds, Fails
<1>11. CASE ReachedTarget
  BY <1>11 DEF ReachedTarget, Succeeds, Fails
<1>12. CASE GetPositionProfile
  BY <1>12 DEF GetPositionProfile, Succeeds, Fails
<1>13. CASE SetPositionProfile
  BY <1>13 DEF SetPositionProfile, Reported, Succeeds, Fails
<1>14. ASSUME NEW caller \in Callers, ActivateProfilePositionMode(caller)
      PROVE  ReturnInv'
  BY <1>14 DEF ActivateProfilePositionMode, Succeeds, Fails
<1>15. ASSUME NEW caller \in Callers, MoveToPosition(caller)
      PROVE  ReturnInv'
  BY <1>15 DEF MoveToPosition, Attempt, Succeeds, Fails
<1>16. CASE KeyOfRound
  BY <1>16 DEF KeyOfRound
<1>17. CASE Halt
  BY <1>17 DEF Halt, Attempt, Succeeds, Fails
<1>18. CASE GetSupply
  BY <1>18 DEF GetSupply, Reported, Succeeds, Fails
<1>19. CASE ErrorNbr
  BY <1>19 DEF ErrorNbr, Initialize, Succeeds, Fails
<1>20. CASE RepairError
  BY <1>20 DEF RepairError, Initialize
<1>21. CASE EndOfRound
  BY <1>21 DEF EndOfRound
<1>22. CASE DeviceFault
  BY <1>22 DEF DeviceFault, Trouble
<1>23. CASE Unplug
  BY <1>23 DEF Unplug, Trouble
<1>24. CASE PlugIn
  BY <1>24 DEF PlugIn
<1>25. CASE Arrive
  BY <1>25 DEF Arrive
<1>26. CASE Sigterm
  BY <1>26 DEF Sigterm
<1>27. CASE UNCHANGED motorVars
  BY <1>27 DEF motorVars
<1> QED
  BY <1>1, <1>2, <1>3, <1>4, <1>5, <1>6, <1>7, <1>8, <1>9, <1>10, <1>11, <1>12, <1>13,
       <1>14, <1>15, <1>16, <1>17, <1>18, <1>19, <1>20, <1>21, <1>22, <1>23, <1>24,
       <1>25, <1>26, <1>27 DEF MotorNext, Program

\* ReadyInv, point by point.
LEMMA ReadyWhen ==
  ASSUME clean' =>
    \/ \E call, method : /\ pc' = At(call, method)
                         /\ method \notin {"activate_device", "EnableDevice", "SetPosModeParameter"}
    \/ pc' = At("OpenDevice", "activate_device")
    \/ pc' = At("SetProtocolStackSettings", "activate_device") /\ (epos.open)'
    \/ pc' = At("GetFaultState", "EnableDevice") /\ (epos.open)'
    \/ pc' = At("ClearFault", "EnableDevice") /\ (epos.open)'
    \/ pc' = At("GetEnableState", "EnableDevice") /\ (epos.open /\ ~ epos.fault)'
    \/ pc' = At("SetState", "EnableDevice") /\ (epos.open /\ ~ epos.fault)'
    \/ /\ pc' = At("SetPositionProfile", "SetPosModeParameter")
       /\ (epos.open /\ epos.enabled /\ ~ epos.fault)'
    \/ pc' = At("SetDcMotorParameter", "SetPosModeParameter") /\ Ready'
  PROVE ReadyInv'
<1> SUFFICES ASSUME clean' PROVE ReadyInv'
  BY DEF ReadyInv
<1>1. ASSUME NEW call, NEW method, pc' = At(call, method),
             method \notin {"activate_device", "EnableDevice", "SetPosModeParameter"}
      PROVE  ReadyInv'
  BY <1>1, AtIsAPair DEF ReadyInv
<1>2. CASE pc' = At("OpenDevice", "activate_device")
  BY <1>2, AtIsAPair DEF ReadyInv
<1>3. CASE pc' = At("SetProtocolStackSettings", "activate_device") /\ (epos.open)'
  BY <1>3, AtIsAPair DEF ReadyInv
<1>4. CASE /\ \/ pc' = At("GetFaultState", "EnableDevice")
              \/ pc' = At("ClearFault", "EnableDevice")
           /\ (epos.open)'
  BY <1>4, AtIsAPair DEF ReadyInv
<1>5. CASE /\ \/ pc' = At("GetEnableState", "EnableDevice")
              \/ pc' = At("SetState", "EnableDevice")
           /\ (epos.open /\ ~ epos.fault)'
  BY <1>5, AtIsAPair DEF ReadyInv
<1>6. CASE /\ pc' = At("SetPositionProfile", "SetPosModeParameter")
           /\ (epos.open /\ epos.enabled /\ ~ epos.fault)'
  BY <1>6, AtIsAPair DEF ReadyInv
<1>7. CASE pc' = At("SetDcMotorParameter", "SetPosModeParameter") /\ Ready'
  BY <1>7, AtIsAPair DEF ReadyInv
<1> QED
  BY <1>1, <1>2, <1>3, <1>4, <1>5, <1>6, <1>7

\* On the way through initializeDevice.
LEMMA ReadyStep ==
  ASSUME MotorTypeOK, ConnectionInv, ReturnInv, ReadyInv, [MotorNext]_motorVars
  PROVE  ReadyInv'
<1> USE AtIsAPair DEF ReadyInv, Ready, MotorTypeOK, Goto, programVars, stateVars,
      historyVars, Epos, Profiles, DisableFirst, EnableFirst, Round, Ended, AfterMethod,
      AfterMove, Methods, Callers
<1>1. ASSUME NEW method \in Methods, GetFaultState(method)
      PROVE  ReadyInv'
  <2>1. CASE method = "DisableDevice"
    <3>1. \E call : pc' = At(call, "DisableDevice") \/ pc' = At(call, "closeDevice")
      BY <1>1, <2>1 DEF GetFaultState, Goto, AfterMethod
    <3> QED
      BY <3>1, ReadyWhen
  <2>2. CASE method = "EnableDevice"
    <3> HIDE DEF MotorTypeOK, Epos, Methods, ReadyInv, Ready
    <3>1. clean => epos.open
      BY <1>1, <2>2, AtIsAPair DEF GetFaultState, ReadyInv
    <3>2. clean' => clean /\ pc' = At(IF epos.fault THEN "ClearFault" ELSE "GetEnableState", "EnableDevice")
      BY <1>1, <2>2, <3>1, Outcome DEF GetFaultState, Goto
    <3>3. epos' = epos
      BY <1>1 DEF GetFaultState
    <3> QED
      BY <3>1, <3>2, <3>3, ReadyWhen
  <2> QED
    BY <2>1, <2>2 DEF Methods
<1>2. ASSUME NEW method \in Methods, ClearFault(method)
      PROVE  ReadyInv'
  <2>1. CASE method = "DisableDevice"
    <3>1. \E call : pc' = At(call, "DisableDevice") \/ pc' = At(call, "closeDevice")
      BY <1>2, <2>1 DEF ClearFault, Goto, AfterMethod
    <3> QED
      BY <3>1, ReadyWhen
  <2>2. CASE method = "EnableDevice"
    <3> HIDE DEF MotorTypeOK, Epos, Methods, ReadyInv, Ready
    <3>1. clean => epos.open
      BY <1>2, <2>2, AtIsAPair DEF ClearFault, ReadyInv
    <3>2. clean' => /\ clean /\ epos' = [epos EXCEPT !.fault = FALSE]
                    /\ pc' = At("GetEnableState", "EnableDevice")
      BY <1>2, <2>2, <3>1, Outcome DEF ClearFault, Goto
    <3>3. epos' = [epos EXCEPT !.fault = FALSE] =>
            epos'.open = epos.open /\ ~ epos'.fault
      BY DEF MotorTypeOK, Epos
    <3> QED
      BY <3>1, <3>2, <3>3, ReadyWhen
  <2> QED
    BY <2>1, <2>2 DEF Methods
<1>3. ASSUME NEW method \in Methods, GetEnableState(method)
      PROVE  ReadyInv'
  <2>1. CASE method = "DisableDevice"
    <3>1. \E call : pc' = At(call, "DisableDevice") \/ pc' = At(call, "closeDevice")
      BY <1>3, <2>1 DEF GetEnableState, Goto, AfterMethod
    <3> QED
      BY <3>1, ReadyWhen
  <2>2. CASE method = "EnableDevice"
    <3> HIDE DEF MotorTypeOK, Epos, Methods, ReadyInv, Ready
    <3>1. clean => epos.open /\ ~ epos.fault
      BY <1>3, <2>2, AtIsAPair DEF GetEnableState, ReadyInv
    <3>2. clean' => /\ clean
                    /\ \/ pc' = At("SetState", "EnableDevice")
                       \/ epos.enabled /\ pc' = At("SetPositionProfile", "SetPosModeParameter")
      BY <1>3, <2>2, <3>1, Outcome DEF GetEnableState, Goto, AfterMethod, MotorTypeOK, Epos
    <3>3. epos' = epos
      BY <1>3 DEF GetEnableState
    <3> QED
      BY <3>1, <3>2, <3>3, ReadyWhen
  <2> QED
    BY <2>1, <2>2 DEF Methods
<1>4. ASSUME NEW method \in Methods, SetState(method)
      PROVE  ReadyInv'
  <2>1. CASE method = "DisableDevice"
    <3>1. \E call : pc' = At(call, "DisableDevice") \/ pc' = At(call, "closeDevice")
      BY <1>4, <2>1 DEF SetState, Goto, AfterMethod
    <3> QED
      BY <3>1, ReadyWhen
  <2>2. CASE method = "EnableDevice"
    <3> HIDE DEF MotorTypeOK, Epos, Methods, ReadyInv, Ready
    <3>1. clean => epos.open /\ ~ epos.fault
      BY <1>4, <2>2, AtIsAPair DEF SetState, ReadyInv
    <3>2. pc' = At("SetPositionProfile", "SetPosModeParameter")
      BY <1>4, <2>2 DEF SetState, Goto, AfterMethod
    <3>3. Attempt(epos.open /\ ~ epos.fault, [epos EXCEPT !.enabled = TRUE])
      BY <1>4, <2>2 DEF SetState
    <3>4. clean' => clean /\ epos' = [epos EXCEPT !.enabled = TRUE]
      BY <3>1, <3>3, Outcome DEF Attempt
    <3>5. epos' = [epos EXCEPT !.enabled = TRUE] =>
            epos'.open = epos.open /\ epos'.enabled /\ epos'.fault = epos.fault
      BY DEF MotorTypeOK, Epos
    <3>6. clean' => (epos.open /\ epos.enabled /\ ~ epos.fault)'
      BY <3>1, <3>4, <3>5
    <3> QED
      BY <3>2, <3>6, ReadyWhen
  <2> QED
    BY <2>1, <2>2 DEF Methods
<1>5. CASE CloseDevice
  BY <1>5 DEF CloseDevice, Attempt, Succeeds, Fails
<1>6. CASE CloseAllDevices
  <2>1. (clean' => clean) /\ pc' = closeThen
    BY <1>6, Outcome DEF CloseAllDevices, Goto, Attempt
  <2>2. clean' => \/ pc' = At("OpenDevice", "activate_device")
                  \/ pc' = At("delete", "main")
    BY <2>1 DEF ReturnInv
  <2> QED
    BY <2>2, ReadyWhen
<1>7. CASE OpenDevice
  <2>1. pc' = At("SetProtocolStackSettings", "activate_device")
    BY <1>7 DEF OpenDevice
  <2>2. clean' => (epos.open)'
    BY <1>7, Outcome DEF OpenDevice, ConnectionInv
  <2> QED
    BY <2>1, <2>2, ReadyWhen
<1>8. CASE SetProtocolStackSettings
  <2>1. clean => epos.open
    BY <1>8 DEF SetProtocolStackSettings
  <2>2. clean' => clean /\ pc' = EnableFirst /\ epos' = epos
    BY <1>8, <2>1, Outcome DEF SetProtocolStackSettings
  <2> QED
    BY <2>1, <2>2, ReadyWhen
<1>9. CASE SetPosModeParameter
  <2>1. clean => epos.open /\ epos.enabled /\ ~ epos.fault
    BY <1>9 DEF SetPosModeParameter
  <2>2. clean' => Ready'
    <3> HIDE DEF MotorTypeOK, Epos, Ready, ReadyInv
    <3> DEFINE standard == [velocity |-> StandardVelocity, ramp |-> "1000/2000"]
    <3>1. clean' => clean /\ epos' = [epos EXCEPT !.profile = standard]
      BY <1>9, <2>1, Outcome DEF SetPosModeParameter, Reported
    <3> HIDE DEF standard
    <3>2. epos' = [epos EXCEPT !.profile = standard] =>
            /\ epos'.open = epos.open /\ epos'.enabled = epos.enabled
            /\ epos'.fault = epos.fault /\ epos'.profile = standard
      BY DEF MotorTypeOK, Epos
    <3> QED
      BY <2>1, <3>1, <3>2 DEF Ready, standard
  <2>3. pc' = At("SetDcMotorParameter", "SetPosModeParameter")
    BY <1>9 DEF SetPosModeParameter
  <2> QED
    BY <2>2, <2>3, ReadyWhen
<1>10. CASE EndOfInitialize
  BY <1>10 DEF EndOfInitialize, Reported, Succeeds, Fails
<1>11. CASE ReachedTarget
  <2>1. \E call, m : pc' = At(call, m)
                      /\ m \notin {"activate_device", "EnableDevice", "SetPosModeParameter"}
    BY <1>11 DEF ReachedTarget, Goto
  <2> QED
    BY <2>1, ReadyWhen
<1>12. CASE GetPositionProfile
  BY <1>12 DEF GetPositionProfile, Succeeds, Fails
<1>13. CASE SetPositionProfile
  BY <1>13 DEF SetPositionProfile, Reported, Succeeds, Fails
<1>14. ASSUME NEW caller \in Callers, ActivateProfilePositionMode(caller)
      PROVE  ReadyInv'
  <2>1. \E call, m : pc' = At(call, m)
                      /\ m \notin {"activate_device", "EnableDevice", "SetPosModeParameter"}
    BY <1>14 DEF ActivateProfilePositionMode, Goto, AfterMove, Callers
  <2> QED
    BY <2>1, ReadyWhen
<1>15. ASSUME NEW caller \in Callers, MoveToPosition(caller)
      PROVE  ReadyInv'
  BY <1>15 DEF MoveToPosition, Attempt, Succeeds, Fails
<1>16. CASE KeyOfRound
  BY <1>16 DEF KeyOfRound
<1>17. CASE Halt
  BY <1>17 DEF Halt, Attempt, Succeeds, Fails
<1>18. CASE GetSupply
  BY <1>18 DEF GetSupply, Reported, Succeeds, Fails
<1>19. CASE ErrorNbr
  BY <1>19 DEF ErrorNbr, Initialize, Succeeds, Fails
<1>20. CASE RepairError
  BY <1>20 DEF RepairError, Initialize
<1>21. CASE EndOfRound
  <2>1. \E call, m : pc' = At(call, m)
                      /\ m \notin {"activate_device", "EnableDevice", "SetPosModeParameter"}
    BY <1>21 DEF EndOfRound, Goto, Round, DisableFirst
  <2> QED
    BY <2>1, ReadyWhen
<1>22. CASE DeviceFault
  BY <1>22 DEF DeviceFault, Trouble
<1>23. CASE Unplug
  BY <1>23 DEF Unplug, Trouble
<1>24. CASE PlugIn
  BY <1>24 DEF PlugIn
<1>25. CASE Arrive
  BY <1>25 DEF Arrive
<1>26. CASE Sigterm
  BY <1>26 DEF Sigterm
<1>27. CASE UNCHANGED motorVars
  BY <1>27 DEF motorVars
<1> QED
  BY <1>1, <1>2, <1>3, <1>4, <1>5, <1>6, <1>7, <1>8, <1>9, <1>10, <1>11, <1>12, <1>13,
       <1>14, <1>15, <1>16, <1>17, <1>18, <1>19, <1>20, <1>21, <1>22, <1>23, <1>24,
       <1>25, <1>26, <1>27 DEF MotorNext, Program

\* EndInv, point by point.
LEMMA EndWhen ==
  ASSUME clean' /\ closeThen' = Ended =>
    \/ \E call : pc' = At(call, "DisableDevice") /\ (epos.open)'
    \/ \E call : pc' = At(call, "closeDevice") /\ ~ (epos.enabled)'
    \/ pc' = Ended /\ ~ (epos.open)' /\ ~ (epos.enabled)'
  PROVE EndInv'
  BY AtIsAPair DEF EndInv, Ended

\* On the way to the end of the program.
LEMMA EndStep ==
  ASSUME MotorTypeOK, ConnectionInv, ReturnInv, EndInv, [MotorNext]_motorVars
  PROVE  EndInv'
<1> USE AtIsAPair DEF ReturnInv, EndInv, MotorTypeOK, Goto, programVars, stateVars,
      historyVars, Epos, Profiles, DisableFirst, EnableFirst, Round, Ended, AfterMethod,
      AfterMove, Methods, Callers
<1>1. ASSUME NEW method \in Methods, GetFaultState(method)
      PROVE  EndInv'
  <2>1. CASE method = "EnableDevice"
    <3>1. closeThen' # Ended
      BY <1>1, <2>1 DEF GetFaultState
    <3> QED
      BY <3>1, EndWhen
  <2>2. CASE method = "DisableDevice"
    <3> HIDE DEF MotorTypeOK, Epos, Methods, EndInv, ReturnInv
    <3> SUFFICES ASSUME clean', closeThen' = Ended PROVE EndInv'
      BY DEF EndInv
    <3>1. clean /\ closeThen = Ended
      BY <1>1, Outcome DEF GetFaultState
    <3>2. epos.open
      BY <1>1, <2>2, <3>1, AtIsAPair DEF GetFaultState, EndInv
    <3>3. clean' => \/ pc' = At("ClearFault", "DisableDevice")
                    \/ pc' = At("GetEnableState", "DisableDevice")
      BY <1>1, <2>2, <3>2, Outcome DEF GetFaultState, Goto
    <3>4. epos' = epos
      BY <1>1, <2>2, <3>2, Outcome DEF GetFaultState
    <3> QED
      BY <3>2, <3>3, <3>4, EndWhen
  <2> QED
    BY <2>1, <2>2 DEF Methods
<1>2. ASSUME NEW method \in Methods, ClearFault(method)
      PROVE  EndInv'
  <2>1. CASE method = "EnableDevice"
    <3>1. closeThen' # Ended
      BY <1>2, <2>1 DEF ClearFault
    <3> QED
      BY <3>1, EndWhen
  <2>2. CASE method = "DisableDevice"
    <3> HIDE DEF MotorTypeOK, Epos, Methods, EndInv, ReturnInv
    <3> SUFFICES ASSUME clean', closeThen' = Ended PROVE EndInv'
      BY DEF EndInv
    <3>1. clean /\ closeThen = Ended
      BY <1>2, Outcome DEF ClearFault
    <3>2. epos.open
      BY <1>2, <2>2, <3>1, AtIsAPair DEF ClearFault, EndInv
    <3>3. clean' => pc' = At("GetEnableState", "DisableDevice")
      BY <1>2, <2>2, <3>2, Outcome DEF ClearFault, Goto
    <3>4. clean' => epos' = [epos EXCEPT !.fault = FALSE]
      BY <1>2, <2>2, <3>2, Outcome DEF ClearFault
    <3>5. epos' = [epos EXCEPT !.fault = FALSE] => epos'.open = epos.open
      BY DEF MotorTypeOK, Epos
    <3> QED
      BY <3>2, <3>3, <3>4, <3>5, EndWhen
  <2> QED
    BY <2>1, <2>2 DEF Methods
<1>3. ASSUME NEW method \in Methods, GetEnableState(method)
      PROVE  EndInv'
  <2>1. CASE method = "EnableDevice"
    <3>1. closeThen' # Ended
      BY <1>3, <2>1 DEF GetEnableState
    <3> QED
      BY <3>1, EndWhen
  <2>2. CASE method = "DisableDevice"
    <3> HIDE DEF MotorTypeOK, Epos, Methods, EndInv, ReturnInv
    <3> SUFFICES ASSUME clean', closeThen' = Ended PROVE EndInv'
      BY DEF EndInv
    <3>1. clean /\ closeThen = Ended
      BY <1>3, Outcome DEF GetEnableState
    <3>2. epos.open
      BY <1>3, <2>2, <3>1, AtIsAPair DEF GetEnableState, EndInv
    <3>3. clean' => \/ pc' = At("SetState", "DisableDevice")
                    \/ pc' = At("CloseDevice", "closeDevice") /\ ~ epos.enabled
      <4>1. epos.enabled \in BOOLEAN
        BY DEF MotorTypeOK, Epos
      <4>2. Fails(epos.open) => ~ clean'
        BY <3>2, Outcome
      <4>3. CASE epos.enabled = TRUE
        BY <1>3, <2>2, <4>2, <4>3 DEF GetEnableState, Goto
      <4>4. CASE epos.enabled = FALSE
        BY <1>3, <2>2, <4>2, <4>4 DEF GetEnableState, Goto, AfterMethod
      <4> QED
        BY <4>1, <4>3, <4>4
    <3>4. epos' = epos
      BY <1>3, <2>2, <3>2, Outcome DEF GetEnableState
    <3> QED
      BY <3>2, <3>3, <3>4, EndWhen
  <2> QED
    BY <2>1, <2>2 DEF Methods
<1>4. ASSUME NEW method \in Methods, SetState(method)
      PROVE  EndInv'
  <2>1. CASE method = "EnableDevice"
    <3>1. closeThen' # Ended
      BY <1>4, <2>1 DEF SetState
    <3> QED
      BY <3>1, EndWhen
  <2>2. CASE method = "DisableDevice"
    <3> HIDE DEF MotorTypeOK, Epos, Methods, EndInv, ReturnInv
    <3> SUFFICES ASSUME clean', closeThen' = Ended PROVE EndInv'
      BY DEF EndInv
    <3>1. clean /\ closeThen = Ended
      BY <1>4, Outcome DEF SetState, Attempt
    <3>2. epos.open
      BY <1>4, <2>2, <3>1, AtIsAPair DEF SetState, EndInv
    <3>3. clean' => pc' = At("CloseDevice", "closeDevice")
      BY <1>4, <2>2, <3>2, Outcome DEF SetState, Goto, Attempt, AfterMethod
    <3>4. clean' => epos' = [epos EXCEPT !.enabled = FALSE, !.moving = FALSE]
      BY <1>4, <2>2, <3>2, Outcome DEF SetState, Attempt
    <3>5. epos' = [epos EXCEPT !.enabled = FALSE, !.moving = FALSE] => ~ epos'.enabled
      BY DEF MotorTypeOK, Epos
    <3> QED
      BY <3>2, <3>3, <3>4, <3>5, EndWhen
  <2> QED
    BY <2>1, <2>2 DEF Methods
<1>5. CASE CloseDevice
  <2> HIDE DEF MotorTypeOK, Epos, EndInv, ReturnInv
  <2>1. /\ clean' /\ closeThen' = Ended => clean /\ closeThen = Ended
        /\ pc' = At("CloseAllDevices", "closeDevice")
    BY <1>5, Outcome DEF CloseDevice, Attempt
  <2>2. clean /\ closeThen = Ended => ~ epos.enabled
    BY <1>5 DEF CloseDevice, EndInv
  <2>3. epos' = epos \/ epos' = [epos EXCEPT !.open = FALSE]
    BY <1>5 DEF CloseDevice, Attempt
  <2>4. epos'.enabled = epos.enabled
    BY <2>3 DEF MotorTypeOK, Epos
  <2> QED
    BY <2>1, <2>2, <2>4, EndWhen
<1>6. CASE CloseAllDevices
  <2> HIDE DEF MotorTypeOK, Epos, EndInv, ReturnInv
  <2> SUFFICES ASSUME clean', closeThen' = Ended PROVE EndInv'
    BY DEF EndInv
  <2>1. clean /\ closeThen = Ended /\ pc' = Ended
    BY <1>6, Outcome DEF CloseAllDevices, Attempt
  <2>2. ~ epos.enabled
    BY <1>6, <2>1 DEF CloseAllDevices, EndInv
  <2>3. \/ epos' = [epos EXCEPT !.open = FALSE]
        \/ epos' = epos /\ ~ epos.open
    BY <1>6, Outcome DEF CloseAllDevices, Attempt
  <2>4. ~ epos'.open /\ epos'.enabled = epos.enabled
    BY <2>3 DEF MotorTypeOK, Epos
  <2> QED
    BY <2>1, <2>2, <2>4, EndWhen
<1>7. CASE OpenDevice
  BY <1>7 DEF OpenDevice, Fails
<1>8. CASE SetProtocolStackSettings
  <2>1. closeThen # Ended
    BY <1>8 DEF SetProtocolStackSettings
  <2>2. closeThen' # Ended
    BY <1>8, <2>1 DEF SetProtocolStackSettings
  <2> QED
    BY <2>2, EndWhen
<1>9. CASE SetPosModeParameter
  BY <1>9 DEF SetPosModeParameter, Reported, Succeeds, Fails
<1>10. CASE EndOfInitialize
  BY <1>10 DEF EndOfInitialize, Reported, Succeeds, Fails
<1>11. CASE ReachedTarget
  BY <1>11 DEF ReachedTarget, Succeeds, Fails
<1>12. CASE GetPositionProfile
  BY <1>12 DEF GetPositionProfile, Succeeds, Fails
<1>13. CASE SetPositionProfile
  BY <1>13 DEF SetPositionProfile, Reported, Succeeds, Fails
<1>14. ASSUME NEW caller \in Callers, ActivateProfilePositionMode(caller)
      PROVE  EndInv'
  BY <1>14 DEF ActivateProfilePositionMode, Succeeds, Fails
<1>15. ASSUME NEW caller \in Callers, MoveToPosition(caller)
      PROVE  EndInv'
  BY <1>15 DEF MoveToPosition, Attempt, Succeeds, Fails
<1>16. CASE KeyOfRound
  BY <1>16 DEF KeyOfRound
<1>17. CASE Halt
  BY <1>17 DEF Halt, Attempt, Succeeds, Fails
<1>18. CASE GetSupply
  BY <1>18 DEF GetSupply, Reported, Succeeds, Fails
<1>19. CASE ErrorNbr
  BY <1>19 DEF ErrorNbr, Initialize, Succeeds, Fails
<1>20. CASE RepairError
  BY <1>20 DEF RepairError, Initialize
<1>21. CASE EndOfRound
  <2> HIDE DEF MotorTypeOK, Epos, EndInv
  <2>1. closeThen # Ended
    BY <1>21 DEF EndOfRound
  <2>2. closeThen' = Ended /\ clean' =>
          pc' = At("GetFaultState", "DisableDevice") /\ epos' = epos /\ epos.open
    BY <1>21, <2>1 DEF EndOfRound
  <2> QED
    BY <2>2, EndWhen
<1>22. CASE DeviceFault
  BY <1>22 DEF DeviceFault, Trouble
<1>23. CASE Unplug
  BY <1>23 DEF Unplug, Trouble
<1>24. CASE PlugIn
  BY <1>24 DEF PlugIn
<1>25. CASE Arrive
  BY <1>25 DEF Arrive
<1>26. CASE Sigterm
  BY <1>26 DEF Sigterm
<1>27. CASE UNCHANGED motorVars
  BY <1>27 DEF motorVars
<1> QED
  BY <1>1, <1>2, <1>3, <1>4, <1>5, <1>6, <1>7, <1>8, <1>9, <1>10, <1>11, <1>12, <1>13,
       <1>14, <1>15, <1>16, <1>17, <1>18, <1>19, <1>20, <1>21, <1>22, <1>23, <1>24,
       <1>25, <1>26, <1>27 DEF MotorNext, Program

\* Without a call that failed, a controller that is open has the ramp it was given.
LEMMA RampStep ==
  ASSUME MotorTypeOK, RampInv, [MotorNext]_motorVars
  PROVE  RampInv'
<1> USE AtIsAPair DEF RampInv, MotorTypeOK, Goto, programVars, stateVars, historyVars,
      Epos, Profiles, DisableFirst, EnableFirst, Round, Ended, AfterMethod, AfterMove,
      Methods, Callers
<1>1. ASSUME NEW method \in Methods, GetFaultState(method)
      PROVE  RampInv'
  BY <1>1 DEF GetFaultState, Succeeds, Fails
<1>2. ASSUME NEW method \in Methods, ClearFault(method)
      PROVE  RampInv'
  BY <1>2 DEF ClearFault, Succeeds, Fails
<1>3. ASSUME NEW method \in Methods, GetEnableState(method)
      PROVE  RampInv'
  BY <1>3 DEF GetEnableState, Succeeds, Fails
<1>4. ASSUME NEW method \in Methods, SetState(method)
      PROVE  RampInv'
  BY <1>4 DEF SetState, Attempt, Succeeds, Fails
<1>5. CASE CloseDevice
  BY <1>5 DEF CloseDevice, Attempt, Succeeds, Fails
<1>6. CASE CloseAllDevices
  BY <1>6 DEF CloseAllDevices, Attempt, Succeeds, Fails
<1>7. CASE OpenDevice
  BY <1>7 DEF OpenDevice, Fails
<1>8. CASE SetProtocolStackSettings
  BY <1>8 DEF SetProtocolStackSettings, Succeeds, Fails
<1>9. CASE SetPosModeParameter
  BY <1>9 DEF SetPosModeParameter, Reported, Succeeds, Fails
<1>10. CASE EndOfInitialize
  BY <1>10 DEF EndOfInitialize, Reported, Succeeds, Fails
<1>11. CASE ReachedTarget
  BY <1>11 DEF ReachedTarget, Succeeds, Fails
<1>12. CASE GetPositionProfile
  BY <1>12 DEF GetPositionProfile, Succeeds, Fails
<1>13. CASE SetPositionProfile
  BY <1>13 DEF SetPositionProfile, Reported, Succeeds, Fails
<1>14. ASSUME NEW caller \in Callers, ActivateProfilePositionMode(caller)
      PROVE  RampInv'
  BY <1>14 DEF ActivateProfilePositionMode, Succeeds, Fails
<1>15. ASSUME NEW caller \in Callers, MoveToPosition(caller)
      PROVE  RampInv'
  BY <1>15 DEF MoveToPosition, Attempt, Succeeds, Fails
<1>16. CASE KeyOfRound
  BY <1>16 DEF KeyOfRound
<1>17. CASE Halt
  BY <1>17 DEF Halt, Attempt, Succeeds, Fails
<1>18. CASE GetSupply
  BY <1>18 DEF GetSupply, Reported, Succeeds, Fails
<1>19. CASE ErrorNbr
  BY <1>19 DEF ErrorNbr, Initialize, Succeeds, Fails
<1>20. CASE RepairError
  BY <1>20 DEF RepairError, Initialize
<1>21. CASE EndOfRound
  <2>1. epos' = epos /\ profile' = profile /\ failed' = failed
    BY <1>21 DEF EndOfRound
  <2>2. pc' = At("GetMovementState", "TimerFunc") \/ pc' = At("GetFaultState", "DisableDevice")
    BY <1>21 DEF EndOfRound
  <2>3. pc[2] = "main"
    BY <1>21 DEF EndOfRound
  <2> HIDE DEF MotorTypeOK, Epos
  <2> QED
    BY <2>1, <2>2, <2>3
<1>22. CASE DeviceFault
  BY <1>22 DEF DeviceFault, Trouble
<1>23. CASE Unplug
  BY <1>23 DEF Unplug, Trouble
<1>24. CASE PlugIn
  BY <1>24 DEF PlugIn
<1>25. CASE Arrive
  BY <1>25 DEF Arrive
<1>26. CASE Sigterm
  BY <1>26 DEF Sigterm
<1>27. CASE UNCHANGED motorVars
  BY <1>27 DEF motorVars
<1> QED
  BY <1>1, <1>2, <1>3, <1>4, <1>5, <1>6, <1>7, <1>8, <1>9, <1>10, <1>11, <1>12, <1>13,
       <1>14, <1>15, <1>16, <1>17, <1>18, <1>19, <1>20, <1>21, <1>22, <1>23, <1>24,
       <1>25, <1>26, <1>27 DEF MotorNext, Program

-----------------------------------------------------------------------------
\* The invariant is inductive: it holds whatever the calls of the EPOS2 library
\* return and whenever the connection is lost.
THEOREM MotorInvariant == MotorSpec => []MotorInv
<1>1. MotorInit => MotorInv
  <2> SUFFICES ASSUME MotorInit PROVE MotorInv
    OBVIOUS
  <2>1. MotorTypeOK
    <3>1. troubles \in 0 .. MaxTroubles
      BY TroublesAssumption DEF MotorInit
    <3>2. epos \in Epos
      BY DEF MotorInit, Epos
    <3> QED
      BY <3>1, <3>2, PointsOK DEF MotorInit, MotorTypeOK, ErrorCodes
  <2>2. ConnectionInv /\ ReadyInv /\ EndInv
    BY DEF MotorInit, ConnectionInv, ReadyInv, EndInv
  <2>3. ReturnInv /\ RampInv
    BY AtIsAPair DEF MotorInit, ReturnInv, RampInv, DisableFirst, EnableFirst, Ended
  <2> QED
    BY <2>1, <2>2, <2>3 DEF MotorInv
<1>2. MotorInv /\ [MotorNext]_motorVars => MotorInv'
  BY TypeStep, ConnectionStep, ReturnStep, ReadyStep, EndStep, RampStep DEF MotorInv
<1> QED
  BY <1>1, <1>2, PTL DEF MotorSpec

\* The members of CMaxonMotor, the controller and the point of the program have
\* their types.
THEOREM MotorTypeCorrect == MotorSpec => []MotorTypeOK
<1>1. MotorInv => MotorTypeOK
  BY DEF MotorInv
<1> QED
  BY <1>1, MotorInvariant, PTL

\* main's closeDevice leaves the motor disabled and closed when nothing failed
\* after main began to close it.
THEOREM MotorEndsDisabled == MotorSpec => []EndsDisabled
<1>1. MotorInv => EndsDisabled
  BY DEF MotorInv, EndInv, ReturnInv, EndsDisabled
<1> QED
  BY <1>1, MotorInvariant, PTL

\* setSpeed writes back a ramp nobody set only after a call has failed on a
\* device that was there, however often the connection is lost.
THEOREM GarbageNeedsAFailedCall == MotorSpec => []RampNeedsAFailedCall
<1>1. MotorInv => RampNeedsAFailedCall
  BY DEF MotorInv, MotorTypeOK, Epos, Profiles, RampInv, RampNeedsAFailedCall
<1> QED
  BY <1>1, MotorInvariant, PTL

\* initializeDevice leaves the motor open, enabled, without a fault and with its
\* standard profile, when nothing fails after the device was opened.
THEOREM InitializedIsReady == MotorSpec => InitializeMakesReady
<1>1. MotorInv /\ [MotorNext]_motorVars => [EndOfInitialize /\ clean' => Ready']_motorVars
  <2> SUFFICES ASSUME MotorInv, EndOfInitialize, clean' PROVE Ready'
    OBVIOUS
  <2>1. clean /\ epos' = epos
    BY Outcome DEF MotorInv, EndOfInitialize, Reported
  <2>2. Ready
    BY <2>1 DEF MotorInv, ReadyInv, EndOfInitialize
  <2> QED
    BY <2>1, <2>2 DEF Ready
<1> QED
  BY <1>1, MotorInvariant, PTL DEF MotorSpec, InitializeMakesReady
=============================================================================
