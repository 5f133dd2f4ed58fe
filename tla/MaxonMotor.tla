----------------------------- MODULE MaxonMotor -----------------------------
(***************************************************************************)
(* The motor (cmaxonmotor.cpp) and what main.cpp asks of it: the calls of  *)
(* the EPOS2 library one after the other, any of which may fail, with the  *)
(* controller's faults and the loss of its USB connection in between.      *)
(*                                                                         *)
(* pc is the next call, and the method that makes it.  Calls that only     *)
(* read, and whose result nothing depends on, are left out (GetPositionIs, *)
(* GetCurrentIs, GetDcMotorParameter, ResetPositionMarkerCounter), and so  *)
(* are the parameters nothing reads back.                                  *)
(***************************************************************************)
EXTENDS Integers

CONSTANTS
  Speeds,         \* the speeds the host asks for
  MaxTroubles     \* bound: failing calls, faults and losses of the connection

ASSUME SpeedsAssumption == Speeds \subseteq Nat
ASSUME TroublesAssumption == MaxTroubles \in Nat

VARIABLES
  pc,
  keyHandle,   \* is it another one than 0
  ErrorCode,   \* the member that only SetPosModeParameter, setSpeed and
               \* GetSupply write: the other methods have one of their own
  cErrorNbr,   \* is it another one than 0
  closeThen,   \* the call that follows closeDevice
  initThen,    \* the call that follows initializeDevice
  profile,     \* the velocity and the ramp setSpeed is about to write
  exit_app,
  epos,        \* the controller and its connection
  troubles,    \* how many there were
  failed,      \* history: a call failed on a connection that was there
  clean        \* history: nothing failed since the device was opened, or since
               \* the program began to close an open one

programVars == <<pc, keyHandle, ErrorCode, cErrorNbr, closeThen, initThen, profile, exit_app>>
historyVars == <<troubles, failed, clean>>
motorVars == <<programVars, epos, historyVars>>

\* 0, the code IdleFunc looks for (0x34000007), and any other.
ErrorCodes == {"none", "0x34000007", "other"}

\* The ramp is what SetPosModeParameter sets, or what was in memory.
Ramps == {"1000/2000", "garbage"}
StandardVelocity == 10000
Velocities == {StandardVelocity} \cup {200 * speed : speed \in Speeds}
Profiles == [velocity : Velocities, ramp : Ramps]

\* open: calls with the handle of the program reach the controller.
Epos == [plugged : BOOLEAN, open : BOOLEAN, fault : BOOLEAN, enabled : BOOLEAN,
         moving : BOOLEAN, profile : Profiles]

At(call, method) == <<call, method>>

Methods == {"DisableDevice", "EnableDevice"}
Points ==
  ({"GetFaultState", "ClearFault", "GetEnableState", "SetState"} \X Methods)
  \cup {At("CloseDevice", "closeDevice"), At("CloseAllDevices", "closeDevice"),
        At("OpenDevice", "activate_device"),
        At("SetProtocolStackSettings", "activate_device"),
        At("SetPositionProfile", "SetPosModeParameter"),
        At("SetDcMotorParameter", "SetPosModeParameter"),
        At("GetMovementState", "TimerFunc"), At("Keys", "TimerFunc"),
        At("GetPositionProfile", "setSpeed"), At("SetPositionProfile", "setSpeed"),
        At("ActivateProfilePositionMode", "vProcessMovement"),
        At("ActivateProfilePositionMode", "TimerFunc"),
        At("MoveToPosition", "vProcessMovement"), At("MoveToPosition", "TimerFunc"),
        At("HaltPositionMovement", "TimerFunc"),
        At("GetAnalogInput", "GetSupply"),
        At("GetNbOfDeviceError", "IdleFunc"), At("cErrorNbr", "IdleFunc"),
        At("usleep", "main"), At("delete", "main")}

DisableFirst == At("GetFaultState", "DisableDevice")
EnableFirst == At("GetFaultState", "EnableDevice")
Round == At("GetMovementState", "TimerFunc")
Ended == At("delete", "main")

-----------------------------------------------------------------------------
MotorInit ==
  /\ pc = DisableFirst
  /\ keyHandle \in BOOLEAN
  /\ ErrorCode = "none"
  /\ cErrorNbr = FALSE
  /\ closeThen = At("OpenDevice", "activate_device")
  /\ initThen = Round
  /\ profile \in Profiles
  /\ exit_app = FALSE
  /\ epos \in [plugged : {TRUE}, open : {FALSE}, fault : BOOLEAN,
               enabled : BOOLEAN, moving : {FALSE}, profile : Profiles]
  /\ troubles = 0 /\ failed = FALSE /\ clean = FALSE

-----------------------------------------------------------------------------
(***************************************************************************)
(* The outcome of a call.                                                  *)
(***************************************************************************)

\* It succeeds, or fails, which it does without trouble of its own when the
\* controller cannot do it.
Succeeds(possible) ==
  /\ possible
  /\ UNCHANGED historyVars

Fails(possible) ==
  \/ /\ ~ possible
     /\ UNCHANGED historyVars
  \/ /\ possible /\ troubles < MaxTroubles
     /\ troubles' = troubles + 1
     /\ failed' = TRUE
     /\ clean' = FALSE

\* A call whose failure makes no difference to what comes next.
Attempt(possible, done) ==
  \/ Succeeds(possible) /\ epos' = done
  \/ Fails(possible) /\ UNCHANGED epos

\* The calls that tell the member ErrorCode how they ended.
Reported(possible, done) ==
  \/ Succeeds(possible) /\ epos' = done /\ ErrorCode' = "none"
  \/ /\ Fails(possible)
     /\ UNCHANGED epos
     /\ ErrorCode' \in {"0x34000007", "other"}

Goto(next) == pc' = next

-----------------------------------------------------------------------------
(***************************************************************************)
(* DisableDevice and EnableDevice.                                         *)
(***************************************************************************)
AfterMethod(method) ==
  IF method = "DisableDevice" THEN At("CloseDevice", "closeDevice")
                              ELSE At("SetPositionProfile", "SetPosModeParameter")

stateVars == <<keyHandle, ErrorCode, cErrorNbr, closeThen, initThen, profile, exit_app>>

GetFaultState(method) ==
  /\ pc = At("GetFaultState", method)
  /\ \/ /\ Succeeds(epos.open)
        /\ Goto(At(IF epos.fault THEN "ClearFault" ELSE "GetEnableState", method))
     \/ /\ Fails(epos.open)
        /\ Goto(AfterMethod(method))
  /\ UNCHANGED <<epos, stateVars>>

\* Fault: the fault is left alone.
ClearFault_Ignored(method) ==
  /\ pc = At("ClearFault", method)
  /\ Succeeds(epos.open)
  /\ Goto(At("GetEnableState", method))
  /\ UNCHANGED <<epos, stateVars>>

ClearFault(method) ==
  /\ pc = At("ClearFault", method)
  /\ \/ /\ Succeeds(epos.open)
        /\ epos' = [epos EXCEPT !.fault = FALSE]
        /\ Goto(At("GetEnableState", method))
     \/ /\ Fails(epos.open)
        /\ Goto(AfterMethod(method))
        /\ UNCHANGED epos
  /\ UNCHANGED stateVars

\* What the method wants is left alone when it is already so.
GetEnableState(method) ==
  /\ pc = At("GetEnableState", method)
  /\ \/ /\ Succeeds(epos.open)
        /\ Goto(IF epos.enabled = (method = "DisableDevice")
                THEN At("SetState", method) ELSE AfterMethod(method))
     \/ /\ Fails(epos.open)
        /\ Goto(AfterMethod(method))
  /\ UNCHANGED <<epos, stateVars>>

\* SetDisableState stops the motor; a controller in fault cannot be enabled.
SetState(method) ==
  /\ pc = At("SetState", method)
  /\ IF method = "DisableDevice"
     THEN Attempt(epos.open, [epos EXCEPT !.enabled = FALSE, !.moving = FALSE])
     ELSE Attempt(epos.open /\ ~ epos.fault, [epos EXCEPT !.enabled = TRUE])
  /\ Goto(AfterMethod(method))
  /\ UNCHANGED stateVars

-----------------------------------------------------------------------------
(***************************************************************************)
(* closeDevice, activate_device and SetPosModeParameter: initializeDevice  *)
(* is one after the other.                                                 *)
(***************************************************************************)

\* A device that cannot be closed stays open: the second call is another chance.
CloseDevice ==
  /\ pc = At("CloseDevice", "closeDevice")
  /\ IF keyHandle THEN Attempt(epos.open, [epos EXCEPT !.open = FALSE])
                  ELSE UNCHANGED <<epos, historyVars>>
  /\ Goto(At("CloseAllDevices", "closeDevice"))
  /\ UNCHANGED stateVars

CloseAllDevices ==
  /\ pc = At("CloseAllDevices", "closeDevice")
  /\ Attempt(epos.open, [epos EXCEPT !.open = FALSE])
  /\ Goto(closeThen)
  /\ UNCHANGED stateVars

\* Without a handle the controller is out of reach, also when the device could
\* not be closed before.
OpenDevice ==
  /\ pc = At("OpenDevice", "activate_device")
  /\ \/ /\ epos.plugged
        /\ epos' = [epos EXCEPT !.open = TRUE]
        /\ keyHandle' = TRUE
        /\ clean' = TRUE
        /\ UNCHANGED <<troubles, failed>>
     \/ /\ Fails(epos.plugged)
        /\ epos' = [epos EXCEPT !.open = FALSE]
        /\ keyHandle' = FALSE
  /\ Goto(At("SetProtocolStackSettings", "activate_device"))
  /\ UNCHANGED <<ErrorCode, cErrorNbr, closeThen, initThen, profile, exit_app>>

\* When the settings fail the device is closed, but everything that follows is
\* still done.
SetProtocolStackSettings ==
  /\ pc = At("SetProtocolStackSettings", "activate_device")
  /\ \/ /\ Succeeds(epos.open)
        /\ Goto(EnableFirst)
        /\ UNCHANGED closeThen
     \/ /\ Fails(epos.open)
        /\ Goto(DisableFirst)
        /\ closeThen' = EnableFirst
  /\ UNCHANGED <<epos, keyHandle, ErrorCode, cErrorNbr, initThen, profile, exit_app>>

SetPosModeParameter ==
  /\ pc = At("SetPositionProfile", "SetPosModeParameter")
  /\ Reported(epos.open, [epos EXCEPT !.profile =
                            [velocity |-> StandardVelocity, ramp |-> "1000/2000"]])
  /\ Goto(At("SetDcMotorParameter", "SetPosModeParameter"))
  /\ UNCHANGED <<keyHandle, cErrorNbr, closeThen, initThen, profile, exit_app>>

EndOfInitialize ==
  /\ pc = At("SetDcMotorParameter", "SetPosModeParameter")
  /\ Reported(epos.open, epos)
  /\ Goto(initThen)
  /\ UNCHANGED <<keyHandle, cErrorNbr, closeThen, initThen, profile, exit_app>>

\* The call of initializeDevice, and what follows it.
Initialize(next) ==
  /\ Goto(DisableFirst)
  /\ closeThen' = At("OpenDevice", "activate_device")
  /\ initThen' = next

-----------------------------------------------------------------------------
(***************************************************************************)
(* A round of the timer loop.                                              *)
(***************************************************************************)

\* No movement waits; or one does, and is to start at once or when the target
\* is reached.  If the call fails, targetReached is what was in memory.
ReachedTarget ==
  /\ pc = Round
  /\ \/ /\ Goto(At("Keys", "TimerFunc"))
        /\ UNCHANGED historyVars
     \/ /\ Succeeds(epos.open)
        /\ \E movement_skip \in BOOLEAN :
             Goto(IF ~ epos.moving \/ movement_skip
                  THEN At("GetPositionProfile", "setSpeed") ELSE At("Keys", "TimerFunc"))
     \/ /\ Fails(epos.open)
        /\ pc' \in {At("GetPositionProfile", "setSpeed"), At("Keys", "TimerFunc")}
  /\ UNCHANGED <<epos, stateVars>>

\* Fault: the ramp of the controller is not read first.
GetPositionProfile_Omitted ==
  /\ pc = At("GetPositionProfile", "setSpeed")
  /\ \E speed \in Speeds : profile' = [profile EXCEPT !.velocity = 200 * speed]
  /\ Goto(At("SetPositionProfile", "setSpeed"))
  /\ UNCHANGED <<epos, keyHandle, ErrorCode, cErrorNbr, closeThen, initThen, exit_app, historyVars>>

\* Fault: the speed is taken for a velocity.
GetPositionProfile_NoFactor ==
  /\ pc = At("GetPositionProfile", "setSpeed")
  /\ \E speed \in Speeds :
       \/ /\ Succeeds(epos.open)
          /\ profile' = [velocity |-> speed, ramp |-> epos.profile.ramp]
       \/ /\ Fails(epos.open)
          /\ profile' = [velocity |-> speed, ramp |-> "garbage"]
  /\ Goto(At("SetPositionProfile", "setSpeed"))
  /\ UNCHANGED <<epos, keyHandle, ErrorCode, cErrorNbr, closeThen, initThen, exit_app>>

\* setSpeed keeps the ramp of the controller, or what was in memory.  The code
\* this call leaves in ErrorCode is overwritten by the next one.
GetPositionProfile ==
  /\ pc = At("GetPositionProfile", "setSpeed")
  /\ \E speed \in Speeds :
       \/ /\ Succeeds(epos.open)
          /\ profile' = [velocity |-> 200 * speed, ramp |-> epos.profile.ramp]
       \/ /\ Fails(epos.open)
          /\ profile' = [velocity |-> 200 * speed, ramp |-> "garbage"]
  /\ Goto(At("SetPositionProfile", "setSpeed"))
  /\ UNCHANGED <<epos, keyHandle, ErrorCode, cErrorNbr, closeThen, initThen, exit_app>>

\* The mode is activated by setSpeed, and again by Move, which gives up if that
\* fails.
SetPositionProfile ==
  /\ pc = At("SetPositionProfile", "setSpeed")
  /\ Reported(epos.open, [epos EXCEPT !.profile = profile])
  /\ Goto(At("ActivateProfilePositionMode", "vProcessMovement"))
  /\ UNCHANGED <<keyHandle, cErrorNbr, closeThen, initThen, profile, exit_app>>

AfterMove(caller) ==
  IF caller = "vProcessMovement" THEN At("Keys", "TimerFunc")
                                 ELSE At("GetAnalogInput", "GetSupply")

Callers == {"vProcessMovement", "TimerFunc"}

ActivateProfilePositionMode(caller) ==
  /\ pc = At("ActivateProfilePositionMode", caller)
  /\ \/ Succeeds(epos.open) /\ Goto(At("MoveToPosition", caller))
     \/ Fails(epos.open) /\ Goto(AfterMove(caller))
  /\ UNCHANGED <<epos, stateVars>>

\* A movement the controller refuses is lost.
MoveToPosition(caller) ==
  /\ pc = At("MoveToPosition", caller)
  /\ Attempt(epos.open /\ epos.enabled /\ ~ epos.fault, [epos EXCEPT !.moving = TRUE])
  /\ Goto(AfterMove(caller))
  /\ UNCHANGED stateVars

\* PLAY, STOP, or none of the two.
KeyOfRound ==
  /\ pc = At("Keys", "TimerFunc")
  /\ pc' \in {At("ActivateProfilePositionMode", "TimerFunc"),
              At("HaltPositionMovement", "TimerFunc"),
              At("GetAnalogInput", "GetSupply")}
  /\ UNCHANGED <<epos, stateVars, historyVars>>

Halt ==
  /\ pc = At("HaltPositionMovement", "TimerFunc")
  /\ Attempt(epos.open, [epos EXCEPT !.moving = FALSE])
  /\ Goto(At("GetAnalogInput", "GetSupply"))
  /\ UNCHANGED stateVars

\* DisplayFunc.  This is the call IdleFunc sees the ErrorCode of.
GetSupply ==
  /\ pc = At("GetAnalogInput", "GetSupply")
  /\ Reported(epos.open, epos)
  /\ Goto(At("GetNbOfDeviceError", "IdleFunc"))
  /\ UNCHANGED <<keyHandle, cErrorNbr, closeThen, initThen, profile, exit_app>>

\* Fault: a number that cannot be read counts as 0.
ErrorNbr_Resets ==
  /\ pc = At("GetNbOfDeviceError", "IdleFunc")
  /\ \/ Succeeds(epos.open) /\ cErrorNbr' = epos.fault
     \/ Fails(epos.open) /\ cErrorNbr' = FALSE
  /\ IF ErrorCode = "0x34000007"
     THEN Initialize(At("cErrorNbr", "IdleFunc"))
     ELSE Goto(At("cErrorNbr", "IdleFunc")) /\ UNCHANGED <<closeThen, initThen>>
  /\ UNCHANGED <<epos, keyHandle, ErrorCode, profile, exit_app>>

\* A number that cannot be read stays what it was.
ErrorNbr ==
  /\ pc = At("GetNbOfDeviceError", "IdleFunc")
  /\ \/ Succeeds(epos.open) /\ cErrorNbr' = epos.fault
     \/ Fails(epos.open) /\ UNCHANGED cErrorNbr
  /\ IF ErrorCode = "0x34000007"
     THEN Initialize(At("cErrorNbr", "IdleFunc"))
     ELSE Goto(At("cErrorNbr", "IdleFunc")) /\ UNCHANGED <<closeThen, initThen>>
  /\ UNCHANGED <<epos, keyHandle, ErrorCode, profile, exit_app>>

RepairError ==
  /\ pc = At("cErrorNbr", "IdleFunc")
  /\ IF cErrorNbr
     THEN Initialize(At("usleep", "main"))
     ELSE Goto(At("usleep", "main")) /\ UNCHANGED <<closeThen, initThen>>
  /\ UNCHANGED <<epos, keyHandle, ErrorCode, cErrorNbr, profile, exit_app, historyVars>>

\* Fault: the device is closed without being disabled.
EndOfRound_OnlyCloses ==
  /\ pc = At("usleep", "main")
  /\ IF exit_app
     THEN Goto(At("CloseDevice", "closeDevice")) /\ closeThen' = Ended /\ clean' = epos.open
     ELSE Goto(Round) /\ UNCHANGED <<closeThen, clean>>
  /\ UNCHANGED <<epos, keyHandle, ErrorCode, cErrorNbr, initThen, profile, exit_app, troubles, failed>>

\* The end of the round: the next one, or the end of the program.
EndOfRound ==
  /\ pc = At("usleep", "main")
  /\ IF exit_app
     THEN Goto(DisableFirst) /\ closeThen' = Ended /\ clean' = epos.open
     ELSE Goto(Round) /\ UNCHANGED <<closeThen, clean>>
  /\ UNCHANGED <<epos, keyHandle, ErrorCode, cErrorNbr, initThen, profile, exit_app, troubles, failed>>

Program ==
  \/ \E method \in Methods :
       GetFaultState(method) \/ ClearFault(method) \/ GetEnableState(method) \/ SetState(method)
  \/ CloseDevice \/ CloseAllDevices
  \/ OpenDevice \/ SetProtocolStackSettings \/ SetPosModeParameter \/ EndOfInitialize
  \/ ReachedTarget
  \/ GetPositionProfile \/ SetPositionProfile
  \/ \E caller \in Callers : ActivateProfilePositionMode(caller) \/ MoveToPosition(caller)
  \/ KeyOfRound \/ Halt
  \/ GetSupply \/ ErrorNbr \/ RepairError \/ EndOfRound

-----------------------------------------------------------------------------
(***************************************************************************)
(* The controller, its connection, and the signal to end.                  *)
(***************************************************************************)
Trouble ==
  /\ troubles < MaxTroubles
  /\ troubles' = troubles + 1
  /\ clean' = FALSE
  /\ UNCHANGED <<programVars, failed>>

\* A fault disables the motor.
DeviceFault ==
  /\ epos' = [epos EXCEPT !.fault = TRUE, !.enabled = FALSE, !.moving = FALSE]
  /\ Trouble

\* A handle does not outlive its connection.
Unplug ==
  /\ epos.plugged
  /\ epos' = [epos EXCEPT !.plugged = FALSE, !.open = FALSE]
  /\ Trouble

PlugIn ==
  /\ ~ epos.plugged
  /\ epos' = [epos EXCEPT !.plugged = TRUE]
  /\ UNCHANGED <<programVars, historyVars>>

Arrive ==
  /\ epos.moving
  /\ epos' = [epos EXCEPT !.moving = FALSE]
  /\ UNCHANGED <<programVars, historyVars>>

\* signal_handler.
Sigterm ==
  /\ exit_app' = TRUE
  /\ UNCHANGED <<pc, keyHandle, ErrorCode, cErrorNbr, closeThen, initThen, profile, epos, historyVars>>

MotorNext == Program \/ DeviceFault \/ Unplug \/ PlugIn \/ Arrive \/ Sigterm

\* The main thread goes on, and the connection comes back.
MotorFairness == WF_motorVars(Program) /\ WF_motorVars(PlugIn)

MotorSpec == MotorInit /\ [][MotorNext]_motorVars /\ MotorFairness

-----------------------------------------------------------------------------
(***************************************************************************)
(* Properties.                                                             *)
(***************************************************************************)
MotorTypeOK ==
  /\ pc \in Points
  /\ keyHandle \in BOOLEAN
  /\ ErrorCode \in ErrorCodes
  /\ cErrorNbr \in BOOLEAN
  /\ closeThen \in {At("OpenDevice", "activate_device"), EnableFirst, Ended}
  /\ initThen \in {Round, At("cErrorNbr", "IdleFunc"), At("usleep", "main")}
  /\ profile \in Profiles
  /\ exit_app \in BOOLEAN
  /\ epos \in Epos
  /\ troubles \in 0 .. MaxTroubles
  /\ failed \in BOOLEAN
  /\ clean \in BOOLEAN

\* initializeDevice leaves the motor ready whatever it finds, a fault, a motor
\* that is enabled, a device left open or a handle of before, unless something
\* fails after the device has been opened.
Ready ==
  /\ epos.open /\ epos.enabled /\ ~ epos.fault
  /\ epos.profile = [velocity |-> StandardVelocity, ramp |-> "1000/2000"]

InitializeMakesReady == [][EndOfInitialize /\ clean' => Ready']_motorVars

\* When the program has ended, the motor it closed does not hold the speaker
\* any more, unless something failed in the meantime or there was no device to
\* close.
EndsDisabled == pc = Ended /\ clean => ~ epos.open /\ ~ epos.enabled

\* setSpeed writes a ramp nobody set only if a call failed on a device that was
\* there, and the next one did not: a lost connection alone is not enough, as
\* the handle that is lost before the ramp is read cannot write it, and opening
\* the device anew sets the ramp anew.
RampNeedsAFailedCall ==
  /\ epos.open /\ epos.profile.ramp = "garbage"
  /\ pc[2] \in {"TimerFunc", "setSpeed", "vProcessMovement", "GetSupply", "IdleFunc", "main"}
  => failed

\* An error IdleFunc has seen is repaired in the end, however the calls and the
\* connection fail on the way: as long as the device cannot be opened the
\* number of errors cannot be read either, so that it is tried again.
SeenErrorIsRepaired == cErrorNbr /\ ~ exit_app ~> (epos.open /\ ~ epos.fault) \/ exit_app
=============================================================================
