---------------------------- MODULE MovementPlan ----------------------------
(***************************************************************************)
(* What the orbiter promises about the movements the host asks for: they   *)
(* are carried out in the order they were asked for; a queued one waits    *)
(* until the speaker stands still; an instant one takes the place of       *)
(* whatever moves and of all that wait.  Once in the life of the program a *)
(* queued one may start without waiting.                                   *)
(*                                                                         *)
(* A request is known by mov_queued and by its direction, 0 if it is not   *)
(* to move the speaker at all.                                             *)
(***************************************************************************)
EXTENDS Sequences

VARIABLES
  waiting,   \* the requests that have not been carried out
  moving,    \* does the speaker move
  spare      \* no queued request has started without waiting

planVars == <<waiting, moving, spare>>

PlanInit == waiting = << >> /\ moving = FALSE /\ spare = TRUE

\* The host asks for a movement, the last one to wait.
Ask ==
  /\ waiting' # << >>
  /\ LET asked == waiting'[Len(waiting')]
     IN  waiting' = IF asked.mov_queued THEN Append(waiting, asked) ELSE <<asked>>
  /\ UNCHANGED <<moving, spare>>

\* The first request is carried out.
Start ==
  /\ waiting # << >>
  /\ LET first == Head(waiting)
     IN  /\ moving /\ first.mov_queued => spare
         /\ moving' = (moving \/ first.direction # 0)
         /\ spare' = (spare /\ ~ (moving /\ first.mov_queued))
  /\ waiting' = Tail(waiting)

\* The target is reached, or the remote control starts or stops the speaker.
Otherwise ==
  /\ moving' \in BOOLEAN
  /\ UNCHANGED <<waiting, spare>>

PlanNext == Ask \/ Start \/ Otherwise

PlanSpec ==
  /\ PlanInit
  /\ [][PlanNext]_planVars
  /\ WF_planVars(Start)
=============================================================================
