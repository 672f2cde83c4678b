-------------------------------- MODULE Timers --------------------------------
(***************************************************************************)
(* What AddTimeOut and RemoveTimeOut promise the rest of the library: a    *)
(* timer that is armed fires once, unless it is removed first, and a timer *)
(* that was removed never fires.  Keyboard and Connection are written for  *)
(* this promise; EventLoop keeps it.                                       *)
(***************************************************************************)
CONSTANT Timer

VARIABLES armed,        \* the timers that wait
          running       \* those whose callback has been called and is not done

timerVars == <<armed, running>>

Init == armed = {} /\ running = {}

Arm(t)    == /\ t \notin armed \cup running
             /\ armed' = armed \cup {t}
             /\ UNCHANGED running

Remove(t) == /\ t \in armed
             /\ armed' = armed \ {t}
             /\ UNCHANGED running

Fire(t)   == /\ t \in armed
             /\ armed' = armed \ {t}
             /\ running' = running \cup {t}

Done(t)   == /\ t \in running
             /\ running' = running \ {t}
             /\ UNCHANGED armed

Next == \E t \in Timer : Arm(t) \/ Remove(t) \/ Fire(t) \/ Done(t)

Safety == Init /\ [][Next]_timerVars

(* No timer waits for ever. *)
Spec == Safety /\ \A t \in Timer : WF_timerVars(Fire(t))
=============================================================================
