------------------------------- MODULE EventLoop -------------------------------
(***************************************************************************)
(* The library's own event loop (src/src/lib/XtGlue.c): the list of        *)
(* timeouts in the order they expire, the list of inputs with the newest   *)
(* first, and DefaultProcessEvents, which selects, walks the inputs and    *)
(* then the timeouts, and calls their handlers.                            *)
(*                                                                         *)
(* A handler may do anything the code does before it returns: add and      *)
(* remove inputs and timeouts, its own as well, and, if it is a timer's,   *)
(* run the loop again (try_reconnect, lib3270_reconnect, lib3270_connect). *)
(* "frames" is the stack of calls of DefaultProcessEvents.  Handles are    *)
(* addresses, and malloc uses one that was freed again.                    *)
(*                                                                         *)
(* Each input here waits for one condition of one source, "what".  Time    *)
(* is counted in units, and writing is left out: the library adds outputs  *)
(* only where connect() does not block.                                    *)
(***************************************************************************)
EXTENDS Naturals, Sequences

CONSTANTS
    Timer, Input,   \* handles
    What,           \* what an input can wait for
    Null,           \* the null pointer
    MaxTime, MaxDepth, MaxChanges   \* bounds of the model

ASSUME EventLoopAssumption ==
    /\ Null \notin Timer \cup Input
    /\ {MaxTime, MaxDepth, MaxChanges} \subseteq Nat

VARIABLES
    now,            \* the time of day
    timeouts,       \* the list of timeouts
    inputs,         \* the list of inputs
    inputs_changed,
    frames,
    changes         \* bound of the model on changes of the inputs

vars == <<now, timeouts, inputs, inputs_changed, frames, changes>>

-----------------------------------------------------------------------------
Timeout == [id : Timer, at : 0 .. MaxTime]
Source  == [id : Input, what : What]

Frame ==
    [phase  : {"select", "inputs", "timers", "called"},
     ip     : Input \cup {Null},        \* the input walked to
     next   : Input \cup {Null},        \* ip_next
     ready  : SUBSET What,              \* what select has found
     limit  : 0 .. MaxTime + 1,         \* the time read after the walk
     timer  : Timer \cup {Null},        \* the timeout whose handler is called
     block  : BOOLEAN,
     nested : BOOLEAN]                  \* bound of the model: its handler ran the loop

NewFrame(block) ==
    [phase |-> "select", ip |-> Null, next |-> Null, ready |-> {}, limit |-> 0,
     timer |-> Null, block |-> block, nested |-> FALSE]

(* "If we've processed any input, then don't block again." *)
Retry == NewFrame(FALSE)

Ids(list) == {list[i].id : i \in DOMAIN list}
InPlay    == {frames[i].timer : i \in DOMAIN frames} \ {Null}

(* A handle is that of one timeout, which is in the list or in play. *)
TypeOK ==
    /\ now \in 0 .. MaxTime + 1
    /\ timeouts \in Seq(Timeout)
    /\ \A i, j \in DOMAIN timeouts : timeouts[i].id = timeouts[j].id => i = j
    /\ Ids(timeouts) \cap InPlay = {}
    /\ inputs \in Seq(Source)
    /\ inputs_changed \in BOOLEAN
    /\ frames \in Seq(Frame) /\ Len(frames) <= MaxDepth
    /\ changes \in 0 .. MaxChanges

Init ==
    /\ now = 0
    /\ timeouts = <<>> /\ inputs = <<>>
    /\ inputs_changed = FALSE
    /\ frames = <<>>
    /\ changes = 0

Top == frames[Len(frames)]
SetTop(f) == [frames EXCEPT ![Len(frames)] = f]

(* Code runs outside the loop, or in a handler. *)
CodeRuns == frames # <<>> => Top.phase = "called"

-----------------------------------------------------------------------------
(* The calls of the library. *)

(* Mutant: the new timeout goes to the end of the list. *)
PlaceLast(k, at) == k = Len(timeouts)

(* A new timeout goes behind the k that do not expire later. *)
Place(k, at) ==
    /\ \A i \in 1 .. k : timeouts[i].at <= at
    /\ k < Len(timeouts) => timeouts[k + 1].at > at

(* A list without its element k. *)
Without(list, k) == SubSeq(list, 1, k - 1) \o SubSeq(list, k + 1, Len(list))

DefaultAddTimeOut(t, interval) ==
    LET at == now + interval
    IN  /\ CodeRuns
        /\ t \notin Ids(timeouts) \cup InPlay
        /\ at <= MaxTime
        /\ \E k \in 0 .. Len(timeouts) :
             /\ Place(k, at)
             /\ timeouts' = SubSeq(timeouts, 1, k) \o <<[id |-> t, at |-> at]>>
                            \o SubSeq(timeouts, k + 1, Len(timeouts))
        /\ UNCHANGED <<now, inputs, inputs_changed, frames, changes>>

(* The caller holds the handle of a timeout that waits, or whose handler      *)
(* runs; that one is left alone.                                              *)
DefaultRemoveTimeOut(t) ==
    /\ CodeRuns
    /\ \/ t \in InPlay /\ UNCHANGED timeouts
       \/ \E k \in DOMAIN timeouts : timeouts[k].id = t /\ timeouts' = Without(timeouts, k)
    /\ UNCHANGED <<now, inputs, inputs_changed, frames, changes>>

DefaultAddInput(i, w) ==
    /\ CodeRuns
    /\ changes < MaxChanges
    /\ i \notin Ids(inputs)
    /\ inputs' = <<[id |-> i, what |-> w]>> \o inputs
    /\ inputs_changed' = TRUE
    /\ changes' = changes + 1
    /\ UNCHANGED <<now, timeouts, frames>>

(* Mutant: the dispatcher is not told. *)
RemoveInputQuietly(i) ==
    /\ CodeRuns
    /\ changes < MaxChanges
    /\ \E k \in DOMAIN inputs : inputs[k].id = i /\ inputs' = Without(inputs, k)
    /\ changes' = changes + 1
    /\ UNCHANGED <<now, timeouts, inputs_changed, frames>>

DefaultRemoveInput(i) ==
    /\ CodeRuns
    /\ changes < MaxChanges
    /\ \E k \in DOMAIN inputs : inputs[k].id = i /\ inputs' = Without(inputs, k)
    /\ inputs_changed' = TRUE
    /\ changes' = changes + 1
    /\ UNCHANGED <<now, timeouts, frames>>

(* The main loop, or the handler of a timer; no input's handler does. *)
CallProcessEvents(block) ==
    /\ CodeRuns
    /\ Len(frames) < MaxDepth
    /\ frames # <<>> => ~Top.nested /\ Top.timer # Null
    /\ frames' = Append(IF frames = <<>> THEN frames ELSE SetTop([Top EXCEPT !.nested = TRUE]),
                        NewFrame(block))
    /\ UNCHANGED <<now, timeouts, inputs, inputs_changed, changes>>

-----------------------------------------------------------------------------
(* DefaultProcessEvents. *)

InPhase(phase) == frames # <<>> /\ Top.phase = phase

First == IF inputs = <<>> THEN Null ELSE Head(inputs).id

(* The input behind that with handle i. *)
NextOf(i) ==
    LET k == CHOOSE n \in DOMAIN inputs : inputs[n].id = i
    IN  IF k = Len(inputs) THEN Null ELSE inputs[k + 1].id

WhatOf(i) == LET k == CHOOSE n \in DOMAIN inputs : inputs[n].id = i IN inputs[k].what

Waited == {inputs[n].what : n \in DOMAIN inputs}

Return == frames' = SubSeq(frames, 1, Len(frames) - 1)

(* Mutant: timeouts are nothing to wait for. *)
AnyInputs == inputs # <<>>

(* Without inputs there is something to wait for only in a call that may      *)
(* block.                                                                     *)
AnyEvents == inputs # <<>> \/ (Top.block /\ timeouts # <<>>)

Select ==
    /\ InPhase("select") /\ AnyEvents
    /\ \E ready \in SUBSET Waited :
         frames' = SetTop([Top EXCEPT !.phase = "inputs", !.ready = ready, !.ip = First])
    /\ inputs_changed' = FALSE
    /\ UNCHANGED <<now, timeouts, inputs, changes>>

(* There is nothing to wait for, or select() fails. *)
SelectFails ==
    /\ InPhase("select")
    /\ Return
    /\ UNCHANGED <<now, timeouts, inputs, inputs_changed, changes>>

(* An input that is ready has its handler called, any other is passed. *)
Walk ==
    /\ InPhase("inputs")
    /\ Top.ip # Null
    /\ LET next == NextOf(Top.ip)
       IN  frames' = SetTop(IF WhatOf(Top.ip) \in Top.ready
                            THEN [Top EXCEPT !.phase = "called", !.next = next]
                            ELSE [Top EXCEPT !.ip = next])
    /\ UNCHANGED <<now, timeouts, inputs, inputs_changed, changes>>

(* The handler of an input is done: after a change of the list everything     *)
(* starts again, otherwise ip_next is taken.                                  *)
InputDone ==
    /\ InPhase("called") /\ Top.timer = Null
    /\ frames' = SetTop(IF inputs_changed
                        THEN Retry
                        ELSE [Top EXCEPT !.phase = "inputs", !.ip = Top.next, !.next = Null,
                                         !.nested = FALSE])
    /\ UNCHANGED <<now, timeouts, inputs, inputs_changed, changes>>

WalkEnds ==
    /\ InPhase("inputs") /\ Top.ip = Null
    /\ frames' = SetTop([Top EXCEPT !.phase = "timers", !.limit = now, !.ready = {}])
    /\ UNCHANGED <<now, timeouts, inputs, inputs_changed, changes>>

Expired == timeouts # <<>> /\ Head(timeouts).at < Top.limit

(* Mutant: the timeout stays in the list while its handler runs. *)
FireListed ==
    /\ InPhase("timers") /\ Expired
    /\ Head(timeouts).id \notin InPlay
    /\ frames' = SetTop([Top EXCEPT !.phase = "called", !.timer = Head(timeouts).id])
    /\ UNCHANGED <<now, timeouts, inputs, inputs_changed, changes>>

Fire ==
    /\ InPhase("timers") /\ Expired
    /\ timeouts' = Tail(timeouts)
    /\ frames' = SetTop([Top EXCEPT !.phase = "called", !.timer = Head(timeouts).id])
    /\ UNCHANGED <<now, inputs, inputs_changed, changes>>

TimerDone ==
    /\ InPhase("called") /\ Top.timer # Null
    /\ frames' = SetTop([Top EXCEPT !.phase = "timers", !.timer = Null, !.nested = FALSE])
    /\ UNCHANGED <<now, timeouts, inputs, inputs_changed, changes>>

(* A change of the inputs, a timer's or one still marked, starts again. *)
TimersEnd ==
    /\ InPhase("timers") /\ ~Expired
    /\ IF inputs_changed THEN frames' = SetTop(Retry) ELSE Return
    /\ UNCHANGED <<now, timeouts, inputs, inputs_changed, changes>>

Tick == /\ now <= MaxTime
        /\ now' = now + 1
        /\ UNCHANGED <<timeouts, inputs, inputs_changed, frames, changes>>

-----------------------------------------------------------------------------
Code == \/ \E t \in Timer : \/ \E interval \in 0 .. MaxTime : DefaultAddTimeOut(t, interval)
                            \/ DefaultRemoveTimeOut(t)
        \/ \E i \in Input : \/ \E w \in What : DefaultAddInput(i, w)
                            \/ DefaultRemoveInput(i)

Dispatch == Select \/ SelectFails \/ Walk \/ WalkEnds \/ Fire \/ TimersEnd
Handlers == InputDone \/ TimerDone

Calls == \E block \in BOOLEAN : CallProcessEvents(block)

Next == Code \/ Calls \/ Dispatch \/ Handlers \/ Tick

(* The program calls the loop again and again, and does not only poll;        *)
(* handlers return, and select() does not fail for ever.                      *)
Fairness == /\ SF_vars(frames = <<>> /\ CallProcessEvents(TRUE))
            /\ WF_vars(Dispatch) /\ SF_vars(Select)
            /\ WF_vars(Handlers)
            /\ WF_vars(Tick)

Spec == Init /\ [][Next]_vars /\ Fairness

-----------------------------------------------------------------------------
(* Safety. *)

(* The list is in the order the timeouts expire, so that the dispatcher may   *)
(* stop at the first that has not (DefaultAddTimeOut).                        *)
Sorted == \A i, j \in DOMAIN timeouts : i < j => timeouts[i].at <= timeouts[j].at

(* A walk holds no pointer to an input that was freed, or that has moved,     *)
(* when it goes on without looking at inputs_changed: neither its own         *)
(* handlers nor a loop run inside one leave it such a pointer                 *)
(* (DefaultProcessEvents, ip and ip_next).                                    *)
WalkValid ==
    \A n \in DOMAIN frames :
        LET f == frames[n]
        IN  /\ f.phase = "inputs" => f.ip \in Ids(inputs) \cup {Null}
            /\ f.phase = "called" /\ f.timer = Null /\ ~inputs_changed
               => f.ip \in Ids(inputs) /\ f.next = NextOf(f.ip)

(* Together, what the two lists and the frames that walk them are at any time. *)
ListsConsistent == TypeOK /\ Sorted /\ WalkValid

(* What the rest of the library is promised. *)
Abstract == INSTANCE Timers WITH armed <- Ids(timeouts), running <- InPlay

(* The list, the dispatcher and its nested calls keep the promise: a timer    *)
(* fires once, never after it was removed, also when a handler removes its    *)
(* own or another's, or runs the loop.                                        *)
KeepsTimers == Abstract!Safety

(* ... and none waits for ever (DefaultProcessEvents).                        *)
TimersFire == Abstract!Spec
=============================================================================
