------------------------------- MODULE Keyboard -------------------------------
(***************************************************************************)
(* The keyboard of the 3270 emulator (src/src/lib/kybd.c) together with    *)
(* the handlers of the host side that lock and unlock it (ctlr.c, sf.c,    *)
(* host.c, ft.c): the lock word kybdlock, the typeahead queue ta_head, the *)
(* deferred unlock timer, and the attention identifier owed an answer.     *)
(*                                                                         *)
(* The program runs one handler at a time from its main loop, so an action *)
(* is a whole handler.  Only the drain loop of ps_process is split, one    *)
(* queued keystroke to a step; while it runs (pc # "idle") nothing else    *)
(* does.  A helper of the code is an operator that takes the session  *)
(* record and returns the changed one; its other parameters are the        *)
(* outcomes the model leaves open: "ok" is whether send() succeeds, "bad"  *)
(* whether the field under the cursor refuses a character, and "ub" what   *)
(* Free() of a pointer that malloc() never returned does.                  *)
(***************************************************************************)
EXTENDS Integers, Sequences

CONSTANTS
    OerrLock,       \* appres.oerr_lock: an operator error locks the keyboard
    Typeahead,      \* appres.typeahead: keys typed while locked are queued
    UnlockDelay,    \* appres.unlock_delay: a host restore unlocks by timer
    As400,          \* h3270.as400: a PF key is sent as PA1 and then the PF key
    MaxTypeahead    \* bound of the model on the length of the queue

ASSUME SwitchAssumption ==
    {OerrLock, Typeahead, UnlockDelay, As400} \subseteq BOOLEAN
ASSUME MaxTypeaheadAssumption == MaxTypeahead \in Nat \ {0}

VARIABLES
    h3270,          \* the session and the statics of kybd.c, one record
    pc              \* "idle", or the caller whose ps_process loop is running

vars == <<h3270, pc>>

-----------------------------------------------------------------------------
(* Connection states (enum LIB3270_CSTATE) and the macros of globals.h. *)

CState == {"NOT_CONNECTED", "CONNECTED_INITIAL", "CONNECTED_ANSI",
           "CONNECTED_3270", "CONNECTED_INITIAL_E", "CONNECTED_NVT",
           "CONNECTED_SSCP", "CONNECTED_TN3270E"}

Connected(h) == h.cstate # "NOT_CONNECTED"
InAnsi(h)    == h.cstate \in {"CONNECTED_ANSI", "CONNECTED_NVT"}
In3270(h)    == h.cstate \in {"CONNECTED_3270", "CONNECTED_TN3270E", "CONNECTED_SSCP"}
InSscp(h)    == h.cstate = "CONNECTED_SSCP"

(* The bits of kybdlock.  KL_SCROLLED is left out: nothing built sets it. *)
LockBit == {"OERR", "NOT_CONNECTED", "AWAITING_FIRST", "OIA_TWAIT",
            "OIA_LOCKED", "DEFERRED_UNLOCK", "ENTER_INHIBIT", "OIA_MINUS"}

(* Keys, by the handler they reach; PF and PA are queued as TA_TYPE_KEY_AID. *)
Key == {"Char", "Tab", "Enter", "Clear", "PF", "PA"}
KeyAidEntry == {"PF", "PA"}
AidKey == {"Enter", "Clear", "PF", "PA"}
AID_NO == "AID_NO"

(* unlock_delay_time, kept as the age in seconds of the stamp; do_reset only  *)
(* asks whether the age exceeds one, so the age stops at MaxAge.              *)
NoStamp == -1
MaxAge  == 2

(* A timer is "new" until a second has gone by, then "old"; "expired" when    *)
(* its UNLOCK_MS = 350 ms are over and the main loop may call it.             *)
TimerClock == {"new", "old", "expired"}

Session ==
    [cstate : CState,
     lock   : SUBSET LockBit,          \* kybdlock
     stamp  : NoStamp .. MaxAge,       \* unlock_delay_time
     timers : Int,                     \* defer_unlock timers not yet removed
     clock  : TimerClock,              \* how far that timer has run
     ta     : Seq(Key),                \* ta_head .. ta_tail
     aid    : AidKey \cup {AID_NO},
     owed   : BOOLEAN,                 \* history: an AID waits for its answer
     ft     : BOOLEAN,                 \* ft_state # FT_NONE
     died   : BOOLEAN]                 \* the process was aborted by Free()

TypeOK == /\ h3270 \in Session
          /\ h3270.timers \in 0 .. 1
          /\ Len(h3270.ta) <= MaxTypeahead
          /\ pc \in {"idle", "ps_process", "kybd_in3270"}

Init ==
    /\ h3270 = [cstate |-> "NOT_CONNECTED", lock |-> {"NOT_CONNECTED"},
                stamp |-> NoStamp, timers |-> 0, clock |-> "new", ta |-> <<>>,
                aid |-> AID_NO, owed |-> FALSE, ft |-> FALSE, died |-> FALSE]
    /\ pc = "idle"

-----------------------------------------------------------------------------
(* The lock word, its time stamp, the unlock timer, the queue. *)

(* The stamp is renewed when exactly one of the old word and the new bits has *)
(* DEFERRED_UNLOCK, which is what the code tests.                             *)
KybdlockSet(h, bits) ==
    IF bits \subseteq h.lock
    THEN h
    ELSE [h EXCEPT !.lock  = @ \cup bits,
                   !.stamp = IF "DEFERRED_UNLOCK" \in h.lock <=> "DEFERRED_UNLOCK" \in bits
                             THEN @ ELSE 0]

KybdlockClr(h, bits) ==
    [h EXCEPT !.lock  = @ \ bits,
              !.stamp = IF "DEFERRED_UNLOCK" \in h.lock \cap bits THEN NoStamp ELSE @]

AddUnlockTimer(h)    == [h EXCEPT !.timers = @ + 1, !.clock = "new"]
RemoveUnlockTimer(h) == [h EXCEPT !.timers = @ - 1, !.clock = "new"]

(* Mutant: the timer is never removed. *)
RemoveDeferredNever(h) == h

RemoveDeferred(h) ==
    IF "DEFERRED_UNLOCK" \in h.lock THEN RemoveUnlockTimer(h) ELSE h

(* Entries made by enq_key point at the static table pf_xlate or pa_xlate. *)
FlushTa(h, ub) ==
    [h EXCEPT !.ta   = <<>>,
              !.died = @ \/ (ub /\ \E i \in DOMAIN h.ta : h.ta[i] \in KeyAidEntry)]

EnqChk(h) == Connected(h) /\ "OERR" \notin h.lock /\ Typeahead

Enqueue(h, k) == IF EnqChk(h) THEN [h EXCEPT !.ta = Append(@, k)] ELSE h

KybdInhibit(h, inhibit) ==
    IF inhibit THEN KybdlockSet(h, {"ENTER_INHIBIT"})
               ELSE KybdlockClr(h, {"ENTER_INHIBIT"})

-----------------------------------------------------------------------------
(* Callbacks of connection changes, in the order of their registration.  Each *)
(* is handed the session whose cstate the caller has already changed.         *)

CtlrConnect(h) ==
    IF ~In3270(h) \/ (InSscp(h) /\ "OIA_TWAIT" \in h.lock)
    THEN KybdlockClr(h, {"OIA_TWAIT"})
    ELSE h

StatusConnect(h) == KybdInhibit(h, FALSE)      \* through ctlr_erase

(* Mutants: the timer is forgotten; the queue outlives the connection. *)
KybdConnectKeepsTimer(h, connected, ub) ==
    LET unlocked == KybdlockClr(h, LockBit)
    IN  IF connected
        THEN KybdlockSet(unlocked, {"AWAITING_FIRST"})
        ELSE FlushTa(KybdlockSet(unlocked, {"NOT_CONNECTED"}), ub)

KybdConnectKeepsQueue(h, connected, ub) ==
    KybdlockSet(KybdlockClr(RemoveDeferred(h), LockBit),
                IF connected THEN {"AWAITING_FIRST"} ELSE {"NOT_CONNECTED"})

KybdConnect(h, connected, ub) ==
    LET unlocked == KybdlockClr(RemoveDeferred(h), LockBit)
    IN  IF connected
        THEN KybdlockSet(unlocked, {"AWAITING_FIRST"})
        ELSE FlushTa(KybdlockSet(unlocked, {"NOT_CONNECTED"}), ub)

KybdIn3270(h) ==
    KybdlockClr(RemoveDeferred(h), LockBit \ {"AWAITING_FIRST"})

FtConnected(h) == IF Connected(h) THEN h ELSE [h EXCEPT !.ft = FALSE]
FtIn3270(h)    == IF In3270(h)    THEN h ELSE [h EXCEPT !.ft = FALSE]

HostConnected(h) ==
    LET c == [h EXCEPT !.cstate = "CONNECTED_INITIAL", !.owed = FALSE]
    IN  FtConnected(KybdConnect(StatusConnect(CtlrConnect(c)), TRUE, FALSE))

HostDisconnected(h, ub) ==
    LET c == [h EXCEPT !.cstate = "NOT_CONNECTED", !.owed = FALSE]
    IN  FtConnected(KybdConnect(StatusConnect(CtlrConnect(c)), FALSE, ub))

(* Up to the drain of the queue in the middle of it, at the end of            *)
(* kybd_in3270; the callback registered after that one is FtIn3270.           *)
HostIn3270(h, new) ==
    LET c == [h EXCEPT !.cstate = new, !.owed = FALSE]
    IN  KybdIn3270(CtlrConnect(c))

(* host_disconnect does nothing to a session that is not connected. *)
HostDisconnect(h, ub) == IF Connected(h) THEN HostDisconnected(h, ub) ELSE h

(* net_rawout: a failed write drops the connection and returns to its caller. *)
NetRawout(h, ok, ub) == IF ok THEN h ELSE HostDisconnect(h, ub)

-----------------------------------------------------------------------------
(* What a key does when nothing holds it back. *)

OperatorError(h, ub) ==
    IF OerrLock THEN FlushTa(KybdlockSet(h, {"OERR"}), ub) ELSE h

(* key_AID once the ANSI and SSCP cases are out of the way: lock, record the  *)
(* aid, transmit.  In SSCP mode CLEAR takes no lock and only ENTER transmits. *)
SendAid(h, a, ok, ub) ==
    LET locked == IF InSscp(h) /\ a = "Clear"
                  THEN h
                  ELSE KybdlockSet(h, {"OIA_TWAIT", "OIA_LOCKED"})
        set    == [locked EXCEPT !.aid = a]
    IN  IF InSscp(h) /\ a # "Enter"
        THEN set
        ELSE NetRawout([set EXCEPT !.owed = @ \/ (ok /\ Connected(h))], ok, ub)

KeyAid(h, a, ok, ub) ==
    IF InAnsi(h)
    THEN NetRawout(h, ok, ub)
    ELSE IF InSscp(h) /\ "OIA_MINUS" \in h.lock
    THEN h
    ELSE IF InSscp(h) /\ a \notin {"Enter", "Clear"}
    THEN KybdlockSet(h, {"OIA_MINUS"})
    ELSE SendAid(h, a, ok, ub)

KeyCharacter(h, bad, ub) == IF bad THEN OperatorError(h, ub) ELSE h

LibTab(h, ok, ub) == IF InAnsi(h) THEN NetRawout(h, ok, ub) ELSE h

LibClear(h, ok, ub) ==
    IF InAnsi(h) THEN NetRawout(h, ok, ub)
    ELSE IF Connected(h) THEN KeyAid(h, "Clear", ok, ub) ELSE h

(* An entry of the queue, run by run_ta with the keyboard unlocked. *)
RunEntry(h, k, ok, bad, ub) ==
    CASE k = "Char"  -> KeyCharacter(h, bad, ub)
      [] k = "Tab"   -> LibTab(h, ok, ub)
      [] k = "Clear" -> LibClear(h, ok, ub)
      [] OTHER       -> KeyAid(h, k, ok, ub)

-----------------------------------------------------------------------------
(* do_reset: by the user (explicit) or by a keyboard restore of the host. *)

HeldForHost == {"DEFERRED_UNLOCK", "OIA_TWAIT", "OIA_LOCKED", "AWAITING_FIRST"}

(* Mutant: every restore defers, however old the deferral is. *)
UnlockNowIgnoresAge(h, explicit) == explicit \/ h.ft \/ ~UnlockDelay

UnlockNow(h, explicit) ==
    explicit \/ h.ft \/ ~UnlockDelay \/ h.stamp > 1

DeferUnlock(h) ==
    AddUnlockTimer(KybdlockSet(KybdlockClr(h, LockBit \ {"DEFERRED_UNLOCK"}),
                               {"DEFERRED_UNLOCK"}))

(* Mutant: a reset does not look whether there is a connection. *)
DoResetUnchecked(h, explicit, ub) ==
    IF (explicit \/ h.ft) /\ h.ta # <<>>
    THEN FlushTa(h, ub)
    ELSE IF UnlockNow(h, explicit)
    THEN KybdlockClr(RemoveDeferred(h), LockBit)
    ELSE IF h.lock \cap HeldForHost # {}
    THEN DeferUnlock(RemoveDeferred(h))
    ELSE h

DoReset(h, explicit, ub) ==
    IF (explicit \/ h.ft) /\ h.ta # <<>>
    THEN FlushTa(h, ub)
    ELSE IF ~Connected(h)
    THEN h
    ELSE IF UnlockNow(h, explicit)
    THEN KybdlockClr(RemoveDeferred(h), LockBit)
    ELSE IF h.lock \cap HeldForHost # {}
    THEN DeferUnlock(RemoveDeferred(h))
    ELSE h

-----------------------------------------------------------------------------
(* The user. *)

Idle == pc = "idle" /\ ~h3270.died

Bounded(h) == Len(h.ta) <= MaxTypeahead

Become(h) == Bounded(h) /\ h3270' = h /\ UNCHANGED pc

BecomeAndDrain(h, loop) == h3270' = h /\ pc' = loop

(* key_ACharacter: a character typed at the terminal.  In ANSI mode it goes   *)
(* out without a look at the lock (net_cookout drops it while AWAITING_FIRST  *)
(* is set); in the initial states it is dropped.                              *)
TypeChar ==
    /\ Idle
    /\ \/ /\ In3270(h3270) /\ h3270.lock # {}
          /\ Become(Enqueue(h3270, "Char"))
       \/ /\ In3270(h3270) /\ h3270.lock = {}
          /\ \E bad, ub \in BOOLEAN : Become(KeyCharacter(h3270, bad, ub))
       \/ /\ InAnsi(h3270) /\ "AWAITING_FIRST" \notin h3270.lock
          /\ \E ok, ub \in BOOLEAN : Become(NetRawout(h3270, ok, ub))

(* lib3270_tab: of the locks only an operator error is cleared by a Tab. *)
TypeTab ==
    /\ Idle
    /\ LET cleared == IF h3270.lock = {"OERR"}
                      THEN KybdlockClr(h3270, {"OERR"}) ELSE h3270
       IN  IF cleared.lock = {}
           THEN \E ok, ub \in BOOLEAN : Become(LibTab(cleared, ok, ub))
           ELSE Become(Enqueue(cleared, "Tab"))

(* lib3270_enter and lib3270_pakey. *)
TypeAid(k) ==
    /\ Idle
    /\ "OIA_MINUS" \notin h3270.lock
    /\ IF h3270.lock = {}
       THEN \E ok, ub \in BOOLEAN : Become(KeyAid(h3270, k, ok, ub))
       ELSE Become(Enqueue(h3270, k))

(* lib3270_pfkey: for an AS/400 host PA1 goes first, sent or queued. *)
TypePf ==
    /\ Idle
    /\ "OIA_MINUS" \notin h3270.lock
    /\ IF h3270.lock # {}
       THEN Become(Enqueue(IF As400 THEN Enqueue(h3270, "PA") ELSE h3270, "PF"))
       ELSE \E ok1, ok2, ub1, ub2 \in BOOLEAN :
              Become(KeyAid(IF As400 THEN KeyAid(h3270, "PA", ok1, ub1) ELSE h3270,
                            "PF", ok2, ub2))

TypeClear ==
    /\ Idle
    /\ "OIA_MINUS" \notin h3270.lock
    /\ IF h3270.lock # {} /\ Connected(h3270)
       THEN Become(Enqueue(h3270, "Clear"))
       ELSE \E ok, ub \in BOOLEAN : Become(LibClear(h3270, ok, ub))

(* lib3270_reset.  A reset that unlocks gives up the answer still owed. *)
TypeReset ==
    /\ Idle
    /\ \E ub \in BOOLEAN :
         Become([DoReset(h3270, TRUE, ub) EXCEPT !.owed = @ /\ h3270.ta # <<>>])

(* lib3270_ft_start: with the keyboard free, enter the IND$FILE command and   *)
(* its Enter, and only then note that a transfer is under way.                *)
FtStart ==
    /\ Idle /\ ~h3270.ft
    /\ In3270(h3270) /\ h3270.lock = {}
    /\ \E ok, ub \in BOOLEAN :
         Become([KeyAid(h3270, "Enter", ok, ub) EXCEPT !.ft = TRUE])

(* ft_complete, called by the DFT handlers or by a forced cancel. *)
FtComplete ==
    /\ Idle /\ h3270.ft
    /\ Become([h3270 EXCEPT !.ft = FALSE])

-----------------------------------------------------------------------------
(* The host. *)

Connect ==
    /\ Idle /\ ~Connected(h3270)
    /\ Become(HostConnected(h3270))

Disconnect ==
    /\ Idle /\ Connected(h3270)
    /\ \E ub \in BOOLEAN : Become(HostDisconnected(h3270, ub))

(* check_in3270 enters another mode; kybd_in3270 ends by draining the queue. *)
ChangeMode ==
    /\ Idle /\ Connected(h3270)
    /\ \E new \in CState \ {"NOT_CONNECTED", "CONNECTED_INITIAL", h3270.cstate} :
         BecomeAndDrain(HostIn3270(h3270, new), "kybd_in3270")

(* telnet_fsm, the first data before any negotiation: ANSI mode, and the     *)
(* keyboard is released and the queue drained.                                *)
FirstAnsiData ==
    /\ Idle /\ h3270.cstate = "CONNECTED_INITIAL"
    /\ LET h == FtIn3270(HostIn3270(h3270, "CONNECTED_ANSI"))
       IN  BecomeAndDrain(KybdlockClr(h, {"AWAITING_FIRST"}), "ps_process")

(* process_ds is reached in the two modes that carry 3270 records. *)
InDataStream == Idle /\ h3270.cstate \in {"CONNECTED_3270", "CONNECTED_TN3270E"}

(* aid = AID_NO; do_reset(False) *)
KeyboardRestore(h, ub) ==
    DoReset([h EXCEPT !.aid = AID_NO, !.owed = FALSE], FALSE, ub)

(* Mutant: a write without restore releases the keyboard as well. *)
CtlrWriteReleases(restore) ==
    /\ InDataStream
    /\ LET w == KybdInhibit(h3270, FALSE)
       IN  IF restore
           THEN \E ub \in BOOLEAN : BecomeAndDrain(KeyboardRestore(w, ub), "ps_process")
           ELSE BecomeAndDrain(KybdlockClr(w, {"OIA_TWAIT", "OIA_LOCKED"}), "ps_process")

(* Write, Erase/Write and their alternates: ctlr_write. *)
CtlrWrite(restore) ==
    /\ InDataStream
    /\ LET w == KybdInhibit(h3270, FALSE)
       IN  IF restore
           THEN \E ub \in BOOLEAN : BecomeAndDrain(KeyboardRestore(w, ub), "ps_process")
           ELSE BecomeAndDrain(KybdlockClr(w, {"OIA_TWAIT"}), "ps_process")

(* A write record with no WCC is refused after the inhibit has been cleared;  *)
(* an EraseReset structured field clears it too and writes nothing.           *)
ClearInhibitOnly ==
    /\ InDataStream
    /\ Become(KybdInhibit(h3270, FALSE))

CtlrEraseAllUnprotected ==
    /\ InDataStream
    /\ \E ub \in BOOLEAN : Become(KeyboardRestore(KybdInhibit(h3270, FALSE), ub))

(* A query: the reply is transmitted and the keyboard inhibited until the     *)
(* host writes (query_reply_end).                                             *)
QueryReply ==
    /\ InDataStream
    /\ \E ok, ub \in BOOLEAN : Become(KybdInhibit(NetRawout(h3270, ok, ub), TRUE))

CtlrWriteSscpLu ==
    /\ Idle /\ InSscp(h3270)
    /\ \E ub \in BOOLEAN : Become(KeyboardRestore(h3270, ub))

-----------------------------------------------------------------------------
(* ps_process: run the queue while the keyboard stays unlocked. *)

Draining == pc # "idle" /\ ~h3270.died

RunTa ==
    /\ Draining
    /\ h3270.lock = {} /\ h3270.ta # <<>>
    /\ \E ok, bad, ub \in BOOLEAN :
         h3270' = RunEntry([h3270 EXCEPT !.ta = Tail(@)], Head(h3270.ta), ok, bad, ub)
    /\ UNCHANGED pc

(* What its caller does after the loop: the end of kybd_in3270 informs the    *)
(* file transfer of the mode.                                                 *)
AfterLoop(h) == IF pc = "kybd_in3270" THEN FtIn3270(h) ELSE h

(* The loop is over.  During a CUT transfer an unlocked screen may hold a     *)
(* frame of the host (the frame is outside this model, so either may happen): *)
(* ft_cut_data answers it with Enter, or with PF2 to abort, and may end the   *)
(* transfer.  A loop run by a mode change is followed by ft_in3270.           *)
PsProcessDone ==
    /\ Draining
    /\ h3270.lock # {} \/ h3270.ta = <<>>
    /\ pc' = "idle"
    /\ \/ h3270' = AfterLoop(h3270)
       \/ /\ h3270.ft /\ h3270.lock = {}
          /\ \E a \in {"Enter", "PF"}, ok, ub, more \in BOOLEAN :
               h3270' = AfterLoop([KeyAid(h3270, a, ok, ub) EXCEPT !.ft = @ /\ more])

-----------------------------------------------------------------------------
(* Time. *)

Expire(clock) ==
    /\ ~h3270.died
    /\ h3270.timers > 0 /\ h3270.clock = clock
    /\ h3270' = [h3270 EXCEPT !.clock = "expired"]
    /\ UNCHANGED pc

(* Mutant: the queue is not drained. *)
DeferUnlockFiresUndrained ==
    /\ Idle /\ h3270.timers > 0 /\ h3270.clock = "expired"
    /\ Become(KybdlockClr(RemoveUnlockTimer(h3270), {"DEFERRED_UNLOCK"}))

(* defer_unlock, called by the timer; the queue is then drained. *)
DeferUnlockFires ==
    /\ Idle /\ h3270.timers > 0 /\ h3270.clock = "expired"
    /\ LET h == KybdlockClr(RemoveUnlockTimer(h3270), {"DEFERRED_UNLOCK"})
       IN  IF Connected(h) THEN BecomeAndDrain(h, "ps_process") ELSE Become(h)

(* A second passes; a timer of 350 ms does not live through two of them. *)
Second ==
    /\ ~h3270.died
    /\ h3270.timers > 0 => h3270.clock # "old"
    /\ h3270' = [h3270 EXCEPT !.clock = IF @ = "new" /\ h3270.timers > 0 THEN "old" ELSE @,
                              !.stamp = IF @ \in 0 .. MaxAge - 1 THEN @ + 1 ELSE @]
    /\ UNCHANGED pc

-----------------------------------------------------------------------------
User == \/ TypeChar \/ TypeTab \/ TypePf \/ TypeClear \/ TypeReset
        \/ TypeAid("Enter") \/ TypeAid("PA")
        \/ FtStart \/ FtComplete

Host == \/ Connect \/ Disconnect \/ ChangeMode \/ FirstAnsiData
        \/ \E restore \in BOOLEAN : CtlrWrite(restore)
        \/ ClearInhibitOnly \/ CtlrEraseAllUnprotected
        \/ QueryReply \/ CtlrWriteSscpLu

Program == RunTa \/ PsProcessDone \/ DeferUnlockFires

Time == Second \/ Expire("new") \/ Expire("old")

Next == User \/ Host \/ Program \/ Time

Spec == Init /\ [][Next]_vars

(* A loop of the code goes on to its end, time passes and an old timer        *)
(* expires unless it is removed; the main loop calls a timer that has expired *)
(* whatever else it has to do.  Nothing forces a new timer to expire before   *)
(* the host restores the keyboard again and sets another.                     *)
Fairness == /\ WF_vars(RunTa) /\ WF_vars(PsProcessDone)
            /\ WF_vars(Second) /\ WF_vars(Expire("old"))
            /\ SF_vars(DeferUnlockFires)

FairSpec == Spec /\ Fairness

-----------------------------------------------------------------------------
(* Safety. *)

(* The keyboard is marked not connected exactly while there is no connection; *)
(* neither a reset, a mode change, a late timer nor a failed write in the     *)
(* middle of a handler may part the two (kybd_connect, do_reset).             *)
LockMatchesConnection ==
    "NOT_CONNECTED" \in h3270.lock <=> ~Connected(h3270)

(* The unlock is deferred exactly while one timer is there to end it, and the *)
(* time stamp is set just as long: no path forgets to remove the timer, sets  *)
(* a second one, or removes one that has fired (do_reset, kybd_connect,       *)
(* kybd_in3270, defer_unlock).                                                *)
DeferredHasTimer ==
    /\ "DEFERRED_UNLOCK" \in h3270.lock <=> h3270.timers = 1
    /\ "DEFERRED_UNLOCK" \in h3270.lock <=> h3270.stamp # NoStamp

(* Keystrokes wait only for the session they were typed in: a disconnection,  *)
(* also one met while a handler sends, leaves none to be replayed into the    *)
(* next session (kybd_connect, enq_chk).                                      *)
NoReplayAcrossSessions == h3270.ta # <<>> => Connected(h3270)

(* An AID the host has not answered keeps the keyboard locked, whatever else  *)
(* is set and cleared meanwhile: a write with no restore, a query, an erase,  *)
(* a timer of an earlier restore (key_AID, ctlr_write).                       *)
AidHoldsLock == h3270.owed => "OIA_LOCKED" \in h3270.lock

Stranded == Idle /\ h3270.lock = {} /\ h3270.ta # <<>>

(* Keystrokes left in the queue of an unlocked keyboard wait for an unrelated *)
(* event, and the next key overtakes them.  Only the handlers that release    *)
(* the keyboard without a call of ps_process leave any; a write, a mode       *)
(* change, a reset and the unlock timer never do.                             *)
OnlyUndrainedHandlersStrand ==
    [][~Stranded /\ Stranded'
       => ClearInhibitOnly \/ CtlrEraseAllUnprotected \/ CtlrWriteSscpLu]_vars

(* Liveness. *)

(* However often the host restores the keyboard and so puts the unlock off,   *)
(* it comes: after a second of deferral do_reset unlocks at once.  It may     *)
(* stay away only if the host queries the terminal for ever.                  *)
DeferredUnlockComes ==
    \/ []<><<QueryReply>>_vars
    \/ "DEFERRED_UNLOCK" \in h3270.lock
          ~> "DEFERRED_UNLOCK" \notin h3270.lock \/ h3270.died
=============================================================================
