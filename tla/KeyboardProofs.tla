---------------------------- MODULE KeyboardProofs ----------------------------
(***************************************************************************)
(* Proofs of the safety invariants of Keyboard, for every setting of the   *)
(* switches and every bound on the queue.  The argument follows the code:  *)
(* first what setting and clearing bits of the lock word keeps, then one   *)
(* lemma for each helper that hands on a whole session, then the actions.  *)
(***************************************************************************)
EXTENDS Keyboard, TLAPS

(* Between two statements of a handler the lock word and the connection may   *)
(* disagree; the timer, the stamp and the deferred bit never do.              *)
Timed(h) ==
    /\ h \in Session
    /\ h.timers \in 0 .. 1
    /\ "DEFERRED_UNLOCK" \in h.lock <=> h.timers = 1
    /\ "DEFERRED_UNLOCK" \in h.lock <=> h.stamp # NoStamp

(* What holds of the session whenever a handler hands it on; a keyboard       *)
(* restore may part the last conjunct from the rest for a statement or two.   *)
Sane(h) ==
    /\ Timed(h)
    /\ "NOT_CONNECTED" \in h.lock <=> ~Connected(h)
    /\ h.ta # <<>> => Connected(h)

Sound(h) ==
    /\ Sane(h)
    /\ h.owed => "OIA_LOCKED" \in h.lock

(* The inductive invariant. *)
IInv == /\ Sound(h3270)
        /\ Len(h3270.ta) <= MaxTypeahead
        /\ pc \in {"idle", "ps_process", "kybd_in3270"}

(* A change of the lock word, the stamp and the timer alone. *)
LockOnly(h, g) ==
    /\ g.cstate = h.cstate /\ g.ta = h.ta /\ g.aid = h.aid
    /\ g.owed = h.owed /\ g.ft = h.ft /\ g.died = h.died

(* A session with another lock word, stamp and timer. *)
Relock(h, word, age, n, c) ==
    [h EXCEPT !.lock = word, !.stamp = age, !.timers = n, !.clock = c]

(* A change of the lock word, its stamp and its timer leaves the rest alone.  *)
LEMMA RelockSession ==
    ASSUME NEW h \in Session, NEW word \in SUBSET LockBit, NEW age \in NoStamp .. MaxAge,
           NEW n \in Int, NEW c \in TimerClock
    PROVE  /\ Relock(h, word, age, n, c) \in Session
           /\ Relock(h, word, age, n, c).lock = word
           /\ Relock(h, word, age, n, c).stamp = age
           /\ Relock(h, word, age, n, c).timers = n
           /\ LockOnly(h, Relock(h, word, age, n, c))
  BY DEF Session, LockOnly, Relock

(* The types of the parts of a session that the lemmas change. *)
LEMMA SessionParts ==
    ASSUME NEW h \in Session
    PROVE  /\ h.lock \in SUBSET LockBit /\ h.stamp \in NoStamp .. MaxAge
           /\ h.timers \in Int /\ h.clock \in TimerClock
           /\ h.cstate \in CState /\ h.ta \in Seq(Key) /\ h.aid \in AidKey \cup {AID_NO}
           /\ h.owed \in BOOLEAN /\ h.ft \in BOOLEAN /\ h.died \in BOOLEAN
  BY DEF Session

(* Setting bits other than DEFERRED_UNLOCK (kybdlock_set). *)
LEMMA SetTimed ==
    ASSUME NEW h, Timed(h), NEW bits \in SUBSET (LockBit \ {"DEFERRED_UNLOCK"})
    PROVE  /\ Timed(KybdlockSet(h, bits))
           /\ LockOnly(h, KybdlockSet(h, bits))
           /\ KybdlockSet(h, bits).lock = h.lock \cup bits
<1>1. h \in Session
  BY DEF Timed
<1>2. CASE bits \subseteq h.lock
  BY <1>2 DEF KybdlockSet, LockOnly
<1>3. CASE ~(bits \subseteq h.lock)
  <2> DEFINE age == IF "DEFERRED_UNLOCK" \in h.lock THEN 0 ELSE h.stamp
             word == h.lock \cup bits
  <2>1. KybdlockSet(h, bits) = Relock(h, word, age, h.timers, h.clock)
    BY <1>1, <1>3 DEF KybdlockSet, Relock, Session
  <2>2. age \in NoStamp .. MaxAge /\ word \in SUBSET LockBit
    BY <1>1, SessionParts DEF NoStamp, MaxAge
  <2>3. "DEFERRED_UNLOCK" \in word <=> age # NoStamp
    BY <1>1 DEF Timed, NoStamp
  <2>4. "DEFERRED_UNLOCK" \in word <=> h.timers = 1
    BY DEF Timed
  <2> HIDE DEF age, word
  <2> QED
    BY <1>1, <2>1, <2>2, <2>3, <2>4, RelockSession, SessionParts DEF Timed, word
<1> QED
  BY <1>2, <1>3

(* Clearing bits other than DEFERRED_UNLOCK (kybdlock_clr). *)
LEMMA ClrTimed ==
    ASSUME NEW h, Timed(h), NEW bits \in SUBSET (LockBit \ {"DEFERRED_UNLOCK"})
    PROVE  /\ Timed(KybdlockClr(h, bits))
           /\ LockOnly(h, KybdlockClr(h, bits))
           /\ KybdlockClr(h, bits).lock = h.lock \ bits
<1>1. h \in Session
  BY DEF Timed
<1>2. KybdlockClr(h, bits) = Relock(h, h.lock \ bits, h.stamp, h.timers, h.clock)
  BY <1>1 DEF KybdlockClr, Relock, Session
<1>3. h.lock \ bits \in SUBSET LockBit
  BY <1>1, SessionParts
<1> QED
  BY <1>1, <1>2, <1>3, RelockSession, SessionParts DEF Timed

(* Removing the timer of a deferred unlock and clearing its bit with others. *)
LEMMA ReleaseTimed ==
    ASSUME NEW h, Timed(h), NEW bits \in SUBSET LockBit, "DEFERRED_UNLOCK" \in bits
    PROVE  /\ Timed(KybdlockClr(RemoveDeferred(h), bits))
           /\ LockOnly(h, KybdlockClr(RemoveDeferred(h), bits))
           /\ KybdlockClr(RemoveDeferred(h), bits).lock = h.lock \ bits
<1>1. h \in Session
  BY DEF Timed
<1>2. h.lock \ bits \in SUBSET LockBit
  BY <1>1, SessionParts
<1>3. CASE "DEFERRED_UNLOCK" \in h.lock
  <2>1. h.timers = 1 /\ "new" \in TimerClock /\ NoStamp \in NoStamp .. MaxAge
    BY <1>3 DEF Timed, TimerClock, NoStamp, MaxAge
  <2>2. RemoveDeferred(h) = [h EXCEPT !.timers = 0, !.clock = "new"]
    BY <1>1, <1>3, <2>1 DEF RemoveDeferred, RemoveUnlockTimer, Session
  <2>3. KybdlockClr(RemoveDeferred(h), bits) = Relock(h, h.lock \ bits, NoStamp, 0, "new")
    BY <1>1, <1>3, <2>2 DEF KybdlockClr, Relock, Session
  <2> QED
    BY <1>1, <1>2, <2>1, <2>3, RelockSession DEF Timed
<1>4. CASE "DEFERRED_UNLOCK" \notin h.lock
  <2>1. KybdlockClr(RemoveDeferred(h), bits)
          = Relock(h, h.lock \ bits, h.stamp, h.timers, h.clock)
    BY <1>1, <1>4 DEF KybdlockClr, RemoveDeferred, Relock, Session
  <2> QED
    BY <1>1, <1>2, <1>4, <2>1, RelockSession, SessionParts DEF Timed
<1> QED
  BY <1>3, <1>4

(* flush_ta leaves an empty queue and the lock word as it was. *)
LEMMA FlushSane ==
    ASSUME NEW h, Timed(h), NEW ub \in BOOLEAN
    PROVE  /\ Timed(FlushTa(h, ub))
           /\ FlushTa(h, ub).lock = h.lock /\ FlushTa(h, ub).cstate = h.cstate
           /\ FlushTa(h, ub).ta = <<>> /\ FlushTa(h, ub).owed = h.owed
<1>1. h \in Session
  BY DEF Timed
<1> DEFINE d == h.died \/ (ub /\ \E i \in DOMAIN h.ta : h.ta[i] \in KeyAidEntry)
<1>2. d \in BOOLEAN
  OBVIOUS
<1>3. PICK t \in Seq(Key) : t = <<>>
  <2>1. <<>> \in Seq(Key)
    OBVIOUS
  <2> QED
    BY <2>1, Zenon
<1>4. FlushTa(h, ub) = [h EXCEPT !.ta = t, !.died = d]
  BY <1>3, Zenon DEF FlushTa
<1> HIDE DEF d
<1>5. /\ FlushTa(h, ub) \in Session
      /\ FlushTa(h, ub).lock = h.lock /\ FlushTa(h, ub).cstate = h.cstate
      /\ FlushTa(h, ub).ta = t /\ FlushTa(h, ub).owed = h.owed
      /\ FlushTa(h, ub).timers = h.timers /\ FlushTa(h, ub).stamp = h.stamp
  BY <1>1, <1>2, <1>4 DEF Session
<1> QED
  BY <1>3, <1>5 DEF Timed

(* A transfer that starts or ends changes nothing else of the session. *)
LEMMA FtSound ==
    ASSUME NEW h, Sound(h), NEW f \in BOOLEAN
    PROVE  LET g == [h EXCEPT !.ft = f]
           IN  Sound(g) /\ g.ta = h.ta /\ g.lock = h.lock /\ g.cstate = h.cstate
<1> DEFINE g == [h EXCEPT !.ft = f]
<1>1. /\ g \in Session /\ g.ta = h.ta /\ g.lock = h.lock /\ g.cstate = h.cstate
      /\ g.owed = h.owed /\ g.timers = h.timers /\ g.stamp = h.stamp
  BY DEF Sound, Sane, Timed, Session
<1> HIDE DEF g
<1>2. Sound(g)
  BY <1>1 DEF Sound, Sane, Timed, Connected
<1> QED
  BY <1>1, <1>2 DEF g

(* The end of a transfer touches neither the lock nor the queue. *)
LEMMA FtEndSound ==
    ASSUME NEW h, Sound(h)
    PROVE  /\ Sound(FtConnected(h)) /\ FtConnected(h).ta = h.ta
           /\ FtConnected(h).cstate = h.cstate /\ FtConnected(h).lock = h.lock
           /\ Sound(FtIn3270(h)) /\ FtIn3270(h).ta = h.ta
           /\ FtIn3270(h).cstate = h.cstate /\ FtIn3270(h).lock = h.lock
  BY FtSound DEF FtConnected, FtIn3270

(* The callbacks that run before kybd_connect and kybd_in3270. *)
LEMMA CtlrConnectTimed ==
    ASSUME NEW h, Timed(h)
    PROVE  /\ Timed(CtlrConnect(h)) /\ LockOnly(h, CtlrConnect(h))
           /\ Timed(StatusConnect(h)) /\ LockOnly(h, StatusConnect(h))
<1>1. {"OIA_TWAIT"} \in SUBSET (LockBit \ {"DEFERRED_UNLOCK"})
  BY DEF LockBit
<1>2. {"ENTER_INHIBIT"} \in SUBSET (LockBit \ {"DEFERRED_UNLOCK"})
  BY DEF LockBit
<1>3. LockOnly(h, h)
  BY DEF LockOnly
<1> QED
  BY <1>1, <1>2, <1>3, ClrTimed DEF CtlrConnect, StatusConnect, KybdInhibit

(* A handler hands on a sound session whose queue it has not lengthened. *)
Keeps(h, g) == Sound(g) /\ (g.ta = h.ta \/ g.ta = <<>>)

(* From the change of cstate through the callbacks of host_connected; the     *)
(* lock word and the connection need not have agreed before.                  *)
LEMMA HostConnectedSound ==
    ASSUME NEW h, Timed(h)
    PROVE  Keeps(h, HostConnected(h)) /\ HostConnected(h).lock = {"AWAITING_FIRST"}
<1>1. h \in Session
  BY DEF Timed
<1> DEFINE c  == [h EXCEPT !.cstate = "CONNECTED_INITIAL", !.owed = FALSE]
           c1 == CtlrConnect(c)
           c2 == StatusConnect(c1)
           c3 == KybdlockClr(RemoveDeferred(c2), LockBit)
           c4 == KybdlockSet(c3, {"AWAITING_FIRST"})
<1>2. /\ Timed(c) /\ c.ta = h.ta /\ c.owed = FALSE /\ c.cstate = "CONNECTED_INITIAL"
  <2>1. /\ c \in Session /\ c.ta = h.ta /\ c.owed = FALSE /\ c.cstate = "CONNECTED_INITIAL"
        /\ c.lock = h.lock /\ c.timers = h.timers /\ c.stamp = h.stamp
    BY <1>1 DEF Session, CState
  <2> QED
    BY <2>1 DEF Timed
<1>3. KybdConnect(c2, TRUE, FALSE) = c4
  BY DEF KybdConnect
<1>4. HostConnected(h) = FtConnected(c4)
  BY <1>3 DEF HostConnected
<1> HIDE DEF c
<1>5. Timed(c1) /\ LockOnly(c, c1)
  BY <1>2, CtlrConnectTimed
<1> HIDE DEF c1
<1>6. Timed(c2) /\ LockOnly(c1, c2)
  BY <1>5, CtlrConnectTimed
<1> HIDE DEF c2
<1>7. Timed(c3) /\ LockOnly(c2, c3) /\ c3.lock = c2.lock \ LockBit /\ c2.lock \subseteq LockBit
  BY <1>6, ReleaseTimed DEF LockBit, Timed, Session
<1> HIDE DEF c3
<1>8. Timed(c4) /\ LockOnly(c3, c4) /\ c4.lock = {"AWAITING_FIRST"}
  <2>1. {"AWAITING_FIRST"} \in SUBSET (LockBit \ {"DEFERRED_UNLOCK"})
    BY DEF LockBit
  <2> QED
    BY <1>7, <2>1, SetTimed
<1> HIDE DEF c4
<1>9. c4.ta = h.ta /\ c4.owed = FALSE /\ c4.cstate = "CONNECTED_INITIAL"
  BY <1>2, <1>5, <1>6, <1>7, <1>8 DEF LockOnly
<1>10. Sound(c4)
  BY <1>8, <1>9 DEF Sound, Sane, Connected
<1> QED
  BY <1>4, <1>8, <1>9, <1>10, FtEndSound DEF Keeps

(* The same through host_disconnected. *)
LEMMA HostDisconnectedSound ==
    ASSUME NEW h, Timed(h), NEW ub \in BOOLEAN
    PROVE  Keeps(h, HostDisconnected(h, ub)) /\ HostDisconnected(h, ub).ta = <<>>
<1>1. h \in Session
  BY DEF Timed
<1> DEFINE c  == [h EXCEPT !.cstate = "NOT_CONNECTED", !.owed = FALSE]
           c1 == CtlrConnect(c)
           c2 == StatusConnect(c1)
           c3 == KybdlockClr(RemoveDeferred(c2), LockBit)
           c4 == KybdlockSet(c3, {"NOT_CONNECTED"})
           c5 == FlushTa(c4, ub)
<1>2. Timed(c) /\ c.owed = FALSE /\ c.cstate = "NOT_CONNECTED"
  <2>1. /\ c \in Session /\ c.owed = FALSE /\ c.cstate = "NOT_CONNECTED"
        /\ c.lock = h.lock /\ c.timers = h.timers /\ c.stamp = h.stamp
    BY <1>1 DEF Session, CState
  <2> QED
    BY <2>1 DEF Timed
<1>3. KybdConnect(c2, FALSE, ub) = c5
  BY DEF KybdConnect
<1>4. HostDisconnected(h, ub) = FtConnected(c5)
  BY <1>3 DEF HostDisconnected
<1> HIDE DEF c
<1>5. Timed(c1) /\ LockOnly(c, c1)
  BY <1>2, CtlrConnectTimed
<1> HIDE DEF c1
<1>6. Timed(c2) /\ LockOnly(c1, c2)
  BY <1>5, CtlrConnectTimed
<1> HIDE DEF c2
<1>7. Timed(c3) /\ LockOnly(c2, c3) /\ c3.lock = c2.lock \ LockBit /\ c2.lock \subseteq LockBit
  BY <1>6, ReleaseTimed DEF LockBit, Timed, Session
<1> HIDE DEF c3
<1>8. Timed(c4) /\ LockOnly(c3, c4) /\ c4.lock = {"NOT_CONNECTED"}
  <2>1. {"NOT_CONNECTED"} \in SUBSET (LockBit \ {"DEFERRED_UNLOCK"})
    BY DEF LockBit
  <2> QED
    BY <1>7, <2>1, SetTimed
<1> HIDE DEF c4
<1>9. /\ Timed(c5) /\ c5.lock = {"NOT_CONNECTED"} /\ c5.ta = <<>>
      /\ c5.owed = FALSE /\ c5.cstate = "NOT_CONNECTED"
  BY <1>2, <1>5, <1>6, <1>7, <1>8, FlushSane DEF LockOnly
<1> HIDE DEF c5
<1>10. Sound(c5)
  BY <1>9 DEF Sound, Sane, Connected
<1> QED
  BY <1>4, <1>9, <1>10, FtEndSound DEF Keeps

(* Clearing bits that mark neither the connection, the timer nor the wait.   *)
LEMMA ClrSound ==
    ASSUME NEW h, Sound(h),
           NEW bits \in SUBSET (LockBit \ {"DEFERRED_UNLOCK", "NOT_CONNECTED", "OIA_LOCKED"})
    PROVE  /\ Sound(KybdlockClr(h, bits)) /\ LockOnly(h, KybdlockClr(h, bits))
           /\ KybdlockClr(h, bits).lock = h.lock \ bits
<1>1. bits \in SUBSET (LockBit \ {"DEFERRED_UNLOCK"})
  OBVIOUS
<1>2. /\ Timed(KybdlockClr(h, bits)) /\ LockOnly(h, KybdlockClr(h, bits))
      /\ KybdlockClr(h, bits).lock = h.lock \ bits
  BY <1>1, ClrTimed DEF Sound, Sane
<1> QED
  BY <1>2 DEF Sound, Sane, LockOnly, Connected

(* Setting bits that mark neither the connection nor the timer. *)
LEMMA SetSound ==
    ASSUME NEW h, Sound(h),
           NEW bits \in SUBSET (LockBit \ {"DEFERRED_UNLOCK", "NOT_CONNECTED"})
    PROVE  /\ Sound(KybdlockSet(h, bits)) /\ LockOnly(h, KybdlockSet(h, bits))
           /\ KybdlockSet(h, bits).lock = h.lock \cup bits
<1>1. bits \in SUBSET (LockBit \ {"DEFERRED_UNLOCK"})
  OBVIOUS
<1>2. /\ Timed(KybdlockSet(h, bits)) /\ LockOnly(h, KybdlockSet(h, bits))
      /\ KybdlockSet(h, bits).lock = h.lock \cup bits
  BY <1>1, SetTimed DEF Sound, Sane
<1> QED
  BY <1>2 DEF Sound, Sane, LockOnly, Connected

(* A mode change of a connected session (host_in3270, kybd_in3270). *)
LEMMA HostIn3270Sound ==
    ASSUME NEW h, Timed(h), NEW new \in CState \ {"NOT_CONNECTED"}
    PROVE  /\ Sound(HostIn3270(h, new)) /\ HostIn3270(h, new).ta = h.ta
           /\ HostIn3270(h, new).cstate = new /\ HostIn3270(h, new).owed = FALSE
           /\ HostIn3270(h, new).lock \subseteq {"AWAITING_FIRST"}
<1>1. h \in Session
  BY DEF Timed
<1> DEFINE c  == [h EXCEPT !.cstate = new, !.owed = FALSE]
           c1 == CtlrConnect(c)
           c2 == KybdlockClr(RemoveDeferred(c1), LockBit \ {"AWAITING_FIRST"})
<1>2. Timed(c) /\ c.ta = h.ta /\ c.owed = FALSE /\ c.cstate = new
  <2>1. /\ c \in Session /\ c.ta = h.ta /\ c.owed = FALSE /\ c.cstate = new
        /\ c.lock = h.lock /\ c.timers = h.timers /\ c.stamp = h.stamp
    BY <1>1 DEF Session
  <2> QED
    BY <2>1 DEF Timed
<1>3. HostIn3270(h, new) = c2
  BY DEF HostIn3270, KybdIn3270
<1> HIDE DEF c
<1>4. Timed(c1) /\ LockOnly(c, c1)
  BY <1>2, CtlrConnectTimed
<1> HIDE DEF c1
<1>5. /\ Timed(c2) /\ LockOnly(c1, c2) /\ c2.lock = c1.lock \ (LockBit \ {"AWAITING_FIRST"})
      /\ c1.lock \subseteq LockBit
  <2>1. /\ LockBit \ {"AWAITING_FIRST"} \in SUBSET LockBit
        /\ "DEFERRED_UNLOCK" \in LockBit \ {"AWAITING_FIRST"}
    BY DEF LockBit
  <2> QED
    BY <1>4, <2>1, ReleaseTimed DEF Timed, Session
<1> HIDE DEF c2
<1>6. c2.ta = h.ta /\ c2.owed = FALSE /\ c2.cstate = new /\ "NOT_CONNECTED" \notin c2.lock
  BY <1>2, <1>4, <1>5 DEF LockOnly, LockBit
<1> QED
  BY <1>3, <1>5, <1>6 DEF Sound, Sane, Connected

(* Transmission (net_rawout), whatever send() answers. *)
LEMMA NetRawoutKeeps ==
    ASSUME NEW h, Sound(h), NEW ok \in BOOLEAN, NEW ub \in BOOLEAN
    PROVE  Keeps(h, NetRawout(h, ok, ub))
  BY HostDisconnectedSound DEF NetRawout, HostDisconnect, Keeps, Sound, Sane

(* What one statement keeps and the next keeps, both keep. *)
LEMMA KeepsTransitive ==
    ASSUME NEW f, NEW g, NEW h, Keeps(f, g), Keeps(g, h)
    PROVE  Keeps(f, h)
  BY DEF Keeps

(* An operator error locks the keyboard and flushes the queue. *)
LEMMA OperatorErrorKeeps ==
    ASSUME NEW h, Sound(h), NEW ub \in BOOLEAN
    PROVE  Keeps(h, OperatorError(h, ub))
<1> DEFINE g == KybdlockSet(h, {"OERR"})
<1>1. {"OERR"} \in SUBSET (LockBit \ {"DEFERRED_UNLOCK", "NOT_CONNECTED"})
  BY DEF LockBit
<1>2. Sound(g) /\ LockOnly(h, g)
  BY <1>1, SetSound
<1>3. Keeps(h, h)
  BY DEF Keeps
<1> HIDE DEF g
<1>4. Keeps(h, FlushTa(g, ub))
  BY <1>2, FlushSane DEF Keeps, Sound, Sane, Connected
<1> QED
  BY <1>3, <1>4 DEF OperatorError, g

(* Recording the aid, or that it is owed an answer, of a locked keyboard. *)
LEMMA AidSound ==
    ASSUME NEW h, Sound(h), NEW a \in AidKey \cup {AID_NO}
    PROVE  LET g == [h EXCEPT !.aid = a]
           IN  Sound(g) /\ g.lock = h.lock /\ g.ta = h.ta /\ g.cstate = h.cstate
<1> DEFINE g == [h EXCEPT !.aid = a]
<1>1. /\ g \in Session /\ g.lock = h.lock /\ g.ta = h.ta /\ g.cstate = h.cstate
      /\ g.owed = h.owed /\ g.timers = h.timers /\ g.stamp = h.stamp
  BY DEF Session, Sound, Sane, Timed
<1> HIDE DEF g
<1>2. Sound(g)
  BY <1>1 DEF Sound, Sane, Timed, Connected
<1> QED
  BY <1>1, <1>2 DEF g

(* An answer may be owed once the keyboard is locked for the host. *)
LEMMA OwedSound ==
    ASSUME NEW h, Sane(h), NEW o \in BOOLEAN, o => "OIA_LOCKED" \in h.lock
    PROVE  LET g == [h EXCEPT !.owed = o]
           IN  Sound(g) /\ g.lock = h.lock /\ g.ta = h.ta
<1> DEFINE g == [h EXCEPT !.owed = o]
<1>1. /\ g \in Session /\ g.lock = h.lock /\ g.ta = h.ta /\ g.cstate = h.cstate
      /\ g.timers = h.timers /\ g.stamp = h.stamp
  BY DEF Session, Sane, Timed
<1>2. g.owed = o
  BY DEF Session, Sane, Timed
<1> HIDE DEF g
<1>3. Sound(g)
  BY <1>1, <1>2 DEF Sound, Sane, Timed, Connected
<1> QED
  BY <1>1, <1>3 DEF g

(* key_AID past its early returns. *)
LEMMA SendAidKeeps ==
    ASSUME NEW h, Sound(h), NEW a \in AidKey, NEW ok \in BOOLEAN, NEW ub \in BOOLEAN
    PROVE  Keeps(h, SendAid(h, a, ok, ub))
<1> DEFINE locked == IF InSscp(h) /\ a = "Clear"
                     THEN h
                     ELSE KybdlockSet(h, {"OIA_TWAIT", "OIA_LOCKED"})
           set    == [locked EXCEPT !.aid = a]
           o      == set.owed \/ (ok /\ Connected(h))
           sent   == [set EXCEPT !.owed = o]
<1>1. {"OIA_TWAIT", "OIA_LOCKED"} \in SUBSET (LockBit \ {"DEFERRED_UNLOCK", "NOT_CONNECTED"})
  BY DEF LockBit
<1>2. /\ Sound(locked) /\ locked.ta = h.ta
      /\ ~(InSscp(h) /\ a = "Clear") => "OIA_LOCKED" \in locked.lock
  BY <1>1, SetSound DEF LockOnly
<1>3. SendAid(h, a, ok, ub) = IF InSscp(h) /\ a # "Enter" THEN set
                              ELSE NetRawout(sent, ok, ub)
  BY Zenon DEF SendAid
<1> HIDE DEF locked
<1>4. Sound(set) /\ set.ta = h.ta /\ set.lock = locked.lock
  BY <1>2, AidSound
<1> HIDE DEF set
<1>5. Keeps(h, set)
  BY <1>4 DEF Keeps
<1>6. ASSUME ~(InSscp(h) /\ a # "Enter")
      PROVE  Keeps(h, NetRawout(sent, ok, ub))
  <2>1. "OIA_LOCKED" \in set.lock
    BY <1>2, <1>4, <1>6
  <2>2. Sane(set) /\ set.owed \in BOOLEAN
    BY <1>4 DEF Sound, Sane, Timed, Session
  <2>3. o \in BOOLEAN
    BY <2>2
  <2> HIDE DEF o
  <2>4. Sound(sent) /\ sent.ta = set.ta
    BY <2>1, <2>2, <2>3, OwedSound
  <2> HIDE DEF sent
  <2>5. Keeps(set, sent)
    BY <2>4 DEF Keeps
  <2> QED
    BY <1>5, <2>4, <2>5, NetRawoutKeeps, KeepsTransitive
<1> QED
  BY <1>3, <1>5, <1>6

(* An attention key locks the keyboard before it is sent. *)
LEMMA KeyAidKeeps ==
    ASSUME NEW h, Sound(h), NEW a \in AidKey, NEW ok \in BOOLEAN, NEW ub \in BOOLEAN
    PROVE  Keeps(h, KeyAid(h, a, ok, ub))
<1>1. Keeps(h, h)
  BY DEF Keeps
<1>2. Keeps(h, KybdlockSet(h, {"OIA_MINUS"}))
  <2>1. {"OIA_MINUS"} \in SUBSET (LockBit \ {"DEFERRED_UNLOCK", "NOT_CONNECTED"})
    BY DEF LockBit
  <2> QED
    BY <2>1, SetSound DEF Keeps, LockOnly
<1> QED
  BY <1>1, <1>2, NetRawoutKeeps, SendAidKeeps DEF KeyAid

(* Every key that the queue or the user sets off. *)
LEMMA RunEntryKeeps ==
    ASSUME NEW h, Sound(h), NEW k \in Key, NEW ok \in BOOLEAN, NEW bad \in BOOLEAN,
           NEW ub \in BOOLEAN
    PROVE  /\ Keeps(h, KeyCharacter(h, bad, ub))
           /\ Keeps(h, LibTab(h, ok, ub))
           /\ Keeps(h, LibClear(h, ok, ub))
           /\ Keeps(h, RunEntry(h, k, ok, bad, ub))
<1>1. Keeps(h, h)
  BY DEF Keeps
<1>2. Keeps(h, KeyCharacter(h, bad, ub))
  BY <1>1, OperatorErrorKeeps DEF KeyCharacter
<1>3. Keeps(h, LibTab(h, ok, ub))
  BY <1>1, NetRawoutKeeps DEF LibTab
<1>4. "Clear" \in AidKey
  BY DEF AidKey
<1>5. Keeps(h, LibClear(h, ok, ub))
  BY <1>1, <1>4, NetRawoutKeeps, KeyAidKeeps DEF LibClear
<1>6. k \notin {"Char", "Tab", "Clear"} => k \in AidKey
  BY DEF Key, AidKey
<1> QED
  BY <1>2, <1>3, <1>5, <1>6, KeyAidKeeps DEF RunEntry

(* Typeahead is queued only while there is a connection (enq_chk). *)
LEMMA EnqueueSound ==
    ASSUME NEW h, Sound(h), NEW k \in Key
    PROVE  Sound(Enqueue(h, k))
<1> DEFINE t == Append(h.ta, k)
           g == [h EXCEPT !.ta = t]
<1>1. h \in Session /\ t \in Seq(Key)
  BY SessionParts DEF Sound, Sane, Timed
<1> HIDE DEF t
<1>2. /\ g \in Session /\ g.lock = h.lock /\ g.cstate = h.cstate
      /\ g.owed = h.owed /\ g.timers = h.timers /\ g.stamp = h.stamp
  BY <1>1 DEF Session
<1> HIDE DEF g
<1>3. EnqChk(h) => Sound(g)
  BY <1>2 DEF EnqChk, Sound, Sane, Timed, Connected
<1> QED
  BY <1>3 DEF Enqueue, g, t

(* Putting the unlock off, or off again (the last case of do_reset).          *)
LEMMA DeferTimed ==
    ASSUME NEW h, Timed(h)
    PROVE  LET g == DeferUnlock(RemoveDeferred(h))
           IN  Timed(g) /\ LockOnly(h, g) /\ {"NOT_CONNECTED", "OERR"} \cap g.lock = {}
<1> DEFINE r  == RemoveDeferred(h)
           r1 == KybdlockClr(r, LockBit \ {"DEFERRED_UNLOCK"})
           r2 == KybdlockSet(r1, {"DEFERRED_UNLOCK"})
           r3 == AddUnlockTimer(r2)
<1>1. h \in Session /\ DeferUnlock(r) = r3
  BY DEF Timed, DeferUnlock
<1>2. /\ r \in Session /\ LockOnly(h, r)
      /\ r.lock = h.lock /\ r.stamp = h.stamp /\ r.timers = 0
  <2>1. CASE "DEFERRED_UNLOCK" \in h.lock
    <3>1. h.timers = 1 /\ "new" \in TimerClock
      BY <2>1 DEF Timed, TimerClock
    <3>2. r = [h EXCEPT !.timers = 0, !.clock = "new"]
      BY <1>1, <2>1, <3>1 DEF RemoveDeferred, RemoveUnlockTimer, Session
    <3>3. r = Relock(h, h.lock, h.stamp, 0, "new")
      BY <1>1, <3>2 DEF Relock, Session
    <3> QED
      BY <1>1, <3>1, <3>3, RelockSession, SessionParts
  <2>2. CASE "DEFERRED_UNLOCK" \notin h.lock
    BY <1>1, <2>2 DEF RemoveDeferred, Timed, LockOnly
  <2> QED
    BY <2>1, <2>2
<1> HIDE DEF r
<1>3. /\ r1 \in Session /\ LockOnly(r, r1)
      /\ r1.lock = r.lock \cap {"DEFERRED_UNLOCK"} /\ r1.stamp = r.stamp /\ r1.timers = 0
  <2> DEFINE word == r.lock \ (LockBit \ {"DEFERRED_UNLOCK"})
  <2>1. r1 = Relock(r, word, r.stamp, r.timers, r.clock)
    BY <1>2 DEF KybdlockClr, Relock, Session
  <2>2. word \in SUBSET LockBit /\ word = r.lock \cap {"DEFERRED_UNLOCK"}
    BY <1>2, SessionParts
  <2> HIDE DEF word, r1
  <2>3. /\ r.stamp \in NoStamp .. MaxAge /\ r.timers \in Int /\ r.clock \in TimerClock
    BY <1>2, SessionParts
  <2>4. r1 \in Session /\ r1.lock = word /\ r1.stamp = r.stamp /\ r1.timers = r.timers
    BY <1>2, <2>1, <2>2, <2>3, RelockSession
  <2>5. LockOnly(r, r1)
    BY <1>2, <2>1, <2>2, <2>3, RelockSession
  <2> QED
    BY <1>2, <2>2, <2>4, <2>5
<1> HIDE DEF r1
<1>4. /\ r2 \in Session /\ LockOnly(r1, r2)
      /\ r2.lock = {"DEFERRED_UNLOCK"} /\ r2.stamp # NoStamp /\ r2.timers = 0
  <2>1. CASE "DEFERRED_UNLOCK" \in r1.lock
    <3>1. r2 = r1
      BY <2>1 DEF KybdlockSet
    <3>2. r1.stamp # NoStamp
      BY <1>2, <1>3, <2>1 DEF Timed
    <3> QED
      BY <1>3, <2>1, <3>1, <3>2 DEF LockOnly
  <2>2. CASE "DEFERRED_UNLOCK" \notin r1.lock
    <3>1. r2 = Relock(r1, {"DEFERRED_UNLOCK"}, 0, r1.timers, r1.clock)
      <4>1. r1.lock \cup {"DEFERRED_UNLOCK"} = {"DEFERRED_UNLOCK"}
        BY <1>3
      <4> QED
        BY <1>3, <2>2, <4>1 DEF KybdlockSet, Relock, Session
    <3>2. 0 \in NoStamp .. MaxAge /\ 0 # NoStamp /\ {"DEFERRED_UNLOCK"} \in SUBSET LockBit
      BY DEF NoStamp, MaxAge, LockBit
    <3> QED
      BY <1>3, <3>1, <3>2, RelockSession, SessionParts
  <2> QED
    BY <2>1, <2>2
<1> HIDE DEF r2
<1>5. /\ r3 \in Session /\ LockOnly(r2, r3)
      /\ r3.lock = r2.lock /\ r3.stamp = r2.stamp /\ r3.timers = 1
  <2>1. r3 = [r2 EXCEPT !.timers = 1, !.clock = "new"]
    BY <1>4 DEF AddUnlockTimer, Session
  <2>2. r3 = Relock(r2, r2.lock, r2.stamp, 1, "new")
    BY <1>4, <2>1 DEF Relock, Session
  <2>3. "new" \in TimerClock
    BY DEF TimerClock
  <2> QED
    BY <1>4, <2>2, <2>3, RelockSession, SessionParts
<1> HIDE DEF r3
<1>6. Timed(r3) /\ LockOnly(h, r3) /\ {"NOT_CONNECTED", "OERR"} \cap r3.lock = {}
  BY <1>2, <1>3, <1>4, <1>5 DEF Timed, LockOnly
<1> QED
  BY <1>1, <1>6 DEF r

(* do_reset keeps all but the lock that an answer still owed wants.  *)
LEMMA DoResetSane ==
    ASSUME NEW h, Sane(h), NEW explicit \in BOOLEAN, NEW ub \in BOOLEAN
    PROVE  LET g == DoReset(h, explicit, ub)
           IN  /\ Sane(g) /\ g.owed = h.owed
               /\ g.ta = h.ta \/ g.ta = <<>>
               /\ explicit /\ h.ta # <<>> => g.lock = h.lock
               /\ explicit => g.ta = <<>>
               /\ "OERR" \in g.lock => "OERR" \in h.lock
<1>1. h \in Session
  BY DEF Sane, Timed
<1> DEFINE f == FlushTa(h, ub)
           u == KybdlockClr(RemoveDeferred(h), LockBit)
           d == DeferUnlock(RemoveDeferred(h))
<1>2. Sane(f) /\ f.owed = h.owed /\ f.ta = <<>> /\ f.lock = h.lock
  BY FlushSane DEF Sane, Connected
<1>3. Timed(u) /\ LockOnly(h, u) /\ {"NOT_CONNECTED", "OERR"} \cap u.lock = {}
  BY ReleaseTimed DEF Sane, LockBit
<1>4. Timed(d) /\ LockOnly(h, d) /\ {"NOT_CONNECTED", "OERR"} \cap d.lock = {}
  BY DeferTimed DEF Sane
<1>5. Connected(h) => Sane(u) /\ Sane(d)
  BY <1>3, <1>4 DEF Sane, LockOnly, Connected
<1> HIDE DEF f, u, d
<1> QED
  BY <1>2, <1>3, <1>4, <1>5 DEF DoReset, LockOnly, f, u, d

-----------------------------------------------------------------------------
(* The actions.  A handler that is not followed by the queue may lengthen it  *)
(* (Become checks the bound); one that is never does.                         *)

(* A handler that hands on a sound session and a queue no longer. *)
LEMMA BecomeInv ==
    ASSUME IInv, NEW g, Sound(g), Become(g)
    PROVE  IInv'
  BY DEF IInv, Become, Bounded, Sound, Sane, Timed, Connected

(* What keeps the queue or empties it keeps its bound. *)
LEMMA ShorterBounded ==
    ASSUME IInv, NEW g, Keeps(h3270, g)
    PROVE  Len(g.ta) <= MaxTypeahead
<1>1. Len(<<>>) = 0 /\ 0 <= MaxTypeahead
  BY MaxTypeaheadAssumption
<1> QED
  BY <1>1 DEF IInv, Keeps

(* A handler that goes on to drain the queue. *)
LEMMA DrainInv ==
    ASSUME IInv, NEW g, Keeps(h3270, g), NEW loop \in {"ps_process", "kybd_in3270"},
           BecomeAndDrain(g, loop)
    PROVE  IInv'
<1>1. Sound(g) /\ Len(g.ta) <= MaxTypeahead
  BY ShorterBounded DEF Keeps
<1> QED
  BY <1>1 DEF IInv, BecomeAndDrain, Sound, Sane, Timed, Connected

(* What is kept is sound. *)
LEMMA KeepsSound == ASSUME NEW f, NEW g, Keeps(f, g) PROVE Sound(g)
  BY DEF Keeps

(* The actions of the user. *)
LEMMA UserInv == ASSUME IInv, User PROVE IInv'
<1> DEFINE h == h3270
<1>0. Sound(h)
  BY DEF IInv
<1>1. ASSUME TypeChar PROVE IInv'
  <2>1. CASE Become(Enqueue(h, "Char"))
    BY <1>0, <2>1, BecomeInv, EnqueueSound DEF Key
  <2>2. ASSUME NEW bad \in BOOLEAN, NEW ub \in BOOLEAN, Become(KeyCharacter(h, bad, ub))
        PROVE  IInv'
    <3>1. "Char" \in Key
      BY DEF Key
    <3>2. Sound(KeyCharacter(h, bad, ub))
      BY <1>0, <3>1, RunEntryKeeps, KeepsSound
    <3> QED
      BY <2>2, <3>2, BecomeInv
  <2>3. ASSUME NEW ok \in BOOLEAN, NEW ub \in BOOLEAN, Become(NetRawout(h, ok, ub))
        PROVE  IInv'
    BY <1>0, <2>3, BecomeInv, NetRawoutKeeps, KeepsSound
  <2> QED
    BY <1>1, <2>1, <2>2, <2>3 DEF TypeChar
<1>2. ASSUME TypeTab PROVE IInv'
  <2> DEFINE cleared == IF h.lock = {"OERR"} THEN KybdlockClr(h, {"OERR"}) ELSE h
  <2>1. Sound(cleared)
    <3>1. {"OERR"} \in SUBSET (LockBit \ {"DEFERRED_UNLOCK", "NOT_CONNECTED", "OIA_LOCKED"})
      BY DEF LockBit
    <3> QED
      BY <1>0, <3>1, ClrSound
  <2>2. "Tab" \in Key
    BY DEF Key
  <2>3. \/ \E ok, ub \in BOOLEAN : Become(LibTab(cleared, ok, ub))
        \/ Become(Enqueue(cleared, "Tab"))
    BY <1>2 DEF TypeTab
  <2> HIDE DEF cleared
  <2>4. ASSUME NEW ok \in BOOLEAN, NEW ub \in BOOLEAN PROVE Sound(LibTab(cleared, ok, ub))
    BY <2>1, <2>2, RunEntryKeeps, KeepsSound
  <2> QED
    BY <2>1, <2>2, <2>3, <2>4, BecomeInv, EnqueueSound
<1>3. ASSUME NEW k \in {"Enter", "PA"}, TypeAid(k) PROVE IInv'
  <2>1. k \in Key /\ k \in AidKey
    BY DEF Key, AidKey
  <2>2. \/ \E ok, ub \in BOOLEAN : Become(KeyAid(h, k, ok, ub))
        \/ Become(Enqueue(h, k))
    BY <1>3 DEF TypeAid
  <2> QED
    BY <1>0, <2>1, <2>2, BecomeInv, EnqueueSound, KeyAidKeeps, KeepsSound
<1>4. ASSUME TypePf PROVE IInv'
  <2>1. {"PF", "PA"} \subseteq Key /\ {"PF", "PA"} \subseteq AidKey
    BY DEF Key, AidKey
  <2>2. CASE Become(Enqueue(IF As400 THEN Enqueue(h, "PA") ELSE h, "PF"))
    <3> DEFINE g == IF As400 THEN Enqueue(h, "PA") ELSE h
    <3>1. Sound(g)
      BY <1>0, <2>1, EnqueueSound
    <3> HIDE DEF g
    <3>2. Become(Enqueue(g, "PF"))
      BY <2>2 DEF g
    <3> QED
      BY <2>1, <3>1, <3>2, BecomeInv, EnqueueSound
  <2>3. ASSUME NEW ok1 \in BOOLEAN, NEW ok2 \in BOOLEAN, NEW ub1 \in BOOLEAN,
               NEW ub2 \in BOOLEAN,
               Become(KeyAid(IF As400 THEN KeyAid(h, "PA", ok1, ub1) ELSE h, "PF", ok2, ub2))
        PROVE  IInv'
    <3> DEFINE g == IF As400 THEN KeyAid(h, "PA", ok1, ub1) ELSE h
    <3>1. Sound(g)
      BY <1>0, <2>1, KeyAidKeeps, KeepsSound
    <3> HIDE DEF g
    <3>2. Become(KeyAid(g, "PF", ok2, ub2))
      BY <2>3 DEF g
    <3> QED
      BY <2>1, <3>1, <3>2, BecomeInv, KeyAidKeeps, KeepsSound
  <2> QED
    BY <1>4, <2>2, <2>3 DEF TypePf
<1>5. ASSUME TypeClear PROVE IInv'
  <2>1. "Clear" \in Key
    BY DEF Key
  <2>2. \/ \E ok, ub \in BOOLEAN : Become(LibClear(h, ok, ub))
        \/ Become(Enqueue(h, "Clear"))
    BY <1>5 DEF TypeClear
  <2>3. ASSUME NEW ok \in BOOLEAN, NEW ub \in BOOLEAN PROVE Sound(LibClear(h, ok, ub))
    BY <1>0, <2>1, RunEntryKeeps, KeepsSound
  <2> QED
    BY <1>0, <2>1, <2>2, <2>3, BecomeInv, EnqueueSound
<1>6. ASSUME TypeReset PROVE IInv'
  <2>1. PICK ub \in BOOLEAN :
          Become([DoReset(h, TRUE, ub) EXCEPT !.owed = @ /\ h.ta # <<>>])
    BY <1>6 DEF TypeReset
  <2> DEFINE g == DoReset(h, TRUE, ub)
             o == g.owed /\ h.ta # <<>>
  <2>2. Sane(g) /\ g.owed = h.owed /\ (h.ta # <<>> => g.lock = h.lock)
    BY <1>0, DoResetSane DEF Sound
  <2>3. Become([g EXCEPT !.owed = o])
    BY <2>1, Zenon
  <2> HIDE DEF g
  <2>4. o => "OIA_LOCKED" \in g.lock
    BY <1>0, <2>2 DEF Sound
  <2>5. o \in BOOLEAN
    BY DEF Sane, Timed, Session
  <2> HIDE DEF o
  <2>6. Sound([g EXCEPT !.owed = o])
    BY <2>2, <2>4, <2>5, OwedSound
  <2> QED
    BY <2>3, <2>6, BecomeInv
<1>7. ASSUME FtStart PROVE IInv'
  <2>1. PICK ok \in BOOLEAN, ub \in BOOLEAN :
          Become([KeyAid(h, "Enter", ok, ub) EXCEPT !.ft = TRUE])
    BY <1>7 DEF FtStart
  <2>2. "Enter" \in AidKey
    BY DEF AidKey
  <2> DEFINE g == KeyAid(h, "Enter", ok, ub)
  <2>3. Sound(g)
    BY <1>0, <2>2, KeyAidKeeps, KeepsSound
  <2> HIDE DEF g
  <2>4. Sound([g EXCEPT !.ft = TRUE])
    BY <2>3, FtSound
  <2> QED
    BY <2>1, <2>4, BecomeInv DEF g
<1>8. ASSUME FtComplete PROVE IInv'
  <2>1. Sound([h EXCEPT !.ft = FALSE])
    BY <1>0, FtSound
  <2> QED
    BY <1>8, <2>1, BecomeInv DEF FtComplete
<1> QED
  BY <1>1, <1>2, <1>3, <1>4, <1>5, <1>6, <1>7, <1>8 DEF User

(* The actions of the host. *)
LEMMA RestoreKeeps ==
    ASSUME NEW h, Sound(h), NEW ub \in BOOLEAN
    PROVE  /\ Keeps(h, KeyboardRestore(h, ub))
           /\ "OERR" \in KeyboardRestore(h, ub).lock => "OERR" \in h.lock
<1> DEFINE g == [h EXCEPT !.aid = AID_NO, !.owed = FALSE]
<1>1. g \in Session /\ g.lock = h.lock /\ g.ta = h.ta /\ g.cstate = h.cstate
      /\ g.owed = FALSE /\ g.timers = h.timers /\ g.stamp = h.stamp
  BY DEF Sound, Sane, Timed, Session
<1>2. KeyboardRestore(h, ub) = DoReset(g, FALSE, ub)
  BY DEF KeyboardRestore
<1> HIDE DEF g
<1>3. Sane(g)
  BY <1>1 DEF Sound, Sane, Timed, Connected
<1> DEFINE r == DoReset(g, FALSE, ub)
<1>4. /\ Sane(r) /\ r.owed = FALSE /\ (r.ta = h.ta \/ r.ta = <<>>)
      /\ "OERR" \in r.lock => "OERR" \in h.lock
  BY <1>1, <1>3, DoResetSane
<1> HIDE DEF r
<1>5. Keeps(h, r)
  BY <1>4 DEF Keeps, Sound
<1> QED
  BY <1>2, <1>4, <1>5 DEF r

(* kybd_inhibit sets or clears its own bit. *)
LEMMA InhibitKeeps ==
    ASSUME NEW h, Sound(h), NEW inhibit \in BOOLEAN
    PROVE  Keeps(h, KybdInhibit(h, inhibit))
<1>1. /\ {"ENTER_INHIBIT"} \in SUBSET (LockBit \ {"DEFERRED_UNLOCK", "NOT_CONNECTED"})
      /\ {"ENTER_INHIBIT"} \in SUBSET (LockBit \ {"DEFERRED_UNLOCK", "NOT_CONNECTED", "OIA_LOCKED"})
  BY DEF LockBit
<1> QED
  BY <1>1, SetSound, ClrSound DEF KybdInhibit, Keeps, LockOnly

(* The actions of the host. *)
LEMMA HostInv == ASSUME IInv, Host PROVE IInv'
<1> DEFINE h == h3270
<1>0. Sound(h) /\ Timed(h)
  BY DEF IInv, Sound, Sane
<1> DEFINE w == KybdInhibit(h, FALSE)
<1>a. Keeps(h, w) /\ Sound(w)
  BY <1>0, InhibitKeeps, KeepsSound
<1>1. ASSUME Connect PROVE IInv'
  BY <1>0, <1>1, BecomeInv, HostConnectedSound, KeepsSound DEF Connect
<1>2. ASSUME Disconnect PROVE IInv'
  BY <1>0, <1>2, BecomeInv, HostDisconnectedSound, KeepsSound DEF Disconnect
<1>3. ASSUME ChangeMode PROVE IInv'
  <2>1. PICK new \in CState \ {"NOT_CONNECTED"} :
          BecomeAndDrain(HostIn3270(h, new), "kybd_in3270")
    BY <1>3 DEF ChangeMode
  <2>2. Keeps(h, HostIn3270(h, new))
    BY <1>0, HostIn3270Sound DEF Keeps
  <2> QED
    BY <2>1, <2>2, DrainInv
<1>4. ASSUME FirstAnsiData PROVE IInv'
  <2> DEFINE a == HostIn3270(h, "CONNECTED_ANSI")
             b == FtIn3270(a)
             c == KybdlockClr(b, {"AWAITING_FIRST"})
  <2>1. BecomeAndDrain(c, "ps_process")
    BY <1>4 DEF FirstAnsiData
  <2>2. Sound(a) /\ a.ta = h.ta
    BY <1>0, HostIn3270Sound DEF CState
  <2> HIDE DEF a
  <2>3. Sound(b) /\ b.ta = a.ta
    BY <2>2, FtEndSound
  <2> HIDE DEF b
  <2>4. {"AWAITING_FIRST"} \in SUBSET (LockBit \ {"DEFERRED_UNLOCK", "NOT_CONNECTED", "OIA_LOCKED"})
    BY DEF LockBit
  <2>5. Keeps(h, c)
    BY <2>2, <2>3, <2>4, ClrSound DEF Keeps, LockOnly
  <2> QED
    BY <2>1, <2>5, DrainInv
<1>5. ASSUME NEW restore \in BOOLEAN, CtlrWrite(restore) PROVE IInv'
  <2>1. ASSUME NEW ub \in BOOLEAN, BecomeAndDrain(KeyboardRestore(w, ub), "ps_process")
        PROVE  IInv'
    <3>1. Keeps(h, KeyboardRestore(w, ub))
      BY <1>a, RestoreKeeps, KeepsTransitive
    <3> QED
      BY <2>1, <3>1, DrainInv
  <2>2. CASE BecomeAndDrain(KybdlockClr(w, {"OIA_TWAIT"}), "ps_process")
    <3>1. {"OIA_TWAIT"} \in SUBSET (LockBit \ {"DEFERRED_UNLOCK", "NOT_CONNECTED", "OIA_LOCKED"})
      BY DEF LockBit
    <3> HIDE DEF w
    <3>2. Keeps(w, KybdlockClr(w, {"OIA_TWAIT"}))
      BY <1>a, <3>1, ClrSound DEF Keeps, LockOnly
    <3>3. Keeps(h, KybdlockClr(w, {"OIA_TWAIT"}))
      BY <1>a, <3>2, KeepsTransitive
    <3> QED
      BY <2>2, <3>3, DrainInv
  <2> QED
    BY <1>5, <2>1, <2>2 DEF CtlrWrite
<1>6. ASSUME ClearInhibitOnly PROVE IInv'
  BY <1>a, <1>6, BecomeInv DEF ClearInhibitOnly
<1>7. ASSUME CtlrEraseAllUnprotected PROVE IInv'
  <2>1. PICK ub \in BOOLEAN : Become(KeyboardRestore(w, ub))
    BY <1>7 DEF CtlrEraseAllUnprotected
  <2> HIDE DEF w
  <2> QED
    BY <1>a, <2>1, BecomeInv, RestoreKeeps, KeepsSound
<1>8. ASSUME QueryReply PROVE IInv'
  <2>1. PICK ok \in BOOLEAN, ub \in BOOLEAN : Become(KybdInhibit(NetRawout(h, ok, ub), TRUE))
    BY <1>8 DEF QueryReply
  <2> DEFINE n == NetRawout(h, ok, ub)
  <2>2. Sound(n)
    BY <1>0, NetRawoutKeeps, KeepsSound
  <2> HIDE DEF n
  <2>3. Sound(KybdInhibit(n, TRUE))
    BY <2>2, InhibitKeeps, KeepsSound
  <2> QED
    BY <2>1, <2>3, BecomeInv DEF n
<1>9. ASSUME CtlrWriteSscpLu PROVE IInv'
  BY <1>0, <1>9, BecomeInv, RestoreKeeps, KeepsSound DEF CtlrWriteSscpLu
<1> QED
  BY <1>1, <1>2, <1>3, <1>4, <1>5, <1>6, <1>7, <1>8, <1>9 DEF Host

(* The steps of the program and of time. *)
LEMMA ProgramInv == ASSUME IInv, Program PROVE IInv'
<1> DEFINE h == h3270
<1>0. Sound(h) /\ Timed(h) /\ h \in Session
  BY DEF IInv, Sound, Sane, Timed
<1>1. ASSUME RunTa PROVE IInv'
  <2> DEFINE t == Tail(h.ta)
             g == [h EXCEPT !.ta = t]
  <2>1. h.ta \in Seq(Key) /\ h.ta # <<>>
    BY <1>0, <1>1, SessionParts DEF RunTa
  <2>2. t \in Seq(Key) /\ Head(h.ta) \in Key /\ Len(t) <= Len(h.ta)
    BY <2>1
  <2>3. PICK ok \in BOOLEAN, bad \in BOOLEAN, ub \in BOOLEAN :
          h3270' = RunEntry(g, Head(h.ta), ok, bad, ub)
    BY <1>1 DEF RunTa
  <2> HIDE DEF t
  <2>4. /\ g \in Session /\ g.lock = h.lock /\ g.cstate = h.cstate
        /\ g.owed = h.owed /\ g.timers = h.timers /\ g.stamp = h.stamp /\ g.ta = t
    BY <1>0, <2>2 DEF Session
  <2> HIDE DEF g
  <2>5. Sound(g)
    BY <1>0, <2>1, <2>4 DEF Sound, Sane, Timed, Connected
  <2> DEFINE e == RunEntry(g, Head(h.ta), ok, bad, ub)
  <2>6. Keeps(g, e)
    BY <2>2, <2>5, RunEntryKeeps
  <2> HIDE DEF e
  <2>7. Len(e.ta) <= MaxTypeahead
    <3>1. Len(<<>>) = 0 /\ 0 <= MaxTypeahead /\ MaxTypeahead \in Nat
      BY MaxTypeaheadAssumption
    <3>2. Len(t) \in Nat /\ Len(h.ta) \in Nat
      BY <2>1, <2>2
    <3>3. Len(t) <= MaxTypeahead
      BY <2>2, <3>1, <3>2 DEF IInv
    <3> QED
      BY <2>4, <2>6, <3>1, <3>3 DEF Keeps
  <2>8. h3270' = e /\ pc' = pc
    BY <1>1, <2>3 DEF RunTa, e
  <2> QED
    BY <2>6, <2>7, <2>8 DEF IInv, Keeps, Sound, Sane, Timed, Connected
<1>2. ASSUME PsProcessDone PROVE IInv'
  <2>1. pc' = "idle"
    BY <1>2 DEF PsProcessDone
  <2>2. ASSUME NEW g, Keeps(h, g), h3270' \in {g, FtIn3270(g)}
        PROVE  IInv'
    <3>1. Sound(g) /\ Sound(FtIn3270(g)) /\ FtIn3270(g).ta = g.ta
      BY <2>2, FtEndSound, KeepsSound
    <3>2. Len(g.ta) <= MaxTypeahead
      BY <2>2, ShorterBounded
    <3>3. Sound(h3270)' /\ Len(h3270'.ta) <= MaxTypeahead
      BY <2>2, <3>1, <3>2 DEF Sound, Sane, Timed, Connected
    <3> QED
      BY <2>1, <3>3 DEF IInv
  <2>3. Keeps(h, h)
    BY <1>0 DEF Keeps
  <2>4. CASE h3270' \in {h, FtIn3270(h)}
    BY <2>2, <2>3, <2>4
  <2>5. ASSUME NEW a \in {"Enter", "PF"}, NEW ok \in BOOLEAN, NEW ub \in BOOLEAN,
               NEW f \in BOOLEAN,
               h3270' \in {[KeyAid(h, a, ok, ub) EXCEPT !.ft = f],
                          FtIn3270([KeyAid(h, a, ok, ub) EXCEPT !.ft = f])}
        PROVE  IInv'
    <3> DEFINE k == KeyAid(h, a, ok, ub)
               g == [k EXCEPT !.ft = f]
    <3>1. a \in AidKey
      BY DEF AidKey
    <3>2. Keeps(h, k)
      BY <1>0, <3>1, KeyAidKeeps
    <3>3. h3270' \in {g, FtIn3270(g)}
      BY <2>5
    <3> HIDE DEF k
    <3>4. Sound(g) /\ g.ta = k.ta
      BY <3>2, FtSound, KeepsSound
    <3> HIDE DEF g
    <3>5. Keeps(h, g)
      BY <3>2, <3>4 DEF Keeps
    <3> QED
      BY <2>2, <3>3, <3>5
  <2>6. \/ h3270' \in {h, FtIn3270(h)}
        \/ \E a \in {"Enter", "PF"}, ok, ub, f \in BOOLEAN :
             h3270' \in {[KeyAid(h, a, ok, ub) EXCEPT !.ft = f],
                        FtIn3270([KeyAid(h, a, ok, ub) EXCEPT !.ft = f])}
    <3>1. CASE h3270' = AfterLoop(h)
      BY <3>1 DEF AfterLoop
    <3>2. ASSUME NEW a \in {"Enter", "PF"}, NEW ok \in BOOLEAN, NEW ub \in BOOLEAN,
                 NEW more \in BOOLEAN,
                 h3270' = AfterLoop([KeyAid(h, a, ok, ub) EXCEPT !.ft = @ /\ more])
          PROVE  \E f \in BOOLEAN :
                   h3270' \in {[KeyAid(h, a, ok, ub) EXCEPT !.ft = f],
                              FtIn3270([KeyAid(h, a, ok, ub) EXCEPT !.ft = f])}
      <4> DEFINE k == KeyAid(h, a, ok, ub)
                 f == k.ft /\ more
      <4>1. f \in BOOLEAN
        OBVIOUS
      <4>2. h3270' = AfterLoop([k EXCEPT !.ft = f])
        BY <3>2, Zenon
      <4> HIDE DEF f
      <4>3. h3270' \in {[k EXCEPT !.ft = f], FtIn3270([k EXCEPT !.ft = f])}
        BY <4>2 DEF AfterLoop
      <4> QED
        BY <4>1, <4>3
    <3>3. \/ h3270' = AfterLoop(h)
          \/ \E a \in {"Enter", "PF"}, ok, ub, more \in BOOLEAN :
               h3270' = AfterLoop([KeyAid(h, a, ok, ub) EXCEPT !.ft = @ /\ more])
      BY <1>2, Zenon DEF PsProcessDone
    <3>4. CASE \E a \in {"Enter", "PF"}, ok, ub, more \in BOOLEAN :
                 h3270' = AfterLoop([KeyAid(h, a, ok, ub) EXCEPT !.ft = @ /\ more])
      <4> PICK a \in {"Enter", "PF"}, ok \in BOOLEAN, ub \in BOOLEAN, more \in BOOLEAN :
            h3270' = AfterLoop([KeyAid(h, a, ok, ub) EXCEPT !.ft = @ /\ more])
        BY <3>4, Zenon
      <4> QED
        BY <3>2, Zenon
    <3> QED
      BY <3>1, <3>3, <3>4, Zenon
  <2> QED
    BY <2>4, <2>5, <2>6
<1>3. ASSUME DeferUnlockFires PROVE IInv'
  <2> DEFINE r == RemoveUnlockTimer(h)
             g == KybdlockClr(r, {"DEFERRED_UNLOCK"})
  <2>1. "DEFERRED_UNLOCK" \in h.lock
    BY <1>0, <1>3 DEF DeferUnlockFires, Timed
  <2>2. RemoveDeferred(h) = r
    BY <2>1 DEF RemoveDeferred
  <2>3. {"DEFERRED_UNLOCK"} \in SUBSET LockBit
    BY DEF LockBit
  <2>4. Timed(g) /\ LockOnly(h, g) /\ g.lock = h.lock \ {"DEFERRED_UNLOCK"}
    BY <1>0, <2>2, <2>3, ReleaseTimed
  <2>5. Become(g) \/ BecomeAndDrain(g, "ps_process")
    BY <1>3 DEF DeferUnlockFires
  <2> HIDE DEF g
  <2>6. Sound(g) /\ Keeps(h, g)
    BY <1>0, <2>4 DEF Sound, Sane, LockOnly, Connected, Keeps
  <2> QED
    BY <2>5, <2>6, BecomeInv, DrainInv
<1> QED
  BY <1>1, <1>2, <1>3 DEF Program

(* The clock and the timer's expiry. *)
LEMMA TimeInv == ASSUME IInv, Time PROVE IInv'
<1> DEFINE h == h3270
<1>0. Sound(h) /\ Timed(h) /\ h \in Session
  BY DEF IInv, Sound, Sane, Timed
<1>1. ASSUME NEW clock \in TimerClock, Expire(clock) PROVE IInv'
  <2> DEFINE g == [h EXCEPT !.clock = "expired"]
  <2>1. /\ g \in Session /\ g.lock = h.lock /\ g.cstate = h.cstate /\ g.ta = h.ta
        /\ g.owed = h.owed /\ g.timers = h.timers /\ g.stamp = h.stamp
    BY <1>0 DEF Session, TimerClock
  <2>2. h3270' = g /\ pc' = pc
    BY <1>1 DEF Expire
  <2> HIDE DEF g
  <2> QED
    BY <2>1, <2>2 DEF IInv, Sound, Sane, Timed, Connected
<1>2. ASSUME Second PROVE IInv'
  <2> DEFINE c == IF h.clock = "new" /\ h.timers > 0 THEN "old" ELSE h.clock
             a == IF h.stamp \in 0 .. MaxAge - 1 THEN h.stamp + 1 ELSE h.stamp
             g == [h EXCEPT !.clock = c, !.stamp = a]
  <2>1. c \in TimerClock
    BY <1>0, SessionParts DEF TimerClock
  <2>2. a \in NoStamp .. MaxAge /\ (a = NoStamp <=> h.stamp = NoStamp)
    BY <1>0, SessionParts DEF NoStamp, MaxAge
  <2>3. h3270' = g /\ pc' = pc
    BY <1>2 DEF Second
  <2> HIDE DEF c, a
  <2>4. /\ g \in Session /\ g.lock = h.lock /\ g.cstate = h.cstate /\ g.ta = h.ta
        /\ g.owed = h.owed /\ g.timers = h.timers /\ g.stamp = a
    BY <1>0, <2>1, <2>2 DEF Session
  <2> HIDE DEF g
  <2> QED
    BY <2>2, <2>3, <2>4 DEF IInv, Sound, Sane, Timed, Connected
<1> QED
  BY <1>1, <1>2 DEF Time, TimerClock

-----------------------------------------------------------------------------

(* The keyboard starts locked, and not connected. *)
LEMMA InitInv == ASSUME Init PROVE IInv
<1>1. h3270 \in Session
  <2>1. <<>> \in Seq(Key)
    OBVIOUS
  <2> QED
    BY <2>1 DEF Init, Session, CState, LockBit, NoStamp, MaxAge, TimerClock, AID_NO
<1>2. Sound(h3270)
  BY <1>1 DEF Init, Sound, Sane, Timed, Connected, NoStamp
<1>3. Len(h3270.ta) <= MaxTypeahead
  BY MaxTypeaheadAssumption DEF Init
<1> QED
  BY <1>2, <1>3 DEF IInv, Init

(* Every step preserves the invariant. *)
LEMMA NextInv == ASSUME IInv, [Next]_vars PROVE IInv'
<1>1. CASE UNCHANGED vars
  BY <1>1 DEF vars, IInv, Sound, Sane, Timed, Connected
<1> QED
  BY <1>1, UserInv, HostInv, ProgramInv, TimeInv DEF Next

(* In every reachable state the session is sound and the queue within its     *)
(* bound: what the theorems below say one part at a time.                     *)
THEOREM Invariance == Spec => []IInv
  BY InitInv, NextInv, PTL DEF Spec

(* The lock word, the stamp, the timer and the queue have their types: at     *)
(* most one unlock timer is ever armed.                                       *)
THEOREM TypeCorrect == Spec => []TypeOK
<1>1. IInv => TypeOK
  BY DEF IInv, Sound, Sane, Timed, TypeOK
<1> QED
  BY <1>1, Invariance, PTL

(* The keyboard is marked not connected exactly while there is no connection. *)
THEOREM LockConnection == Spec => []LockMatchesConnection
<1>1. IInv => LockMatchesConnection
  BY DEF IInv, Sound, Sane, LockMatchesConnection
<1> QED
  BY <1>1, Invariance, PTL

(* An unlock is deferred exactly while a timer is armed to end it.            *)
THEOREM DeferredTimer == Spec => []DeferredHasTimer
<1>1. IInv => DeferredHasTimer
  BY DEF IInv, Sound, Sane, Timed, DeferredHasTimer
<1> QED
  BY <1>1, Invariance, PTL

(* No keystroke waits without a connection, to be replayed into the next.     *)
THEOREM NoReplay == Spec => []NoReplayAcrossSessions
<1>1. IInv => NoReplayAcrossSessions
  BY DEF IInv, Sound, Sane, NoReplayAcrossSessions
<1> QED
  BY <1>1, Invariance, PTL

(* An AID the host has not answered holds the keyboard locked.                *)
THEOREM AidHolds == Spec => []AidHoldsLock
<1>1. IInv => AidHoldsLock
  BY DEF IInv, Sound, AidHoldsLock
<1> QED
  BY <1>1, Invariance, PTL
-----------------------------------------------------------------------------
(* Keys left behind by an unlocked keyboard.  A Tab clears an operator error  *)
(* and does not drain the queue, so it matters that the error has flushed it  *)
(* and that enq_chk refuses keys behind it.                                   *)

(* While an operator error shows, no key is queued. *)
Flushed(h) == "OERR" \in h.lock => h.ta = <<>>

(* No key is left behind by an unlocked keyboard. *)
Clean(h) == h.lock = {} => h.ta = <<>>

(* What a statement does to a session that has both. *)
Tidy(h, g) == Flushed(h) => Flushed(g) /\ (Clean(h) => Clean(g))

(* What changes neither the lock nor the queue is tidy; so is what leaves no  *)
(* key, and what locks the keyboard or keeps it locked without an error.      *)
LEMMA TidyCases ==
    ASSUME NEW h, NEW g,
           \/ g.lock = h.lock /\ g.ta = h.ta
           \/ g.ta = <<>>
           \/ /\ g.lock # {} /\ (g.ta = h.ta \/ g.ta = <<>>)
              /\ "OERR" \in g.lock => "OERR" \in h.lock
    PROVE  Tidy(h, g)
  BY DEF Tidy, Flushed, Clean

(* Two tidy statements, one after the other. *)
LEMMA TidyTransitive ==
    ASSUME NEW f, NEW g, NEW h, Tidy(f, g), Tidy(g, h)
    PROVE  Tidy(f, h)
  BY DEF Tidy

(* What keeps a queue and adds no error keeps the first. *)
LEMMA KeepsFlushed ==
    ASSUME NEW h, NEW g, Keeps(h, g), Flushed(h), "OERR" \in g.lock => "OERR" \in h.lock
    PROVE  Flushed(g)
  BY DEF Keeps, Flushed

(* A write that fails drops the connection and the queue with it. *)
LEMMA NetRawoutTidy ==
    ASSUME NEW h, Sound(h), NEW ok \in BOOLEAN, NEW ub \in BOOLEAN
    PROVE  Tidy(h, NetRawout(h, ok, ub))
<1>1. HostDisconnected(h, ub).ta = <<>>
  BY HostDisconnectedSound DEF Sound, Sane
<1>2. Tidy(h, h) /\ Tidy(h, HostDisconnected(h, ub))
  BY <1>1, TidyCases
<1> QED
  BY <1>2 DEF NetRawout, HostDisconnect

(* A bit other than that of the operator error is set. *)
LEMMA SetTidy ==
    ASSUME NEW h, Sound(h), NEW b \in LockBit \ {"DEFERRED_UNLOCK", "NOT_CONNECTED", "OERR"},
           NEW bits \in SUBSET (LockBit \ {"DEFERRED_UNLOCK", "NOT_CONNECTED", "OERR"}), b \in bits
    PROVE  Tidy(h, KybdlockSet(h, bits))
<1> DEFINE g == KybdlockSet(h, bits)
<1>1. LockOnly(h, g) /\ g.lock = h.lock \cup bits
  BY SetSound
<1> HIDE DEF g
<1>2. g.lock # {} /\ g.ta = h.ta /\ ("OERR" \in g.lock => "OERR" \in h.lock)
  BY <1>1 DEF LockOnly
<1>3. Tidy(h, g)
  BY <1>2, TidyCases
<1> QED
  BY <1>3 DEF g

(* An operator error flushes the queue. *)
LEMMA OperatorErrorTidy ==
    ASSUME NEW h, Sound(h), NEW ub \in BOOLEAN
    PROVE  Tidy(h, OperatorError(h, ub))
<1>1. Sound(KybdlockSet(h, {"OERR"}))
  BY SetSound DEF LockBit
<1>2. FlushTa(KybdlockSet(h, {"OERR"}), ub).ta = <<>>
  BY <1>1, FlushSane DEF Sound, Sane
<1>3. Tidy(h, h) /\ Tidy(h, FlushTa(KybdlockSet(h, {"OERR"}), ub))
  BY <1>2, TidyCases
<1> QED
  BY <1>3 DEF OperatorError

(* An attention key past its early returns. *)
LEMMA SendAidTidy ==
    ASSUME NEW h, Sound(h), NEW a \in AidKey, NEW ok \in BOOLEAN, NEW ub \in BOOLEAN
    PROVE  Tidy(h, SendAid(h, a, ok, ub))
<1> DEFINE locked == IF InSscp(h) /\ a = "Clear"
                     THEN h
                     ELSE KybdlockSet(h, {"OIA_TWAIT", "OIA_LOCKED"})
           set    == [locked EXCEPT !.aid = a]
           o      == set.owed \/ (ok /\ Connected(h))
           sent   == [set EXCEPT !.owed = o]
<1>1. /\ {"OIA_TWAIT", "OIA_LOCKED"} \in SUBSET (LockBit \ {"DEFERRED_UNLOCK", "NOT_CONNECTED"})
      /\ {"OIA_TWAIT", "OIA_LOCKED"}
           \in SUBSET (LockBit \ {"DEFERRED_UNLOCK", "NOT_CONNECTED", "OERR"})
      /\ "OIA_TWAIT" \in LockBit \ {"DEFERRED_UNLOCK", "NOT_CONNECTED", "OERR"}
  BY DEF LockBit
<1>2. /\ Sound(locked) /\ Tidy(h, locked)
      /\ ~(InSscp(h) /\ a = "Clear") => "OIA_LOCKED" \in locked.lock
  <2>1. Tidy(h, h) /\ Tidy(h, KybdlockSet(h, {"OIA_TWAIT", "OIA_LOCKED"}))
    BY <1>1, SetTidy, TidyCases
  <2> QED
    BY <1>1, <2>1, SetSound
<1>3. SendAid(h, a, ok, ub) = IF InSscp(h) /\ a # "Enter" THEN set
                              ELSE NetRawout(sent, ok, ub)
  BY Zenon DEF SendAid
<1> HIDE DEF locked
<1>4. Sound(set) /\ set.ta = locked.ta /\ set.lock = locked.lock
  BY <1>2, AidSound
<1> HIDE DEF set
<1>5. Tidy(h, set)
  <2>1. Tidy(locked, set)
    BY <1>4, TidyCases
  <2> QED
    BY <1>2, <2>1, TidyTransitive
<1>6. ASSUME ~(InSscp(h) /\ a # "Enter")
      PROVE  Tidy(h, NetRawout(sent, ok, ub))
  <2>1. "OIA_LOCKED" \in set.lock
    BY <1>2, <1>4, <1>6
  <2>2. Sane(set) /\ set.owed \in BOOLEAN
    BY <1>4 DEF Sound, Sane, Timed, Session
  <2>3. o \in BOOLEAN
    BY <2>2
  <2> HIDE DEF o
  <2>4. Sound(sent) /\ sent.ta = set.ta /\ sent.lock = set.lock
    BY <2>1, <2>2, <2>3, OwedSound
  <2> HIDE DEF sent
  <2>5. Tidy(set, sent) /\ Tidy(sent, NetRawout(sent, ok, ub))
    BY <2>4, TidyCases, NetRawoutTidy
  <2> QED
    BY <1>5, <2>5, TidyTransitive
<1> QED
  BY <1>3, <1>5, <1>6

(* Every attention key. *)
LEMMA KeyAidTidy ==
    ASSUME NEW h, Sound(h), NEW a \in AidKey, NEW ok \in BOOLEAN, NEW ub \in BOOLEAN
    PROVE  Tidy(h, KeyAid(h, a, ok, ub))
<1>1. Tidy(h, h)
  BY TidyCases
<1>2. Tidy(h, KybdlockSet(h, {"OIA_MINUS"}))
  BY SetTidy DEF LockBit
<1> QED
  BY <1>1, <1>2, NetRawoutTidy, SendAidTidy DEF KeyAid

(* The keys that send no attention identifier, outside of ANSI mode or in it. *)
LEMMA KeysTidy ==
    ASSUME NEW h, Sound(h), NEW ok \in BOOLEAN, NEW bad \in BOOLEAN, NEW ub \in BOOLEAN
    PROVE  /\ Tidy(h, KeyCharacter(h, bad, ub))
           /\ Tidy(h, LibTab(h, ok, ub))
           /\ Tidy(h, LibClear(h, ok, ub))
<1>1. Tidy(h, h)
  BY TidyCases
<1>2. "Clear" \in AidKey
  BY DEF AidKey
<1> QED
  BY <1>1, <1>2, OperatorErrorTidy, NetRawoutTidy, KeyAidTidy DEF KeyCharacter, LibTab, LibClear

(* A key is queued only behind a lock that is no operator error (enq_chk). *)
LEMMA EnqueueTidy ==
    ASSUME NEW h, Sound(h), NEW k \in Key, h.lock # {}
    PROVE  Tidy(h, Enqueue(h, k)) /\ Enqueue(h, k).lock = h.lock
<1> DEFINE t == Append(h.ta, k)
           g == [h EXCEPT !.ta = t]
<1>1. h \in Session
  BY DEF Sound, Sane, Timed
<1>2. g.lock = h.lock
  BY <1>1 DEF Session
<1> HIDE DEF g
<1>3. EnqChk(h) => Tidy(h, g)
  BY <1>2 DEF EnqChk, Tidy, Flushed, Clean
<1>4. Tidy(h, h)
  BY TidyCases
<1> QED
  BY <1>2, <1>3, <1>4 DEF Enqueue, g, t

(* Every action of the user keeps both: it hands on the session, the loop     *)
(* stays idle, and the only key that unlocks is a Tab.                        *)
LEMMA UserTidy == ASSUME IInv, User PROVE Tidy(h3270, h3270') /\ Idle /\ pc' = pc
<1> DEFINE h == h3270
<1>0. Sound(h)
  BY DEF IInv
<1>a. ASSUME NEW g, Become(g), Tidy(h, g), Idle
      PROVE  Tidy(h, h3270') /\ Idle /\ pc' = pc
  BY <1>a DEF Become
<1>1. CASE TypeChar
  <2>1. ASSUME h.lock # {} PROVE Tidy(h, Enqueue(h, "Char"))
    BY <1>0, <2>1, EnqueueTidy DEF Key
  <2> QED
    BY <1>0, <1>1, <1>a, <2>1, KeysTidy, NetRawoutTidy DEF TypeChar
<1>2. CASE TypeTab
  <2> DEFINE cleared == IF h.lock = {"OERR"} THEN KybdlockClr(h, {"OERR"}) ELSE h
  <2>1. Sound(cleared) /\ Tidy(h, cleared)
    <3>1. {"OERR"} \in SUBSET (LockBit \ {"DEFERRED_UNLOCK", "NOT_CONNECTED", "OIA_LOCKED"})
      BY DEF LockBit
    <3>2. Sound(KybdlockClr(h, {"OERR"})) /\ KybdlockClr(h, {"OERR"}).ta = h.ta
      BY <1>0, <3>1, ClrSound DEF LockOnly
    <3>3. h.lock = {"OERR"} => Tidy(h, KybdlockClr(h, {"OERR"}))
      BY <3>2 DEF Tidy, Flushed, Clean
    <3>4. Tidy(h, h)
      BY TidyCases
    <3> QED
      BY <1>0, <3>2, <3>3, <3>4
  <2>2. \/ \E ok, ub \in BOOLEAN : Become(LibTab(cleared, ok, ub))
        \/ cleared.lock # {} /\ Become(Enqueue(cleared, "Tab"))
    BY <1>2 DEF TypeTab
  <2>3. Idle
    BY <1>2 DEF TypeTab
  <2> HIDE DEF cleared
  <2>4. ASSUME NEW ok \in BOOLEAN, NEW ub \in BOOLEAN PROVE Tidy(h, LibTab(cleared, ok, ub))
    BY <2>1, KeysTidy, TidyTransitive
  <2>5. ASSUME cleared.lock # {} PROVE Tidy(h, Enqueue(cleared, "Tab"))
    <3>1. Tidy(cleared, Enqueue(cleared, "Tab"))
      BY <2>1, <2>5, EnqueueTidy DEF Key
    <3> QED
      BY <2>1, <3>1, TidyTransitive
  <2> QED
    BY <1>a, <2>2, <2>3, <2>4, <2>5
<1>3. ASSUME NEW k \in {"Enter", "PA"}, TypeAid(k)
      PROVE  Tidy(h, h3270') /\ Idle /\ pc' = pc
  <2>1. k \in Key /\ k \in AidKey
    BY DEF Key, AidKey
  <2>2. h.lock # {} => Tidy(h, Enqueue(h, k))
    BY <1>0, <2>1, EnqueueTidy
  <2> QED
    BY <1>0, <1>3, <1>a, <2>1, <2>2, KeyAidTidy DEF TypeAid
<1>4. CASE TypePf
  <2>1. {"PF", "PA"} \subseteq Key /\ {"PF", "PA"} \subseteq AidKey
    BY DEF Key, AidKey
  <2>2. ASSUME h.lock # {}, Become(Enqueue(IF As400 THEN Enqueue(h, "PA") ELSE h, "PF"))
        PROVE  Tidy(h, h3270') /\ Idle /\ pc' = pc
    <3> DEFINE g == IF As400 THEN Enqueue(h, "PA") ELSE h
    <3>1. Sound(g) /\ Tidy(h, g) /\ g.lock = h.lock
      <4>1. Tidy(h, h)
        BY TidyCases
      <4> QED
        BY <1>0, <2>1, <2>2, <4>1, EnqueueSound, EnqueueTidy
    <3> HIDE DEF g
    <3>2. Become(Enqueue(g, "PF"))
      BY <2>2 DEF g
    <3>3. Tidy(g, Enqueue(g, "PF"))
      BY <2>1, <2>2, <3>1, EnqueueTidy
    <3>4. Tidy(h, Enqueue(g, "PF"))
      BY <3>1, <3>3, TidyTransitive
    <3> QED
      BY <1>4, <1>a, <3>2, <3>4 DEF TypePf
  <2>3. ASSUME NEW ok1 \in BOOLEAN, NEW ok2 \in BOOLEAN, NEW ub1 \in BOOLEAN,
               NEW ub2 \in BOOLEAN,
               Become(KeyAid(IF As400 THEN KeyAid(h, "PA", ok1, ub1) ELSE h, "PF", ok2, ub2))
        PROVE  Tidy(h, h3270') /\ Idle /\ pc' = pc
    <3> DEFINE g == IF As400 THEN KeyAid(h, "PA", ok1, ub1) ELSE h
    <3>1. Sound(g) /\ Tidy(h, g)
      <4>1. Tidy(h, h)
        BY TidyCases
      <4> QED
        BY <1>0, <2>1, <4>1, KeyAidKeeps, KeepsSound, KeyAidTidy
    <3> HIDE DEF g
    <3>2. Become(KeyAid(g, "PF", ok2, ub2))
      BY <2>3 DEF g
    <3>3. Tidy(g, KeyAid(g, "PF", ok2, ub2))
      BY <2>1, <3>1, KeyAidTidy
    <3>4. Tidy(h, KeyAid(g, "PF", ok2, ub2))
      BY <3>1, <3>3, TidyTransitive
    <3> QED
      BY <1>4, <1>a, <3>2, <3>4 DEF TypePf
  <2> QED
    BY <1>4, <2>2, <2>3 DEF TypePf
<1>5. CASE TypeClear
  <2>1. h.lock # {} => Tidy(h, Enqueue(h, "Clear"))
    BY <1>0, EnqueueTidy DEF Key
  <2> QED
    BY <1>0, <1>5, <1>a, <2>1, KeysTidy DEF TypeClear
<1>6. CASE TypeReset
  <2>1. PICK ub \in BOOLEAN :
          Become([DoReset(h, TRUE, ub) EXCEPT !.owed = @ /\ h.ta # <<>>])
    BY <1>6 DEF TypeReset
  <2> DEFINE g == DoReset(h, TRUE, ub)
             o == g.owed /\ h.ta # <<>>
             r == [g EXCEPT !.owed = o]
  <2>2. g \in Session /\ g.ta = <<>>
    BY <1>0, DoResetSane DEF Sound, Sane, Timed
  <2>3. Become(r)
    BY <2>1, Zenon
  <2> HIDE DEF g, o
  <2>4. r.ta = <<>>
    BY <2>2 DEF Session
  <2> HIDE DEF r
  <2>5. Tidy(h, r)
    BY <2>4, TidyCases
  <2> QED
    BY <1>6, <1>a, <2>3, <2>5 DEF TypeReset
<1>7. CASE FtStart
  <2>1. PICK ok \in BOOLEAN, ub \in BOOLEAN :
          Become([KeyAid(h, "Enter", ok, ub) EXCEPT !.ft = TRUE])
    BY <1>7 DEF FtStart
  <2>2. "Enter" \in AidKey
    BY DEF AidKey
  <2> DEFINE g == KeyAid(h, "Enter", ok, ub)
             f == [g EXCEPT !.ft = TRUE]
  <2>3. Sound(g) /\ Tidy(h, g)
    BY <1>0, <2>2, KeyAidKeeps, KeepsSound, KeyAidTidy
  <2>4. Become(f)
    BY <2>1
  <2> HIDE DEF g
  <2>5. f.lock = g.lock /\ f.ta = g.ta
    BY <2>3, FtSound
  <2> HIDE DEF f
  <2>6. Tidy(h, f)
    BY <2>3, <2>5, TidyCases, TidyTransitive
  <2> QED
    BY <1>7, <1>a, <2>4, <2>6 DEF FtStart
<1>8. CASE FtComplete
  <2> DEFINE f == [h EXCEPT !.ft = FALSE]
  <2>1. f.lock = h.lock /\ f.ta = h.ta
    BY <1>0, FtSound
  <2>2. Become(f) /\ Idle
    BY <1>8 DEF FtComplete
  <2> HIDE DEF f
  <2> QED
    BY <1>a, <2>1, <2>2, TidyCases
<1> QED
  BY <1>1, <1>2, <1>3, <1>4, <1>5, <1>6, <1>7, <1>8 DEF User

(* The handlers of the host that do not drain the queue. *)
Undrained == ClearInhibitOnly \/ CtlrEraseAllUnprotected \/ CtlrWriteSscpLu

(* What a handler of the host leaves without going on to drain the queue is   *)
(* clean, but for those three.                                                *)
LEMMA HostTidy ==
    ASSUME IInv, Flushed(h3270), Host
    PROVE  /\ Flushed(h3270')
           /\ Idle
           /\ Clean(h3270) /\ pc' = "idle" => Clean(h3270') \/ Undrained
<1> DEFINE h == h3270
           w == KybdInhibit(h, FALSE)
           Kept == /\ Flushed(h3270')
                   /\ Idle
                   /\ Clean(h3270) /\ pc' = "idle" => Clean(h3270') \/ Undrained
<1> SUFFICES Kept
  OBVIOUS
<1>0. Sound(h) /\ Timed(h)
  BY DEF IInv, Sound, Sane
<1>a. Sound(w) /\ Keeps(h, w) /\ w.lock = h.lock \ {"ENTER_INHIBIT"}
  BY <1>0, ClrSound, InhibitKeeps DEF KybdInhibit, LockBit
<1>b. Flushed(w)
  BY <1>a, KeepsFlushed
<1>c. ASSUME NEW g, Idle, Become(g), Tidy(h, g) PROVE Kept
  BY <1>c DEF Become, Tidy
<1>d. ASSUME NEW g, Idle, NEW loop \in {"ps_process", "kybd_in3270"}, BecomeAndDrain(g, loop),
             Flushed(g)
      PROVE  Kept
  BY <1>d DEF BecomeAndDrain
<1>e. ASSUME NEW g, Idle, Undrained, Become(g), Flushed(g) PROVE Kept
  BY <1>e DEF Become
<1>1. CASE Connect
  <2>1. HostConnected(h).lock = {"AWAITING_FIRST"} /\ Keeps(h, HostConnected(h))
    BY <1>0, HostConnectedSound
  <2>2. Tidy(h, HostConnected(h))
    BY <2>1, TidyCases DEF Keeps
  <2> HIDE DEF Kept
  <2> QED
    BY <1>1, <1>c, <2>2 DEF Connect
<1>2. CASE Disconnect
  <2>1. ASSUME NEW ub \in BOOLEAN PROVE Tidy(h, HostDisconnected(h, ub))
    BY <1>0, HostDisconnectedSound, TidyCases
  <2> HIDE DEF Kept
  <2> QED
    BY <1>2, <1>c, <2>1 DEF Disconnect
<1>3. CASE ChangeMode
  <2>1. PICK new \in CState \ {"NOT_CONNECTED"} :
          BecomeAndDrain(HostIn3270(h, new), "kybd_in3270")
    BY <1>3 DEF ChangeMode
  <2>2. Flushed(HostIn3270(h, new))
    <3>1. HostIn3270(h, new).lock \subseteq {"AWAITING_FIRST"}
      BY <1>0, HostIn3270Sound
    <3> QED
      BY <3>1 DEF Flushed
  <2> HIDE DEF Kept
  <2> QED
    BY <1>3, <1>d, <2>1, <2>2 DEF ChangeMode
<1>4. CASE FirstAnsiData
  <2> DEFINE a == HostIn3270(h, "CONNECTED_ANSI")
             b == FtIn3270(a)
             c == KybdlockClr(b, {"AWAITING_FIRST"})
  <2>1. BecomeAndDrain(c, "ps_process")
    BY <1>4 DEF FirstAnsiData
  <2>2. Sound(a) /\ a.lock \subseteq {"AWAITING_FIRST"}
    BY <1>0, HostIn3270Sound DEF CState
  <2> HIDE DEF a
  <2>3. Sound(b) /\ b.lock = a.lock
    BY <2>2, FtEndSound
  <2> HIDE DEF b
  <2>4. {"AWAITING_FIRST"} \in SUBSET (LockBit \ {"DEFERRED_UNLOCK", "NOT_CONNECTED", "OIA_LOCKED"})
    BY DEF LockBit
  <2>5. Flushed(c)
    BY <2>2, <2>3, <2>4, ClrSound DEF Flushed
  <2> HIDE DEF c, Kept
  <2> QED
    BY <1>4, <1>d, <2>1, <2>5 DEF FirstAnsiData
<1>5. ASSUME NEW restore \in BOOLEAN, CtlrWrite(restore) PROVE Kept
  <2>1. Idle
    BY <1>5 DEF CtlrWrite, InDataStream
  <2>2. ASSUME NEW ub \in BOOLEAN PROVE Flushed(KeyboardRestore(w, ub))
    BY <1>a, <1>b, RestoreKeeps, KeepsFlushed
  <2>3. Flushed(KybdlockClr(w, {"OIA_TWAIT"}))
    <3>1. {"OIA_TWAIT"} \in SUBSET (LockBit \ {"DEFERRED_UNLOCK", "NOT_CONNECTED", "OIA_LOCKED"})
      BY DEF LockBit
    <3> HIDE DEF w
    <3> QED
      BY <1>a, <1>b, <3>1, ClrSound DEF Flushed, LockOnly
  <2>4. \/ \E ub \in BOOLEAN : BecomeAndDrain(KeyboardRestore(w, ub), "ps_process")
        \/ BecomeAndDrain(KybdlockClr(w, {"OIA_TWAIT"}), "ps_process")
    BY <1>5 DEF CtlrWrite
  <2> HIDE DEF w, Kept
  <2> QED
    BY <1>d, <2>1, <2>2, <2>3, <2>4
<1>6. CASE ClearInhibitOnly
  <2>1. Idle /\ Become(w) /\ Undrained
    BY <1>6 DEF ClearInhibitOnly, InDataStream, Undrained
  <2> HIDE DEF w, Kept
  <2> QED
    BY <1>b, <1>e, <2>1
<1>7. CASE CtlrEraseAllUnprotected
  <2>1. Idle /\ Undrained /\ \E ub \in BOOLEAN : Become(KeyboardRestore(w, ub))
    BY <1>7 DEF CtlrEraseAllUnprotected, InDataStream, Undrained
  <2>2. ASSUME NEW ub \in BOOLEAN PROVE Flushed(KeyboardRestore(w, ub))
    BY <1>a, <1>b, RestoreKeeps, KeepsFlushed
  <2> HIDE DEF w, Kept
  <2> QED
    BY <1>e, <2>1, <2>2
<1>8. CASE QueryReply
  <2>1. PICK ok \in BOOLEAN, ub \in BOOLEAN : Become(KybdInhibit(NetRawout(h, ok, ub), TRUE))
    BY <1>8 DEF QueryReply
  <2> DEFINE n == NetRawout(h, ok, ub)
             g == KybdInhibit(n, TRUE)
  <2>2. Sound(n) /\ Tidy(h, n)
    BY <1>0, NetRawoutKeeps, KeepsSound, NetRawoutTidy
  <2>3. Become(g) /\ Idle
    BY <1>8, <2>1 DEF QueryReply, InDataStream
  <2> HIDE DEF n
  <2>4. Tidy(n, g)
    BY <2>2, SetTidy DEF KybdInhibit, LockBit
  <2> HIDE DEF g, Kept
  <2>5. Tidy(h, g)
    BY <2>2, <2>4, TidyTransitive
  <2> QED
    BY <1>c, <2>3, <2>5
<1>9. CASE CtlrWriteSscpLu
  <2>1. Idle /\ Undrained /\ \E ub \in BOOLEAN : Become(KeyboardRestore(h, ub))
    BY <1>9 DEF CtlrWriteSscpLu, Undrained
  <2>2. ASSUME NEW ub \in BOOLEAN PROVE Flushed(KeyboardRestore(h, ub))
    BY <1>0, RestoreKeeps, KeepsFlushed
  <2> HIDE DEF Kept
  <2> QED
    BY <1>e, <2>1, <2>2
<1> QED
  BY <1>1, <1>2, <1>3, <1>4, <1>5, <1>6, <1>7, <1>8, <1>9 DEF Host

(* The drain loop stops only at a lock or at the end of the queue, and the    *)
(* timer that unlocks a connected keyboard starts the loop.                   *)
LEMMA ProgramTidy ==
    ASSUME IInv, Flushed(h3270), Program
    PROVE  Flushed(h3270') /\ (pc' = "idle" => Clean(h3270'))
<1> DEFINE h == h3270
           Kept == Flushed(h3270') /\ (pc' = "idle" => Clean(h3270'))
<1> SUFFICES Kept
  OBVIOUS
<1>0. Sound(h) /\ Timed(h) /\ h \in Session
  BY DEF IInv, Sound, Sane, Timed
<1>1. CASE RunTa
  <2> DEFINE t == Tail(h.ta)
             g == [h EXCEPT !.ta = t]
  <2>1. h.ta \in Seq(Key) /\ h.ta # <<>> /\ h.lock = {} /\ pc' = pc /\ pc # "idle"
    BY <1>0, <1>1, SessionParts DEF RunTa, Draining
  <2>2. t \in Seq(Key) /\ Head(h.ta) \in Key
    BY <2>1
  <2>3. PICK ok \in BOOLEAN, bad \in BOOLEAN, ub \in BOOLEAN :
          h3270' = RunEntry(g, Head(h.ta), ok, bad, ub)
    BY <1>1 DEF RunTa
  <2> HIDE DEF t
  <2>4. /\ g \in Session /\ g.lock = h.lock /\ g.cstate = h.cstate
        /\ g.owed = h.owed /\ g.timers = h.timers /\ g.stamp = h.stamp /\ g.ta = t
    BY <1>0, <2>2 DEF Session
  <2> HIDE DEF g
  <2>5. Sound(g) /\ Flushed(g)
    BY <1>0, <2>1, <2>4 DEF Sound, Sane, Timed, Connected, Flushed
  <2>6. Tidy(g, RunEntry(g, Head(h.ta), ok, bad, ub))
    <3>1. Head(h.ta) \notin {"Char", "Tab", "Clear"} => Head(h.ta) \in AidKey
      BY <2>2 DEF Key, AidKey
    <3> QED
      BY <2>5, <3>1, KeysTidy, KeyAidTidy DEF RunEntry
  <2> QED
    BY <2>1, <2>3, <2>5, <2>6 DEF Tidy
<1>2. CASE PsProcessDone
  <2>1. Flushed(h) /\ Clean(h)
    BY <1>2 DEF PsProcessDone, Clean
  <2>2. ASSUME NEW g, Sound(g), Tidy(h, g), h3270' = AfterLoop(g)
        PROVE  Kept
    <3>1. FtIn3270(g).lock = g.lock /\ FtIn3270(g).ta = g.ta
      BY <2>2, FtEndSound
    <3>2. h3270'.lock = g.lock /\ h3270'.ta = g.ta
      BY <2>2, <3>1 DEF AfterLoop
    <3> QED
      BY <2>1, <2>2, <3>2 DEF Tidy, Flushed, Clean
  <2>3. CASE h3270' = AfterLoop(h)
    BY <1>0, <2>2, <2>3, TidyCases
  <2>4. ASSUME NEW a \in {"Enter", "PF"}, NEW ok \in BOOLEAN, NEW ub \in BOOLEAN,
               NEW more \in BOOLEAN,
               h3270' = AfterLoop([KeyAid(h, a, ok, ub) EXCEPT !.ft = @ /\ more])
        PROVE  Kept
    <3> DEFINE k == KeyAid(h, a, ok, ub)
               f == k.ft /\ more
               g == [k EXCEPT !.ft = f]
    <3>1. a \in AidKey
      BY DEF AidKey
    <3>2. Sound(k) /\ Tidy(h, k)
      BY <1>0, <3>1, KeyAidKeeps, KeepsSound, KeyAidTidy
    <3>3. h3270' = AfterLoop(g)
      BY <2>4, Zenon
    <3>4. f \in BOOLEAN
      BY <3>2 DEF Sound, Sane, Timed, Session
    <3> HIDE DEF k, f
    <3>5. Sound(g) /\ g.lock = k.lock /\ g.ta = k.ta
      BY <3>2, <3>4, FtSound
    <3> HIDE DEF g, Kept
    <3>6. Tidy(h, g)
      BY <3>2, <3>5, TidyCases, TidyTransitive
    <3> QED
      BY <2>2, <3>3, <3>5, <3>6
  <2>5. \/ h3270' = AfterLoop(h)
        \/ \E a \in {"Enter", "PF"}, ok, ub, more \in BOOLEAN :
             h3270' = AfterLoop([KeyAid(h, a, ok, ub) EXCEPT !.ft = @ /\ more])
    BY <1>2, Zenon DEF PsProcessDone
  <2>6. CASE \E a \in {"Enter", "PF"}, ok, ub, more \in BOOLEAN :
               h3270' = AfterLoop([KeyAid(h, a, ok, ub) EXCEPT !.ft = @ /\ more])
    <3> PICK a \in {"Enter", "PF"}, ok \in BOOLEAN, ub \in BOOLEAN, more \in BOOLEAN :
          h3270' = AfterLoop([KeyAid(h, a, ok, ub) EXCEPT !.ft = @ /\ more])
      BY <2>6, Zenon
    <3> HIDE DEF Kept
    <3> QED
      BY <2>4, Zenon
  <2> QED
    BY <2>3, <2>5, <2>6
<1>3. CASE DeferUnlockFires
  <2> DEFINE r == RemoveUnlockTimer(h)
             g == KybdlockClr(r, {"DEFERRED_UNLOCK"})
  <2>1. "DEFERRED_UNLOCK" \in h.lock
    BY <1>0, <1>3 DEF DeferUnlockFires, Timed
  <2>2. RemoveDeferred(h) = r
    BY <2>1 DEF RemoveDeferred
  <2>3. {"DEFERRED_UNLOCK"} \in SUBSET LockBit
    BY DEF LockBit
  <2>4. LockOnly(h, g) /\ g.lock = h.lock \ {"DEFERRED_UNLOCK"}
    BY <1>0, <2>2, <2>3, ReleaseTimed
  <2>5. \/ Connected(g) /\ BecomeAndDrain(g, "ps_process")
        \/ ~Connected(g) /\ Become(g)
    BY <1>3 DEF DeferUnlockFires
  <2> HIDE DEF g
  <2>6. Flushed(g) /\ (~Connected(g) => Clean(g))
    BY <1>0, <2>4 DEF Flushed, Clean, LockOnly, Connected, Sound, Sane
  <2> QED
    BY <2>5, <2>6 DEF Become, BecomeAndDrain
<1> QED
  BY <1>1, <1>2, <1>3 DEF Program

(* The clock touches neither the lock nor the queue. *)
LEMMA TimeTidy ==
    ASSUME IInv, Time
    PROVE  /\ h3270'.lock = h3270.lock /\ h3270'.ta = h3270.ta /\ h3270'.died = h3270.died
           /\ pc' = pc
<1>1. h3270 \in Session
  BY DEF IInv, Sound, Sane, Timed
<1> QED
  BY <1>1 DEF Time, Expire, Second, Session

(* No step leaves keys behind an unlocked keyboard, but those three.          *)
LEMMA StrandedOnlyUndrained ==
    ASSUME IInv, Flushed(h3270), [Next]_vars
    PROVE  Flushed(h3270)' /\ (~Stranded /\ Stranded' => Undrained)
<1>1. CASE UNCHANGED vars
  BY <1>1 DEF vars, Stranded, Idle, Flushed
<1>2. CASE User
  BY <1>2, UserTidy DEF Tidy, Clean, Flushed, Stranded, Idle
<1>3. CASE Host
  BY <1>3, HostTidy DEF Clean, Flushed, Stranded, Idle
<1>4. CASE Program
  BY <1>4, ProgramTidy DEF Clean, Flushed, Stranded, Idle
<1>5. CASE Time
  BY <1>5, TimeTidy DEF Flushed, Stranded, Idle
<1> QED
  BY <1>1, <1>2, <1>3, <1>4, <1>5 DEF Next

(* Keys wait in the queue of an unlocked keyboard only after a Clear-Inhibit, *)
(* an Erase All Unprotected or SSCP-LU data (sf.c, ctlr.c): every other       *)
(* handler that unlocks drains the queue, or finds none.                      *)
THEOREM StrandsOnlyThere == Spec => OnlyUndrainedHandlersStrand
<1>1. Init => Flushed(h3270)
  BY DEF Init, Flushed
<1>2. IInv /\ Flushed(h3270) /\ [Next]_vars
        => /\ IInv' /\ Flushed(h3270)'
           /\ [~Stranded /\ Stranded'
                 => ClearInhibitOnly \/ CtlrEraseAllUnprotected \/ CtlrWriteSscpLu]_vars
  BY NextInv, StrandedOnlyUndrained DEF Undrained
<1> QED
  BY <1>1, <1>2, InitInv, PTL DEF Spec, OnlyUndrainedHandlersStrand
=============================================================================
