--------------------------- MODULE FileTransferProofs --------------------------
(***************************************************************************)
(* Theorems about FileTransfer, for every file, table and size of frame.   *)
(*                                                                         *)
(* Why no data moves after a cancellation is a matter of the order in      *)
(* which things cross between the two sides.  The host asks for one thing  *)
(* at a time, and IInv says what may be under way: nothing, the message,   *)
(* or its answer (Lockstep), each in its phase of the host's (Fits), and   *)
(* where an aborted transfer is: its refusal is on the way, or the host    *)
(* has taken it and asks for no more data (Stops).  "message" says whether *)
(* DFT inserts data or the host's last message, so that it has to follow   *)
(* the phases, too (Reading).  The acknowledgement that follows the error  *)
(* of a failed DFT write is the one thing that can be under way besides,   *)
(* until the host drops it (Stale, Answered).                              *)
(*                                                                         *)
(* What UpFrame, DftBuffer, UploadConvert and Encode compute is not used.  *)
(***************************************************************************)
EXTENDS FileTransfer, SequenceTheorems, TLAPS

FtFields == {"state", "receive", "crlf", "file", "lastCr", "quadrant", "buffered", "eof",
             "message", "error", "report"}
HostFields == {"phase", "cut", "data", "quadrant", "waits", "ok"}

(* What answers each of the host's messages. *)
AnswerTo(type) ==
    CASE type \in {"hostAck", "request", "data", "bad", "complete", "abort"} -> "enter"
      [] type \in {"open", "openMsg"} -> "openAck"
      [] type = "insert" -> "dataAck"
      [] type = "get"    -> "getReply"
      [] type = "close"  -> "closeAck"

(* The phases of the host in which a message can be on its way. *)
Fits(m, phase) ==
    \/ m.type \in {"hostAck", "request", "data", "bad", "open", "insert", "get"} /\ phase = "data"
    \/ m.type = "data" /\ m.data = EofData /\ phase = "complete"
    \/ m.type = "close" /\ phase = "openMsg"
    \/ m.type = "openMsg" /\ phase = "message"
    \/ m.type \in {"complete", "abort", "insert"} /\ phase = "end"

Records == DOMAIN ft = FtFields /\ DOMAIN host = HostFields

(* A DFT write has failed in this transfer.                                   *)
Late == ~host.cut /\ ft.error

(* What the host has still to drop while it leads, or waits.                  *)
Stale ==
    \/ toHost = <<>>
    \/ /\ Late /\ \E b : toHost = <<b>> /\ b.type = "dataAck"
       /\ \/ host.phase = "close" /\ host.waits = ""
          \/ host.phase = "openMsg" /\ host.waits = "closeAck"

(* What the host waits for is on its way.                                     *)
Answered ==
    \/ \E a : toHost = <<a>> /\ Expected(a)
    \/ /\ Late /\ host.waits = "closeAck"
       /\ \E a, b : toHost = <<b, a>> /\ b.type = "dataAck" /\ Expected(a)
    \/ /\ Late /\ host.waits = "dataAck"
       /\ \E a, b : toHost = <<a, b>> /\ b.type = "dataAck" /\ a.type = "error"

(* The host's turn; its message on the way; the answer on the way, or none.   *)
Lockstep ==
    \/ toTerminal = <<>> /\ host.waits = "" /\ Stale
    \/ /\ Stale
       /\ \E m : toTerminal = <<m>> /\ Fits(m, host.phase) /\ host.waits = AnswerTo(m.type)
    \/ /\ toTerminal = <<>> /\ host.waits \in {"enter", "openAck", "dataAck", "getReply", "closeAck"}
       /\ (ft.state = "FT_NONE" /\ Stale) \/ Answered

(* Which phases and answers belong to CUT and which to DFT.                   *)
Protocol ==
    /\ host.phase \in {"idle", "asked"} => host.waits = ""
    /\ host.phase \in {"complete", "abort"} \/ host.waits = "enter" => host.cut
    /\ \/ host.phase \in {"close", "openMsg", "message"}
       \/ host.waits \in {"openAck", "dataAck", "getReply", "closeAck"}
       => ~host.cut

(* An aborted transfer is one the host ends, or will when it sees the answer. *)
Stops ==
    /\ ft.state \in FtState
    /\ host.phase = "asked" => ft.state \in {"FT_AWAIT_ACK", "FT_NONE"}
    /\ ft.state = "FT_ABORT_SENT" =>
         \/ host.phase \in {"abort", "close", "openMsg", "message", "end", "idle"}
         \/ toTerminal = <<>> /\ toHost # <<>> /\ Head(toHost).type \in {"pf2", "error"}

(* Between the host's opening data and its message, inserts are of data.      *)
Reading ==
    ft.state # "FT_NONE" /\ ~host.cut =>
      /\ host.phase = "data" /\ ~(Arrived("open")) => ~ft.message
      /\ host.phase = "end" /\ toTerminal # <<>> => ft.message
      /\ host.phase = "message" /\ toTerminal = <<>> => ft.message

IInv == Records /\ Lockstep /\ Protocol /\ Stops /\ Reading
-----------------------------------------------------------------------------
(* Queues of one and two answers.                                             *)
LEMMA Queues ==
    ASSUME NEW a, NEW b
    PROVE  /\ Head(<<a>>) = a /\ Tail(<<a>>) = <<>> /\ <<a>> # <<>>
           /\ Head(<<a, b>>) = a /\ Tail(<<a, b>>) = <<b>> /\ <<a, b>> # <<>>
           /\ Len(<<a>>) = 1 /\ Len(<<a, b>>) = 2
           /\ <<>> \o <<a>> = <<a>> /\ <<>> \o <<a, b>> = <<a, b>> /\ <<a>> \o <<b>> = <<a, b>>
<1> DEFINE S == {a, b}
<1>1. <<a>> \in Seq(S) /\ <<b>> \in Seq(S) /\ <<a, b>> \in Seq(S)
  OBVIOUS
<1>2. /\ <<a>> \o <<b>> \in Seq(S) /\ Len(<<a>> \o <<b>>) = 2
      /\ (<<a>> \o <<b>>)[1] = a /\ (<<a>> \o <<b>>)[2] = b
  BY <1>1, ConcatProperties
<1>3. \A i \in 1 .. 2 : (<<a>> \o <<b>>)[i] = <<a, b>>[i]
  BY <1>2
<1>4. <<a>> \o <<b>> = <<a, b>>
  BY <1>1, <1>2, <1>3, SeqEqual
<1>5. <<>> \o <<a>> = <<a>> /\ <<>> \o <<a, b>> = <<a, b>>
  BY <1>1
<1>6. Head(<<a>>) = a /\ Tail(<<a>>) = <<>> /\ <<a>> # <<>> /\ Len(<<a>>) = 1
  OBVIOUS
<1>7. Head(<<a, b>>) = a /\ Tail(<<a, b>>) = <<b>> /\ <<a, b>> # <<>> /\ Len(<<a, b>>) = 2
  OBVIOUS
<1> QED BY <1>4, <1>5, <1>6, <1>7

(* A message on its way is the only one, in its phase, and waited for.        *)
LEMMA Arriving ==
    ASSUME IInv, toTerminal # <<>>
    PROVE  \E m : /\ toTerminal = <<m>> /\ Head(toTerminal) = m /\ Stale
                  /\ Fits(m, host.phase) /\ host.waits = AnswerTo(m.type)
BY Queues DEF IInv, Lockstep

(* One answer, of a kind the host expects, keeps the invariant, if the        *)
(* transfer aborts only with a refusal and inserts what the phase says.       *)
LEMMA AnswerKeeps ==
    ASSUME IInv, NEW m, toTerminal = <<m>>, Stale, Fits(m, host.phase), host.waits = AnswerTo(m.type),
           InTransfer, NEW new, NEW a, Handle(new, <<a>>),
           DOMAIN new = FtFields, new.state \in FtState, ft.error => new.error,
           Expected(a), a.type \in {"pf2", "error"} => m.type # "close",
           new.state = "FT_ABORT_SENT" => ft.state = "FT_ABORT_SENT" \/ a.type \in {"pf2", "error"},
           new.state # "FT_NONE" /\ ~host.cut =>
               /\ host.phase = "data" => ~new.message
               /\ host.phase = "message" => new.message
    PROVE  IInv'
<1>1. ft' = new /\ host' = host /\ toTerminal' = <<>> /\ toHost' = toHost \o <<a>>
  BY DEF Handle
<1>2. host.waits \in {"enter", "openAck", "dataAck", "getReply", "closeAck"}
  BY DEF Fits, AnswerTo
<1>3. /\ toHost = <<>> /\ toHost' = <<a>>
      \/ /\ Late /\ Late' /\ host.waits = "closeAck" /\ m.type = "close"
         /\ \E b : toHost = <<b>> /\ toHost' = <<b, a>> /\ b.type = "dataAck"
  <2>1. CASE toHost = <<>>
    BY <1>1, <2>1, Queues
  <2>2. CASE toHost # <<>>
    <3>1. Late /\ host.waits = "closeAck" /\ \E b : toHost = <<b>> /\ b.type = "dataAck"
      BY <1>2, <2>2 DEF Stale
    <3>2. Late' /\ m.type = "close"
      BY <1>1, <3>1 DEF Late, AnswerTo, Fits
    <3> QED BY <1>1, <3>1, <3>2, Queues
  <2> QED BY <2>1, <2>2
<1>4. Records'
  BY <1>1 DEF IInv, Records
<1>5. Lockstep'
  <2>1. Expected(a)'
    BY <1>1 DEF Expected
  <2>2. Answered'
    BY <1>1, <1>3, <2>1 DEF Answered
  <2> QED BY <1>1, <1>2, <2>2 DEF Lockstep
<1>6. Protocol'
  BY <1>1 DEF IInv, Protocol
<1>7. Stops'
  <2>1. host.phase # "asked"
    BY DEF Fits
  <2>2. ASSUME ft'.state = "FT_ABORT_SENT"
        PROVE  \/ host.phase \in {"abort", "close", "openMsg", "message", "end", "idle"}
               \/ toHost' = <<a>> /\ a.type \in {"pf2", "error"}
    <3>1. CASE ft.state = "FT_ABORT_SENT"
      BY <3>1, Queues DEF IInv, Stops
    <3>2. CASE a.type \in {"pf2", "error"}
      BY <1>3, <3>2
    <3> QED BY <1>1, <2>2, <3>1, <3>2
  <2> QED BY <1>1, <2>1, <2>2, Queues DEF Stops
<1>8. Reading'
  BY <1>1 DEF Reading, IInv, Arrived
<1> QED BY <1>4, <1>5, <1>6, <1>7, <1>8 DEF IInv

(* What ft_complete, ft_running and ft_aborting change.                       *)
LEMMA Handlers ==
    ASSUME NEW f, DOMAIN f = FtFields, NEW r
    PROVE  /\ LET c == Complete(f, r)
              IN  DOMAIN c = FtFields /\ c.state = "FT_NONE" /\ c.error = f.error /\ c.file = f.file
           /\ LET c == Running(f)
              IN  /\ DOMAIN c = FtFields /\ c.error = f.error /\ c.file = f.file
                  /\ c.message = f.message
                  /\ c.state = IF f.state = "FT_AWAIT_ACK" THEN "FT_RUNNING" ELSE f.state
           /\ LET c == Aborting(f)
              IN  /\ DOMAIN c = FtFields /\ c.error = f.error /\ c.file = f.file
                  /\ c.message = f.message
                  /\ c.state = IF f.state \in {"FT_RUNNING", "FT_ABORT_WAIT"}
                               THEN "FT_ABORT_SENT" ELSE f.state
BY DEF Complete, Running, Aborting, FtFields

(* The handlers of ft_cut.c keep the invariant, and the file once aborted.    *)
LEMMA CutStep ==
    ASSUME IInv, Cut
    PROVE  IInv' /\ (ft.state \in {"FT_ABORT_WAIT", "FT_ABORT_SENT"} => ft'.file = ft.file)
<1>1. toTerminal # <<>> /\ InTransfer
  BY DEF Cut, CutHostAck, CutXferComplete, CutHostAborts, CutEndUnsent, CutBadFrame,
         CutDataRequest, CutReadFails, CutData, CutWriteFails, CutCancelled, Arrived
<1>2. PICK m : /\ toTerminal = <<m>> /\ Head(toTerminal) = m /\ Stale
               /\ Fits(m, host.phase) /\ host.waits = AnswerTo(m.type)
  BY <1>1, Arriving
<1>3. DOMAIN ft = FtFields /\ ft.state \in FtState /\ DOMAIN host = HostFields
  BY DEF IInv, Records, Stops
<1>4. m.type \in {"hostAck", "request", "data", "bad", "complete", "abort"}
  BY <1>2 DEF Cut, CutHostAck, CutXferComplete, CutHostAborts, CutEndUnsent, CutBadFrame,
         CutDataRequest, CutReadFails, CutData, CutWriteFails, CutCancelled, Arrived
<1>5. host.waits = "enter" /\ host.cut
  BY <1>2, <1>4 DEF AnswerTo, IInv, Protocol
<1>6. m.type \in {"request", "data"} => ft.state # "FT_ABORT_SENT"
  BY <1>2, Queues DEF Fits, IInv, Stops
(* It is enough to say what becomes of the transfer, and that one answer is sent. *)
<1>7. ASSUME NEW new, DOMAIN new = FtFields, new.state \in FtState, ft.error => new.error,
             \/ \E data : Handle(new, <<Enter(data)>>) /\ (new.state # "FT_ABORT_SENT" \/ new.state = ft.state)
             \/ \E reason : Handle(new, <<PF2(reason)>>)
      PROVE  IInv' /\ ft' = new
  <2>1. CASE \E data : Handle(new, <<Enter(data)>>) /\ (new.state # "FT_ABORT_SENT" \/ new.state = ft.state)
    <3>1. PICK data : Handle(new, <<Enter(data)>>) /\ (new.state # "FT_ABORT_SENT" \/ new.state = ft.state)
      BY <2>1
    <3>2. Expected(Enter(data)) /\ Enter(data).type \notin {"pf2", "error"}
      BY <1>5 DEF Expected, Enter, Message
    <3>3. IInv'
      BY <1>1, <1>2, <1>5, <1>7, <3>1, <3>2, AnswerKeeps
    <3> QED BY <3>1, <3>3 DEF Handle
  <2>2. CASE \E reason : Handle(new, <<PF2(reason)>>)
    <3>1. PICK reason : Handle(new, <<PF2(reason)>>)
      BY <2>2
    <3>2. Expected(PF2(reason)) /\ PF2(reason).type \in {"pf2", "error"}
      BY DEF Expected, PF2, Message
    <3>3. m.type # "close"
      BY <1>4
    <3>4. IInv'
      BY <1>1, <1>2, <1>5, <1>7, <3>1, <3>2, <3>3, AnswerKeeps
    <3> QED BY <3>1, <3>4 DEF Handle
  <2> QED BY <1>7, <2>1, <2>2
<1>8. CASE CutHostAck
  <2> DEFINE f == [ft EXCEPT !.quadrant = Unset, !.buffered = <<>>]
  <2>1. DOMAIN f = FtFields /\ f.state = ft.state /\ f.error = ft.error /\ f.file = ft.file
    BY <1>3 DEF FtFields
  <2> HIDE DEF f
  <2>2. /\ DOMAIN Running(f) = FtFields /\ Running(f).state \in FtState
        /\ Running(f).error = ft.error /\ Running(f).file = ft.file
        /\ Running(f).state # "FT_ABORT_SENT" \/ Running(f).state = ft.state
    BY <1>3, <2>1, Handlers DEF FtState
  <2>3. Handle(Running(f), <<Enter(<<>>)>>)
    BY <1>8 DEF CutHostAck, f
  <2> QED BY <1>7, <2>2, <2>3
<1>9. CASE CutXferComplete \/ CutHostAborts
  <2>1. PICK r : Handle(Complete(ft, r), <<Enter(<<>>)>>)
    BY <1>9 DEF CutXferComplete, CutHostAborts
  <2>2. /\ DOMAIN Complete(ft, r) = FtFields /\ Complete(ft, r).state = "FT_NONE"
        /\ Complete(ft, r).error = ft.error /\ Complete(ft, r).file = ft.file
    BY <1>3, Handlers
  <2> QED BY <1>7, <2>1, <2>2 DEF FtState
<1>10. CASE CutEndUnsent
  <2>1. PICK r : ft' = Complete(ft, r)
    BY <1>10 DEF CutEndUnsent
  <2>2. DOMAIN ft' = FtFields /\ ft'.state = "FT_NONE" /\ ft'.file = ft.file
    BY <1>3, <2>1, Handlers
  <2>3. /\ DOMAIN host' = HostFields /\ host'.phase = "idle" /\ host'.waits = ""
        /\ toTerminal' = <<>> /\ toHost' = <<>>
    BY <1>3, <1>10 DEF CutEndUnsent, HostFields
  <2>4. Records' /\ Lockstep' /\ Protocol'
    BY <2>2, <2>3 DEF Records, Lockstep, Stale, Protocol
  <2>5. Stops' /\ Reading'
    BY <2>2, <2>3 DEF Stops, Reading, FtState
  <2> QED BY <2>2, <2>4, <2>5 DEF IInv
<1>11. CASE CutBadFrame \/ CutCancelled
  <2>1. PICK reason : Handle(Aborting(ft), <<PF2(reason)>>)
    BY <1>11 DEF CutBadFrame, CutCancelled, CutAbort
  <2>2. /\ DOMAIN Aborting(ft) = FtFields /\ Aborting(ft).state \in FtState
        /\ Aborting(ft).error = ft.error /\ Aborting(ft).file = ft.file
    BY <1>3, Handlers DEF FtState
  <2> QED BY <1>7, <2>1, <2>2
<1>12. CASE CutDataRequest
  <2>1. PICK f, data : Handle(HaveRead(f), <<Enter(data)>>)
    BY <1>12 DEF CutDataRequest
  <2>2. /\ DOMAIN HaveRead(f) = FtFields /\ HaveRead(f).state = ft.state
        /\ HaveRead(f).error = ft.error
    BY <1>3 DEF HaveRead, FtFields
  <2>3. ft.state \notin {"FT_ABORT_WAIT", "FT_ABORT_SENT"}
    BY <1>2, <1>6, <1>12 DEF CutDataRequest, Arrived, Cancelled
  <2> QED BY <1>3, <1>7, <2>1, <2>2, <2>3
<1>13. CASE CutReadFails
  <2> DEFINE f == [HaveRead(UpFrame.ft) EXCEPT !.error = TRUE]
  <2>1. /\ DOMAIN HaveRead(UpFrame.ft) = FtFields /\ HaveRead(UpFrame.ft).state = ft.state
    BY <1>3 DEF HaveRead, FtFields
  <2>2. DOMAIN f = FtFields /\ f.state = ft.state /\ f.error
    BY <2>1 DEF FtFields
  <2>3. CutAbort(f, SC_ABORT_FILE)
    BY <1>13 DEF CutReadFails
  <2> HIDE DEF f
  <2>4. /\ DOMAIN Aborting(f) = FtFields /\ Aborting(f).state \in FtState /\ Aborting(f).error
    BY <1>3, <2>2, Handlers DEF FtState
  <2>5. ft.state \notin {"FT_ABORT_WAIT", "FT_ABORT_SENT"}
    BY <1>2, <1>6, <1>13 DEF CutReadFails, Arrived, Cancelled
  <2> QED BY <1>7, <2>3, <2>4, <2>5 DEF CutAbort
<1>14. CASE CutData
  <2> DEFINE up  == UploadConvert(ft, Arg)
             new == [ft EXCEPT !.quadrant = up.quadrant]
             written == [new EXCEPT !.file = @ \o up.bytes]
  <2>1. ft.state \notin {"FT_ABORT_WAIT", "FT_ABORT_SENT"}
    BY <1>2, <1>6, <1>14 DEF CutData, Arrived, Cancelled
  <2>2. DOMAIN new = FtFields /\ new.state = ft.state /\ new.error = ft.error
    BY <1>3 DEF FtFields
  <2>3. \/ Handle(ft, <<Enter(<<>>)>>)
        \/ \E reason : CutAbort(new, reason)
        \/ Handle(written, <<Enter(<<>>)>>)
    BY <1>14 DEF CutData
  <2>4. DOMAIN written = FtFields /\ written.state = ft.state /\ written.error = ft.error
    BY <2>2 DEF FtFields
  <2> HIDE DEF new, written
  <2>5. /\ DOMAIN Aborting(new) = FtFields /\ Aborting(new).state \in FtState
        /\ Aborting(new).error = ft.error
    BY <1>3, <2>2, Handlers DEF FtState
  <2>6. CASE Handle(ft, <<Enter(<<>>)>>)
    BY <1>3, <1>7, <2>1, <2>6
  <2>7. CASE \E reason : CutAbort(new, reason)
    BY <1>7, <2>1, <2>5, <2>7 DEF CutAbort
  <2>8. CASE Handle(written, <<Enter(<<>>)>>)
    BY <1>3, <1>7, <2>1, <2>4, <2>8
  <2> QED BY <2>3, <2>6, <2>7, <2>8
<1>15. CASE CutWriteFails
  <2> DEFINE f == [ft EXCEPT !.quadrant = UploadConvert(ft, Arg).quadrant, !.error = TRUE]
  <2>1. DOMAIN f = FtFields /\ f.state = ft.state /\ f.error
    BY <1>3 DEF FtFields
  <2>2. CutAbort(f, SC_ABORT_FILE)
    BY <1>15 DEF CutWriteFails
  <2> HIDE DEF f
  <2>3. /\ DOMAIN Aborting(f) = FtFields /\ Aborting(f).state \in FtState /\ Aborting(f).error
    BY <1>3, <2>1, Handlers DEF FtState
  <2>4. ft.state \notin {"FT_ABORT_WAIT", "FT_ABORT_SENT"}
    BY <1>2, <1>6, <1>15 DEF CutWriteFails, Arrived, Cancelled
  <2> QED BY <1>7, <2>2, <2>3, <2>4 DEF CutAbort
<1> QED BY <1>8, <1>9, <1>10, <1>11, <1>12, <1>13, <1>14, <1>15 DEF Cut

(* Those of ft_dft.c do.                                                      *)
LEMMA DftStep ==
    ASSUME IInv, Dft
    PROVE  IInv' /\ (ft.state \in {"FT_ABORT_WAIT", "FT_ABORT_SENT"} => ft'.file = ft.file)
<1>1. toTerminal # <<>> /\ InTransfer
  BY DEF Dft, DftOpen, DftOpenMsg, DftMessage, DftInsert, DftWriteFails, DftGet, DftReadFails,
         DftCancelled, DftClose, Arrived
<1>2. PICK m : /\ toTerminal = <<m>> /\ Head(toTerminal) = m /\ Stale
               /\ Fits(m, host.phase) /\ host.waits = AnswerTo(m.type)
  BY <1>1, Arriving
<1>3. DOMAIN ft = FtFields /\ ft.state \in FtState /\ DOMAIN host = HostFields
  BY DEF IInv, Records, Stops
<1>4. m.type \in {"open", "openMsg", "insert", "get", "close"}
  BY <1>2 DEF Dft, DftOpen, DftOpenMsg, DftMessage, DftInsert, DftWriteFails, DftGet, DftReadFails,
         DftCancelled, DftClose, Arrived
<1>5. ~host.cut
  BY <1>2, <1>4 DEF AnswerTo, IInv, Protocol
<1>6. /\ host.phase = "data" /\ m.type # "open" => ~ft.message
      /\ host.phase = "end" => ft.message
  BY <1>1, <1>2, <1>5 DEF IInv, Reading, InTransfer, Arrived
<1>7. m.type \in {"insert", "get"} /\ ~ft.message => ft.state # "FT_ABORT_SENT"
  BY <1>2, <1>6, Queues DEF Fits, IInv, Stops
(* It is enough to say what becomes of the transfer, and that one answer is sent. *)
<1>8. ASSUME NEW new, DOMAIN new = FtFields, new.state \in FtState, ft.error => new.error,
             NEW a, Handle(new, <<a>>), Expected(a), a.type # "pf2", a.type = "error" => m.type # "close",
             new.state # "FT_ABORT_SENT" \/ new.state = ft.state \/ a.type = "error",
             \/ new.state = "FT_NONE"
             \/ m.type = "open" /\ ~new.message
             \/ m.type = "openMsg" /\ new.message
             \/ m.type \notin {"open", "openMsg"} /\ new.message = ft.message
      PROVE  IInv' /\ ft' = new
  <2>1. host.phase = "message" => m.type = "openMsg"
    BY <1>2 DEF Fits
  <2>2. host.phase = "data" => m.type # "openMsg"
    BY <1>2 DEF Fits
  <2>3. ft' = new
    BY <1>8 DEF Handle
  <2> QED BY <1>1, <1>2, <1>6, <1>8, <2>1, <2>2, <2>3, AnswerKeeps
<1>9. \A data : /\ Message(AnswerTo(m.type), data).type = AnswerTo(m.type)
                /\ Answer("error").type = "error" /\ Answer("eof").type = "eof"
                /\ Answer(AnswerTo(m.type)) = Message(AnswerTo(m.type), <<>>)
                /\ Expected(Message(AnswerTo(m.type), data)) /\ Expected(Answer("error"))
  BY <1>2 DEF Message, Answer, Expected
<1>10. AnswerTo(m.type) \in {"openAck", "dataAck", "getReply", "closeAck"}
  BY <1>4 DEF AnswerTo
<1>11. CASE DftOpen \/ DftOpenMsg
  <2>1. m.type \in {"open", "openMsg"} /\ AnswerTo(m.type) = "openAck"
    BY <1>2, <1>11 DEF DftOpen, DftOpenMsg, Arrived, AnswerTo
  <2> DEFINE f == [ft EXCEPT !.message = (m.type = "openMsg"), !.eof = FALSE]
  <2>2. DOMAIN f = FtFields /\ f.state = ft.state /\ f.error = ft.error /\ f.file = ft.file
    BY <1>3 DEF FtFields
  <2>3. f.message <=> m.type = "openMsg"
    BY <1>3 DEF FtFields
  <2>4. CASE DftOpen
    <3>1. m.type = "open" /\ (m.type = "openMsg") = FALSE
      BY <1>2, <2>4 DEF DftOpen, Arrived
    <3>2. Handle(Running(f), <<Answer("openAck")>>)
      BY <2>4, <3>1 DEF DftOpen
    <3> HIDE DEF f
    <3>3. /\ DOMAIN Running(f) = FtFields /\ Running(f).state \in FtState
          /\ Running(f).error = ft.error /\ Running(f).file = ft.file
          /\ Running(f).state # "FT_ABORT_SENT" \/ Running(f).state = ft.state
      BY <1>3, <2>2, Handlers DEF FtState
    <3>4. ~Running(f).message
      BY <2>2, <2>3, <3>1, Handlers
    <3> QED BY <1>8, <1>9, <2>1, <3>1, <3>2, <3>3, <3>4
  <2>5. CASE DftOpenMsg
    <3>1. m.type = "openMsg" /\ (m.type = "openMsg") = TRUE
      BY <1>2, <2>5 DEF DftOpenMsg, Arrived
    <3>2. Handle(f, <<Answer("openAck")>>)
      BY <2>5, <3>1 DEF DftOpenMsg
    <3> HIDE DEF f
    <3> QED BY <1>3, <1>8, <1>9, <2>1, <2>2, <2>3, <3>1, <3>2
  <2> QED BY <1>11, <2>4, <2>5
<1>12. CASE DftMessage
  <2>1. m.type = "insert" /\ AnswerTo(m.type) = "dataAck"
    BY <1>2, <1>12 DEF DftMessage, Arrived, AnswerTo
  <2>2. PICK r : Handle(Complete(ft, r), <<Answer("dataAck")>>)
    BY <1>12 DEF DftMessage
  <2>3. /\ DOMAIN Complete(ft, r) = FtFields /\ Complete(ft, r).state = "FT_NONE"
        /\ Complete(ft, r).error = ft.error /\ Complete(ft, r).file = ft.file
    BY <1>3, Handlers
  <2> QED BY <1>8, <1>9, <2>1, <2>2, <2>3 DEF FtState
<1>13. CASE DftInsert
  <2>1. m.type = "insert" /\ AnswerTo(m.type) = "dataAck"
    BY <1>2, <1>13 DEF DftInsert, Arrived, AnswerTo
  <2> DEFINE f == [ft EXCEPT !.file = @ \o Strip(Arg, ft.crlf)]
  <2>2. /\ DOMAIN f = FtFields /\ f.state = ft.state /\ f.error = ft.error
        /\ f.message = ft.message
    BY <1>3 DEF FtFields
  <2>3. Handle(f, <<Answer("dataAck")>>)
    BY <1>13 DEF DftInsert
  <2> HIDE DEF f
  <2>4. ft.state \notin {"FT_ABORT_WAIT", "FT_ABORT_SENT"}
    BY <1>7, <1>13, <2>1 DEF DftInsert, Cancelled
  <2> QED BY <1>3, <1>8, <1>9, <2>1, <2>2, <2>3, <2>4
<1>14. CASE DftWriteFails
  <2>1. m.type = "insert" /\ host.waits = "dataAck" /\ toHost = <<>>
    BY <1>2, <1>14 DEF DftWriteFails, Arrived, AnswerTo, Stale
  <2> DEFINE f == [ft EXCEPT !.error = TRUE]
             a == Answer("error")
             b == Answer("dataAck")
  <2>2. /\ DOMAIN f = FtFields /\ f.state = ft.state /\ f.error /\ f.message = ft.message
        /\ f.file = ft.file
    BY <1>3 DEF FtFields
  <2>3. Handle(Aborting(f), <<a, b>>)
    BY <1>14 DEF DftWriteFails
  <2>4. a.type = "error" /\ b.type = "dataAck"
    BY DEF Answer, Message
  <2> HIDE DEF f, a, b
  <2>5. /\ DOMAIN Aborting(f) = FtFields /\ Aborting(f).state \in FtState
        /\ Aborting(f).error /\ Aborting(f).message = ft.message /\ Aborting(f).file = ft.file
    BY <1>3, <2>2, Handlers DEF FtState
  <2>6. /\ ft' = Aborting(f) /\ host' = host /\ toTerminal' = <<>> /\ toHost' = <<a, b>>
    BY <2>1, <2>3, Queues DEF Handle
  <2>7. Records' /\ Protocol' /\ Reading'
    BY <1>2, <1>3, <1>5, <1>6, <2>1, <2>5, <2>6
       DEF Records, Protocol, Reading, IInv, Arrived, Fits
  <2>8. Lockstep'
    <3>1. Late'
      BY <1>5, <2>5, <2>6 DEF Late
    <3>2. Answered'
      BY <2>1, <2>4, <2>6, <3>1 DEF Answered
    <3> QED BY <2>1, <2>6, <3>2 DEF Lockstep
  <2>9. Stops'
    <3>1. host.phase # "asked"
      BY <1>2 DEF Fits
    <3> QED BY <2>4, <2>5, <2>6, <3>1, Queues DEF Stops
  <2> QED BY <2>5, <2>6, <2>7, <2>8, <2>9 DEF IInv
<1>15. CASE DftGet \/ DftReadFails
  <2>1. /\ m.type = "get" /\ AnswerTo(m.type) = "getReply" /\ host.waits = "getReply"
        /\ host.phase = "data"
    BY <1>2, <1>15 DEF DftGet, DftReadFails, Arrived, AnswerTo, Fits
  <2>2. ~ft.message /\ ft.state \notin {"FT_ABORT_WAIT", "FT_ABORT_SENT"}
    BY <1>6, <1>7, <1>15, <2>1 DEF DftGet, DftReadFails, Cancelled
  <2>3. \A f : /\ DOMAIN HaveRead(f) = FtFields /\ HaveRead(f).state = ft.state
               /\ HaveRead(f).error = ft.error /\ HaveRead(f).message = ft.message
    BY <1>3 DEF HaveRead, FtFields
  <2>4. CASE DftGet
    <3>1. PICK f : \/ \E data : Handle(HaveRead(f), <<Message("getReply", data)>>)
                   \/ Handle([HaveRead(f) EXCEPT !.eof = TRUE], <<Answer("eof")>>)
      BY <2>4 DEF DftGet
    <3> DEFINE h == HaveRead(f)
               e == [h EXCEPT !.eof = TRUE]
    <3>2. DOMAIN h = FtFields /\ h.state = ft.state /\ h.error = ft.error /\ h.message = ft.message
      BY <2>3
    <3> HIDE DEF h
    <3>3. DOMAIN e = FtFields /\ e.state = ft.state /\ e.error = ft.error /\ e.message = ft.message
      BY <3>2 DEF FtFields
    <3> HIDE DEF e
    <3>4. ASSUME NEW data, Handle(h, <<Message("getReply", data)>>)
          PROVE  IInv'
      BY <1>3, <1>8, <1>9, <2>1, <2>2, <3>2, <3>4
    <3>5. ASSUME Handle(e, <<Answer("eof")>>)
          PROVE  IInv'
      <4>1. Expected(Answer("eof"))
        BY <1>9, <2>1 DEF Expected
      <4> QED BY <1>3, <1>8, <1>9, <2>1, <2>2, <3>3, <3>5, <4>1
    <3> QED BY <2>2, <3>1, <3>4, <3>5 DEF h, e
  <2>5. CASE DftReadFails
    <3> DEFINE h == HaveRead(DftBuffer.ft)
               e == [h EXCEPT !.error = TRUE]
    <3>1. Handle(Aborting(e), <<Answer("error")>>)
      BY <2>5 DEF DftReadFails
    <3>2. DOMAIN h = FtFields /\ h.state = ft.state /\ h.message = ft.message
      BY <2>3
    <3> HIDE DEF h
    <3>3. DOMAIN e = FtFields /\ e.state = ft.state /\ e.error /\ e.message = ft.message
      BY <3>2 DEF FtFields
    <3> HIDE DEF e
    <3>4. /\ DOMAIN Aborting(e) = FtFields /\ Aborting(e).state \in FtState
          /\ Aborting(e).error /\ Aborting(e).message = ft.message
      BY <1>3, <3>3, Handlers DEF FtState
    <3> QED BY <1>8, <1>9, <2>1, <2>2, <3>1, <3>4
  <2> QED BY <1>15, <2>4, <2>5
<1>16. CASE DftCancelled
  <2>1. m.type \in {"insert", "get"}
    BY <1>2, <1>16 DEF DftCancelled, Arrived
  <2>2. Handle(Aborting(ft), <<Answer("error")>>)
    BY <1>16 DEF DftCancelled
  <2>3. /\ DOMAIN Aborting(ft) = FtFields /\ Aborting(ft).state \in FtState
        /\ Aborting(ft).error = ft.error /\ Aborting(ft).file = ft.file
        /\ Aborting(ft).message = ft.message
    BY <1>3, Handlers DEF FtState
  <2> QED BY <1>8, <1>9, <2>1, <2>2, <2>3
<1>17. CASE DftClose
  <2>1. m.type = "close" /\ AnswerTo(m.type) = "closeAck"
    BY <1>2, <1>17 DEF DftClose, Arrived, AnswerTo
  <2>2. Handle(ft, <<Answer("closeAck")>>)
    BY <1>17 DEF DftClose
  <2> QED BY <1>3, <1>8, <1>9, <2>1, <2>2
<1> QED BY <1>11, <1>12, <1>13, <1>14, <1>15, <1>16, <1>17 DEF Dft

(* On the host's turn nothing is on its way, but for one acknowledgement      *)
(* after a refused DFT write, and in "data" the transfer is not aborted.      *)
LEMMA Turns ==
    ASSUME IInv, host.waits = "", toTerminal = <<>>
    PROVE  /\ Stale
           /\ host.phase # "close" => toHost = <<>>
           /\ host.phase = "data" => ft.state # "FT_ABORT_SENT"
<1>1. Stale
  BY DEF IInv, Lockstep, Fits, AnswerTo
<1>2. host.phase # "close" => toHost = <<>>
  BY <1>1 DEF Stale
<1>3. host.phase = "data" => ft.state # "FT_ABORT_SENT"
  BY <1>2 DEF IInv, Stops
<1> QED BY <1>1, <1>2, <1>3

(* A message of the host's that fits its phase keeps the invariant.           *)
LEMMA SendKeeps ==
    ASSUME IInv, NEW type, NEW data, NEW new, HostSends(type, data, AnswerTo(type), new),
           toTerminal = <<>>, host.waits = "", Stale,
           DOMAIN new = HostFields, new.phase \notin {"asked", "idle"},
           Fits(Message(type, data), new.phase),
           new.cut <=> type \in {"hostAck", "request", "data", "bad", "complete", "abort"},
           (new.cut <=> host.cut) \/ toHost = <<>>,
           toHost # <<>> => type = "close",
           new.phase \in {"complete", "abort"} => new.cut,
           new.phase \in {"close", "openMsg", "message"} => ~new.cut,
           new.phase \in {"data", "complete"} => ft.state # "FT_ABORT_SENT",
           ft.state # "FT_NONE" /\ ~new.cut =>
               /\ new.phase = "data" => ~ft.message \/ type = "open"
               /\ new.phase = "end" => ft.message
    PROVE  IInv' /\ ft' = ft
<1> DEFINE m == Message(type, data)
<1>1. /\ toTerminal' = <<m>> /\ ft' = ft /\ toHost' = toHost /\ m.type = type
      /\ host' = [new EXCEPT !.waits = AnswerTo(type)]
  BY DEF HostSends, Message
<1>2. /\ DOMAIN host' = HostFields /\ host'.phase = new.phase /\ host'.cut = new.cut
      /\ host'.waits = AnswerTo(type)
  BY <1>1 DEF HostFields
<1>3. Fits(m, new.phase)
  OBVIOUS
<1>4. type \in {"hostAck", "request", "data", "bad", "complete", "abort"} \/
      type \in {"open", "openMsg", "insert", "get", "close"}
  BY <1>1 DEF Fits
<1> HIDE DEF m
<1>5. Records'
  BY <1>1, <1>2 DEF IInv, Records
<1>6. Stale'
  <2>1. CASE toHost = <<>>
    BY <1>1, <2>1 DEF Stale
  <2>2. CASE toHost # <<>>
    <3>1. type = "close" /\ new.phase = "openMsg"
      BY <1>1, <1>3, <2>2 DEF Fits
    <3>2. Late'
      BY <1>1, <1>2, <2>2 DEF Stale, Late
    <3>3. \E b : toHost' = <<b>> /\ b.type = "dataAck"
      BY <1>1, <2>2 DEF Stale
    <3> QED BY <1>2, <3>1, <3>2, <3>3 DEF Stale, AnswerTo
  <2> QED BY <2>1, <2>2
<1>7. Lockstep'
  BY <1>1, <1>2, <1>3, <1>6 DEF Lockstep
<1>8. Protocol'
  BY <1>2, <1>4 DEF Protocol, AnswerTo
<1>9. Stops'
  <2>1. new.phase \in {"data", "complete", "openMsg", "message", "end"}
    BY <1>3 DEF Fits
  <2> QED BY <1>1, <1>2, <2>1 DEF IInv, Stops
<1>10. Reading'
  BY <1>1, <1>2, Queues DEF Reading, Arrived
<1> QED BY <1>1, <1>5, <1>7, <1>8, <1>9, <1>10 DEF IInv

(* The host's steps keep the invariant and leave the transfer alone.          *)
LEMMA HostStep ==
    ASSUME IInv, Host
    PROVE  IInv' /\ ft' = ft
<1>1. DOMAIN host = HostFields /\ DOMAIN ft = FtFields
  BY DEF IInv, Records
<1>2. ~ft.message \/ ft.state = "FT_NONE" \/ host.cut \/ ~Turn("data")
  BY DEF IInv, Reading, Turn, Arrived
<1>3. CASE HostAcks
  <2>1. PICK cut \in BOOLEAN :
          LET new == [host EXCEPT !.phase = "data", !.cut = cut]
          IN  IF cut THEN HostSends("hostAck", <<>>, "enter", new)
                     ELSE HostSends("open", <<>>, "openAck", new)
    BY <1>3 DEF HostAcks
  <2> DEFINE new == [host EXCEPT !.phase = "data", !.cut = cut]
             type == IF cut THEN "hostAck" ELSE "open"
  <2>2. DOMAIN new = HostFields /\ new.phase = "data" /\ new.cut = cut
    BY <1>1 DEF HostFields
  <2>3. HostSends(type, <<>>, AnswerTo(type), new)
    BY <2>1 DEF AnswerTo
  <2>4. Turn("asked")
    BY <1>3 DEF HostAcks
  <2>5. host.phase = "asked" /\ host.waits = "" /\ toTerminal = <<>> /\ Stale /\ toHost = <<>>
    BY <2>4, Turns DEF Turn
  <2>6. ft.state # "FT_ABORT_SENT"
    BY <2>5 DEF IInv, Stops
  <2>7. Fits(Message(type, <<>>), "data")
    BY DEF Fits, Message
  <2> HIDE DEF new
  <2>8. CASE cut
    BY <2>2, <2>3, <2>5, <2>6, <2>7, <2>8, SendKeeps
  <2>9. CASE ~cut
    BY <2>2, <2>3, <2>5, <2>6, <2>7, <2>9, SendKeeps
  <2> QED BY <2>8, <2>9
<1>4. CASE HostRefuses
  <2>1. Turn("asked")
    BY <1>4 DEF HostRefuses
  <2>2. host.phase = "asked" /\ host.waits = "" /\ toTerminal = <<>> /\ toHost = <<>>
    BY <2>1, Turns DEF Turn
  <2>3. /\ DOMAIN host' = HostFields /\ host'.phase = "idle" /\ host'.waits = ""
        /\ ft' = ft /\ toTerminal' = <<>> /\ toHost' = <<>>
    BY <1>1, <1>4, <2>2 DEF HostRefuses, HostFields
  <2> QED BY <1>1, <2>3
          DEF IInv, Records, Lockstep, Stale, Protocol, Stops, Reading
<1>5. CASE HostCutData \/ HostCutEof \/ HostCutRequest \/ HostGarbles
  <2>1. Turn("data") /\ host.cut
    BY <1>5 DEF HostCutData, HostCutEof, HostCutRequest, HostGarbles
  <2>2. /\ host.phase = "data" /\ host.waits = "" /\ toTerminal = <<>> /\ Stale /\ toHost = <<>>
        /\ ft.state # "FT_ABORT_SENT"
    BY <2>1, Turns DEF Turn
  <2>3. ASSUME NEW type \in {"data", "request", "bad"}, NEW data, NEW new, HostSends(type, data, "enter", new),
               DOMAIN new = HostFields, new.cut = host.cut,
               \/ new.phase = "data"
               \/ new.phase = "complete" /\ type = "data" /\ data = EofData
        PROVE  IInv' /\ ft' = ft
    <3>1. AnswerTo(type) = "enter"
      BY DEF AnswerTo
    <3>2. Fits(Message(type, data), new.phase)
      BY <2>3 DEF Fits, Message
    <3> QED BY <2>1, <2>2, <2>3, <3>1, <3>2, SendKeeps
  <2>4. CASE HostCutData
    <3>1. PICK data, q, rest :
            HostSends("data", data, "enter", [host EXCEPT !.quadrant = q, !.data = rest])
      BY <2>4 DEF HostCutData
    <3> DEFINE new == [host EXCEPT !.quadrant = q, !.data = rest]
    <3>2. DOMAIN new = HostFields /\ new.cut = host.cut /\ new.phase = "data"
      BY <1>1, <2>2 DEF HostFields
    <3> HIDE DEF new
    <3> QED BY <2>3, <3>1, <3>2 DEF new
  <2>5. CASE HostCutEof
    <3> DEFINE new == [host EXCEPT !.phase = "complete"]
    <3>1. DOMAIN new = HostFields /\ new.cut = host.cut /\ new.phase = "complete"
      BY <1>1 DEF HostFields
    <3>2. HostSends("data", EofData, "enter", new)
      BY <2>5 DEF HostCutEof
    <3> HIDE DEF new
    <3> QED BY <2>3, <3>1, <3>2
  <2>6. CASE HostCutRequest \/ HostGarbles
    BY <1>1, <2>2, <2>3, <2>6 DEF HostCutRequest, HostGarbles
  <2> QED BY <1>5, <2>4, <2>5, <2>6
<1>6. CASE HostDftInsert \/ HostDftGet
  <2>1. Turn("data") /\ ~host.cut
    BY <1>6 DEF HostDftInsert, HostDftGet
  <2>2. /\ host.phase = "data" /\ host.waits = "" /\ toTerminal = <<>> /\ Stale /\ toHost = <<>>
        /\ ft.state # "FT_ABORT_SENT"
    BY <2>1, Turns DEF Turn
  <2>3. ASSUME NEW type \in {"insert", "get"}, NEW data, NEW new,
               HostSends(type, data, AnswerTo(type), new),
               DOMAIN new = HostFields, new.cut = host.cut, new.phase = "data"
        PROVE  IInv' /\ ft' = ft
    <3>1. Fits(Message(type, data), new.phase)
      BY <2>3 DEF Fits, Message
    <3> QED BY <1>2, <2>1, <2>2, <2>3, <3>1, SendKeeps
  <2>4. AnswerTo("insert") = "dataAck" /\ AnswerTo("get") = "getReply"
    BY DEF AnswerTo
  <2>5. CASE HostDftInsert
    <3>1. PICK data, rest : HostSends("insert", data, "dataAck", [host EXCEPT !.data = rest])
      BY <2>5 DEF HostDftInsert
    <3> DEFINE new == [host EXCEPT !.data = rest]
    <3>2. DOMAIN new = HostFields /\ new.cut = host.cut /\ new.phase = "data"
      BY <1>1, <2>2 DEF HostFields
    <3> HIDE DEF new
    <3> QED BY <2>3, <2>4, <3>1, <3>2 DEF new
  <2>6. CASE HostDftGet
    BY <1>1, <2>2, <2>3, <2>4, <2>6 DEF HostDftGet
  <2> QED BY <1>6, <2>5, <2>6
<1>7. ASSUME NEW type, NEW data, NEW new, HostSends(type, data, AnswerTo(type), new),
             DOMAIN new = HostFields, new.cut = host.cut,
             \/ type = "abort" /\ new.phase = "end" /\ Turn("data") /\ host.cut
             \/ type = "close" /\ new.phase = "openMsg" /\ Turn("data") /\ ~host.cut
             \/ type = "complete" /\ new.phase = "end" /\ Turn("complete")
             \/ type = "abort" /\ new.phase = "end" /\ Turn("abort")
             \/ type = "close" /\ new.phase = "openMsg" /\ Turn("close")
             \/ type = "openMsg" /\ new.phase = "message" /\ Turn("openMsg")
             \/ type = "insert" /\ new.phase = "end" /\ Turn("message")
      PROVE  IInv' /\ ft' = ft
  <2>1. host.waits = "" /\ toTerminal = <<>> /\ Stale
    BY <1>7, Turns DEF Turn
  <2>2. toHost # <<>> => type = "close"
    BY <1>7, <2>1, Turns DEF Turn
  <2>3. Fits(Message(type, data), new.phase)
    BY <1>7 DEF Fits, Message
  <2>4. host.phase \in {"complete", "abort"} => host.cut
    BY DEF IInv, Protocol
  <2>5. host.phase \in {"close", "openMsg", "message"} => ~host.cut
    BY DEF IInv, Protocol
  <2>6. host.phase = "message" => ft.message \/ ft.state = "FT_NONE"
    BY <2>1, <2>5 DEF IInv, Reading
  <2>7. CASE host.cut
    BY <1>7, <2>1, <2>2, <2>3, <2>5, <2>7, SendKeeps DEF Turn
  <2>8. CASE ~host.cut
    BY <1>7, <2>1, <2>2, <2>3, <2>4, <2>6, <2>8, SendKeeps DEF Turn
  <2> QED BY <2>7, <2>8
<1>8. CASE HostStops
  <2>1. CASE host.cut
    <3> DEFINE new == [host EXCEPT !.phase = "end", !.ok = FALSE]
    <3>1. HostSends("abort", <<>>, AnswerTo("abort"), new) /\ Turn("data")
      BY <1>8, <2>1 DEF HostStops, AnswerTo
    <3>2. DOMAIN new = HostFields /\ new.cut = host.cut /\ new.phase = "end"
      BY <1>1 DEF HostFields
    <3> HIDE DEF new
    <3> QED BY <1>7, <2>1, <3>1, <3>2
  <2>2. CASE ~host.cut
    <3> DEFINE new == [host EXCEPT !.phase = "openMsg", !.ok = ft.receive /\ host.data = <<>>]
    <3>1. HostSends("close", <<>>, AnswerTo("close"), new) /\ Turn("data")
      BY <1>8, <2>2 DEF HostStops, AnswerTo
    <3>2. DOMAIN new = HostFields /\ new.cut = host.cut /\ new.phase = "openMsg"
      BY <1>1 DEF HostFields
    <3> HIDE DEF new
    <3> QED BY <1>7, <2>2, <3>1, <3>2
  <2> QED BY <2>1, <2>2
<1>9. CASE HostEnds
  <2>1. PICK type, data, phase :
          /\ HostSends(type, data, AnswerTo(type), [host EXCEPT !.phase = phase])
          /\ \/ type = "complete" /\ phase = "end" /\ Turn("complete")
             \/ type = "abort" /\ phase = "end" /\ Turn("abort")
             \/ type = "close" /\ phase = "openMsg" /\ Turn("close")
             \/ type = "openMsg" /\ phase = "message" /\ Turn("openMsg")
             \/ type = "insert" /\ phase = "end" /\ Turn("message")
    <3> HIDE DEF HostSends
    <3> QED BY <1>9 DEF HostEnds, AnswerTo
  <2> DEFINE new == [host EXCEPT !.phase = phase]
  <2>2. DOMAIN new = HostFields /\ new.cut = host.cut /\ new.phase = phase
    BY <1>1 DEF HostFields
  <2> HIDE DEF new
  <2> QED BY <1>7, <2>1, <2>2 DEF new
<1>10. CASE HostGivesUp
  <2>1. /\ DOMAIN host' = HostFields /\ host'.phase = "idle" /\ host'.waits = ""
        /\ ft' = ft /\ toTerminal' = <<>> /\ toHost' = <<>>
    BY <1>1, <1>10 DEF HostGivesUp, HostFields
  <2> QED BY <1>1, <2>1
          DEF IInv, Records, Lockstep, Stale, Protocol, Stops, Reading
<1>11. CASE HostTakes
  <2>1. toHost # <<>> /\ toHost' = Tail(toHost) /\ ft' = ft /\ toTerminal' = toTerminal
    BY <1>11 DEF HostTakes
  <2>2. CASE Stale
    <3>1. PICK b : toHost = <<b>> /\ b.type = "dataAck"
      BY <2>1, <2>2 DEF Stale
    <3>2. host.waits \in {"", "closeAck"} /\ host.phase \in {"close", "openMsg"}
      BY <2>1, <2>2 DEF Stale
    <3>3. ~Expected(b)
      BY <3>1, <3>2 DEF Expected
    <3>4. host' = host /\ toHost' = <<>>
      BY <1>11, <2>1, <3>1, <3>3, Queues DEF HostTakes
    <3>5. ~Answered
      <4>1. \A x, y : <<b>> # <<x, y>> /\ (<<b>> = <<x>> => b = x)
        OBVIOUS
      <4> QED BY <3>1, <3>3, <4>1 DEF Answered
    <3>6. Lockstep'
      BY <2>1, <2>2, <3>4, <3>5 DEF IInv, Lockstep, Stale
    <3> QED BY <1>1, <2>1, <3>2, <3>4, <3>6
            DEF IInv, Records, Protocol, Stops, Reading, Arrived
  <2>3. CASE ~Stale
    <3>1. /\ toTerminal = <<>> /\ Answered /\ host.phase \notin {"idle", "asked"}
          /\ host.waits \in {"enter", "openAck", "dataAck", "getReply", "closeAck"}
      BY <2>3 DEF IInv, Lockstep, Protocol
    (* What the answer makes of the host. *)
    <3>2. ASSUME NEW a, Expected(a)
          PROVE  LET new == Taken(a)
                 IN  /\ DOMAIN new = HostFields /\ new.waits = "" /\ new.cut = host.cut
                     /\ a.type \in {"pf2", "error"} =>
                            new.phase = IF host.cut THEN "abort" ELSE "close"
                     /\ a.type \notin {"pf2", "error"} =>
                            \/ new.phase = host.phase
                            \/ new.phase = "idle" /\ host.phase = "end"
                            \/ new.phase = "complete" /\ host.cut /\ host.phase = "data"
                            \/ new.phase = "close" /\ ~host.cut /\ host.waits = "getReply"
      <4>1. a.type = "enter" => host.cut
        BY <3>1, <3>2 DEF Expected, IInv, Protocol
      <4>2. a.type = "eof" => ~host.cut /\ host.waits = "getReply"
        BY <3>1, <3>2 DEF Expected, IInv, Protocol
      <4> QED BY <1>1, <4>1, <4>2 DEF Taken, HostFields
    <3>3. ASSUME NEW a, toHost = <<a>>, Expected(a)
          PROVE  IInv'
      <4>1. host' = Taken(a) /\ toHost' = <<>>
        BY <1>11, <2>1, <3>1, <3>3, Queues DEF HostTakes
      <4> DEFINE new == Taken(a)
      <4>2. /\ DOMAIN new = HostFields /\ new.waits = "" /\ new.cut = host.cut
            /\ a.type \in {"pf2", "error"} =>
                   new.phase = IF host.cut THEN "abort" ELSE "close"
            /\ a.type \notin {"pf2", "error"} =>
                   \/ new.phase = host.phase
                   \/ new.phase = "idle" /\ host.phase = "end"
                   \/ new.phase = "complete" /\ host.cut /\ host.phase = "data"
                   \/ new.phase = "close" /\ ~host.cut /\ host.waits = "getReply"
        BY <3>2, <3>3
      <4> HIDE DEF new
      <4>3. host' = new
        BY <4>1 DEF new
      <4>4. Records' /\ Lockstep'
        BY <1>1, <2>1, <3>1, <4>1, <4>2, <4>3 DEF Records, Lockstep, Stale
      <4>5. Protocol'
        BY <3>1, <4>2, <4>3 DEF IInv, Protocol
      <4>6. Stops'
        BY <2>1, <3>1, <3>3, <4>2, <4>3, Queues DEF IInv, Stops
      <4>7. Reading'
        BY <2>1, <3>1, <4>2, <4>3 DEF IInv, Reading, Arrived
      <4> QED BY <4>4, <4>5, <4>6, <4>7 DEF IInv
    <3>4. ASSUME NEW a, NEW b, toHost = <<b, a>>, b.type = "dataAck", Expected(a),
                 Late, host.waits = "closeAck"
          PROVE  IInv'
      <4>1. host' = host /\ toHost' = <<a>>
        BY <1>11, <2>1, <3>4, Queues DEF HostTakes, Expected
      <4>2. Expected(a)'
        BY <3>4, <4>1 DEF Expected
      <4>3. Lockstep'
        BY <2>1, <3>1, <4>1, <4>2 DEF Lockstep, Answered
      <4> QED BY <1>1, <2>1, <3>1, <3>4, <4>1, <4>3, Queues
              DEF IInv, Records, Protocol, Stops, Reading, Arrived
    <3>5. ASSUME NEW a, NEW b, toHost = <<a, b>>, a.type = "error", b.type = "dataAck",
                 Late, host.waits = "dataAck"
          PROVE  IInv'
      <4>1. Expected(a)
        BY <3>5 DEF Expected
      <4>2. host' = Taken(a) /\ toHost' = <<b>>
        BY <1>11, <2>1, <3>1, <3>5, <4>1, Queues DEF HostTakes
      <4>3. /\ DOMAIN host' = HostFields /\ host'.waits = "" /\ ~host'.cut
            /\ host'.phase = "close"
        BY <3>2, <3>5, <4>1, <4>2 DEF Late
      <4>4. Late'
        BY <2>1, <3>5, <4>3 DEF Late
      <4>5. Records' /\ Lockstep'
        BY <1>1, <2>1, <3>1, <3>5, <4>2, <4>3, <4>4 DEF Records, Lockstep, Stale
      <4>6. Protocol'
        BY <4>3 DEF Protocol
      <4>7. Stops' /\ Reading'
        BY <2>1, <4>3 DEF IInv, Stops, Reading
      <4> QED BY <4>5, <4>6, <4>7 DEF IInv
    <3> QED BY <2>1, <3>1, <3>3, <3>4, <3>5 DEF Answered
  <2> QED BY <2>2, <2>3
<1> QED BY <1>3, <1>4, <1>5, <1>6, <1>8, <1>9, <1>10, <1>11 DEF Host

(* So do the user's calls, a frame that is ignored and a disconnection.       *)
LEMMA OtherStep ==
    ASSUME IInv, User \/ Ignore \/ Disconnect \/ UNCHANGED vars
    PROVE  IInv' /\ (ft.state \in {"FT_ABORT_WAIT", "FT_ABORT_SENT"} => ft'.file = ft.file)
<1>1. DOMAIN host = HostFields /\ DOMAIN ft = FtFields /\ ft.state \in FtState
  BY DEF IInv, Records, Stops
<1>2. ASSUME NEW receive, NEW crlf, NEW content, BeginFileTransfer(receive, crlf, content)
      PROVE  IInv' /\ ft.state = "FT_NONE"
  <2>1. /\ DOMAIN ft' = FtFields /\ ft'.state = "FT_AWAIT_ACK"
        /\ DOMAIN host' = HostFields /\ host'.phase = "asked" /\ host'.waits = ""
        /\ toTerminal' = <<>> /\ toHost' = <<>> /\ ft.state = "FT_NONE"
    BY <1>1, <1>2 DEF BeginFileTransfer, FtFields, HostFields
  <2> QED BY <2>1 DEF IInv, Records, Lockstep, Stale, Protocol, Stops, Reading, FtState
<1>3. ASSUME NEW force, CancelFileTransfer(force)
      PROVE  IInv' /\ ft'.file = ft.file
  <2>1. /\ DOMAIN ft' = FtFields /\ ft'.file = ft.file /\ ft'.error = ft.error
        /\ \/ ft'.state = "FT_NONE"
           \/ ft'.state = "FT_ABORT_WAIT" /\ ft.state = "FT_RUNNING" /\ ft'.message = ft.message
        /\ host' = host /\ toTerminal' = toTerminal /\ toHost' = toHost
    BY <1>1, <1>3 DEF CancelFileTransfer, Complete, FtFields
  <2>2. Stale => Stale'
    BY <2>1 DEF Stale, Late
  <2>3. Answered => Answered'
    BY <2>1 DEF Answered, Late, Expected
  <2>4. Lockstep'
    BY <2>1, <2>2, <2>3 DEF IInv, Lockstep
  <2>5. Records' /\ Protocol' /\ Stops'
    BY <2>1 DEF IInv, Records, Protocol, Stops, FtState
  <2>6. Reading'
    BY <2>1 DEF IInv, Reading, Arrived
  <2> QED BY <2>1, <2>4, <2>5, <2>6 DEF IInv
<1>4. CASE Ignore
  <2>1. PICK m : /\ toTerminal = <<m>> /\ Stale /\ Fits(m, host.phase)
                 /\ host.waits = AnswerTo(m.type)
    BY <1>4, Arriving DEF Ignore
  <2>2. host.waits \in {"enter", "openAck", "dataAck", "getReply", "closeAck"}
    BY <2>1 DEF Fits, AnswerTo
  <2>3. toHost = <<>> \/ \E b : toHost = <<b>>
    BY <2>1 DEF Stale
  <2>4. toHost \o <<>> = toHost
    <3>1. \A b : <<b>> \in Seq({b})
      OBVIOUS
    <3> QED BY <2>3, <3>1, ConcatEmptySeq, EmptySeq
  <2>5. /\ ft' = ft /\ ft.state = "FT_NONE" /\ host' = host /\ toTerminal' = <<>>
        /\ toHost' = toHost
    BY <1>4, <2>4 DEF Ignore, Handle, InTransfer
  <2>6. Lockstep'
    BY <2>1, <2>2, <2>5 DEF Lockstep, Stale, Late
  <2> QED BY <2>5, <2>6 DEF IInv, Records, Protocol, Stops, Reading, FtState
<1>5. CASE Disconnect
  <2>1. /\ DOMAIN ft' = FtFields /\ ft'.state = "FT_NONE" /\ ft'.file = ft.file
        /\ DOMAIN host' = HostFields /\ host'.phase = "idle" /\ host'.waits = ""
        /\ toTerminal' = <<>> /\ toHost' = <<>>
    BY <1>1, <1>5 DEF Disconnect, Complete, FtFields, HostFields
  <2> QED BY <2>1 DEF IInv, Records, Lockstep, Stale, Protocol, Stops, Reading, FtState
<1>6. CASE UNCHANGED vars
  <2>1. ft' = ft /\ host' = host /\ toTerminal' = toTerminal /\ toHost' = toHost
    BY <1>6 DEF vars
  <2>2. Stale <=> Stale'
    BY <2>1 DEF Stale, Late
  <2>3. Answered <=> Answered'
    BY <2>1 DEF Answered, Late, Expected
  <2>4. Lockstep'
    BY <2>1, <2>2, <2>3 DEF IInv, Lockstep
  <2>5. Records' /\ Protocol' /\ Stops' /\ Reading'
    BY <2>1 DEF IInv, Records, Protocol, Stops, Reading, Arrived
  <2> QED BY <2>1, <2>4, <2>5 DEF IInv
<1> QED BY <1>2, <1>3, <1>4, <1>5, <1>6 DEF User

(* No transfer at the start.                                                  *)
LEMMA Starts == Init => IInv
<1> SUFFICES ASSUME Init PROVE IInv
  OBVIOUS
<1>1. DOMAIN ft = FtFields /\ ft.state = "FT_NONE"
  BY DEF Init, FtFields
<1>2. /\ DOMAIN host = HostFields /\ host.phase = "idle" /\ host.waits = ""
      /\ toTerminal = <<>> /\ toHost = <<>>
  BY DEF Init, HostFields
<1> QED BY <1>1, <1>2 DEF IInv, Records, Lockstep, Stale, Protocol, Stops, Reading, FtState

(* The invariant is inductive, and no step changes an aborted file.           *)
LEMMA Steps ==
    ASSUME IInv, [Next]_vars
    PROVE  IInv' /\ (ft.state \in {"FT_ABORT_WAIT", "FT_ABORT_SENT"} => ft'.file = ft.file)
BY CutStep, DftStep, HostStep, OtherStep DEF Next, Terminal

(* Once a transfer is being aborted, by the user's cancellation or by an      *)
(* error, no handler of either protocol reads or writes the file any more,    *)
(* whatever was on its way then (CancelFileTransfer, ft_aborting).            *)
THEOREM AbortIsFinal == Spec => AbortStopsData
<1>1. ASSUME IInv, [Next]_vars
      PROVE  (ft.state \in {"FT_ABORT_WAIT", "FT_ABORT_SENT"}) => ft'.file = ft.file
  BY <1>1, Steps
<1> QED BY Starts, Steps, <1>1, PTL DEF Spec, AbortStopsData

(* No frame and no request is answered twice, but the DFT write that fails,   *)
(* in any order of errors, cancellations, garbled frames and disconnections   *)
(* (cut_data, dft_data_insert).                                               *)
THEOREM EachAnsweredOnce == Spec => []OneAnswer
<1>1. IInv => OneAnswer
  <2> SUFFICES ASSUME IInv PROVE OneAnswer
    OBVIOUS
  <2>1. Stale => OneAnswer
    <3>1. Len(<<>>) = 0
      OBVIOUS
    <3>2. Stale => Len(toHost) = 0 \/ Len(toHost) = 1
      BY <3>1, Queues DEF Stale
    <3>3. 0 <= 1 /\ 1 <= 1
      OBVIOUS
    <3>4. Len(toHost) = 0 \/ Len(toHost) = 1 => Len(toHost) <= 1
      BY <3>3, Zenon
    <3> QED BY <3>2, <3>4, Zenon DEF OneAnswer
  <2>2. Answered => OneAnswer
    BY Queues DEF Answered, Late, OneAnswer
  <2> QED BY <2>1, <2>2 DEF IInv, Lockstep
<1> QED BY Starts, Steps, <1>1, PTL DEF Spec
=============================================================================
