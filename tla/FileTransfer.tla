----------------------------- MODULE FileTransfer -----------------------------
(***************************************************************************)
(* IND$FILE transfers (src/src/lib/ft.c) in both of their protocols: CUT,  *)
(* frames written to the screen and answered with Enter or PF2             *)
(* (ft_cut.c), and DFT, structured fields and their replies (ft_dft.c).    *)
(*                                                                         *)
(* The terminal keeps one transfer, "ft", and leads it by what the host    *)
(* sends next.  The host is external: it keeps the protocol, asks for one  *)
(* thing at a time, encodes its data in any way the tables allow, may give *)
(* up or garble a frame, and drops an answer it does not expect.           *)
(*                                                                         *)
(* A file is a sequence of bytes.  Codes and bytes have their values in    *)
(* the source; the tables are those of conv, restricted to the codes of    *)
(* the instance.  The remapping of characters, the records' numbers and    *)
(* lengths, statistics and messages are left out.                          *)
(***************************************************************************)
EXTENDS Integers, Sequences, SequencesExt, FiniteSets

CONSTANTS
    Selector,       \* the code that selects each quadrant
    Conv,           \* for each quadrant, the byte that a code stands for
    Contents,       \* the files
    UpMax,          \* O_UP_MAX, codes in a frame
    DftMax,         \* bytes in a DFT buffer
    MaxTransfers    \* bound of the model

NQ       == Len(Conv)
Quadrant == 1 .. NQ
Unset    == 0
OTHER_2  == 3
XLATE_NULL == 193
EofData  == <<92, 169>>     \* EOF_DATA1, EOF_DATA2
CR  == 13
LF  == 10
SUB == 26

Code == UNION {DOMAIN Conv[q] : q \in Quadrant}

ASSUME FileTransferAssumption ==
    /\ NQ >= OTHER_2 /\ Selector \in [Quadrant -> Nat \ Code]
    /\ XLATE_NULL \in Code /\ Conv[OTHER_2][XLATE_NULL] = 0
    /\ UpMax >= 2 /\ DftMax >= 2 /\ MaxTransfers \in Nat

VARIABLES
    ft,             \* the terminal's transfer
    source,         \* the content to be copied
    host,
    toTerminal,     \* what the host has sent
    toHost,         \* what the terminal has answered
    begun           \* transfers begun, up to MaxTransfers

vars == <<ft, source, host, toTerminal, toHost, begun>>

-----------------------------------------------------------------------------
(* Conversion. *)

(* A zero means, but for NUL itself, that the quadrant does not map the code. *)
Mapped(q, code) ==
    /\ q \in Quadrant /\ code \in DOMAIN Conv[q]
    /\ q = OTHER_2 \/ code = XLATE_NULL \/ Conv[q][code] # 0

(* The bytes that codes stand for, and the quadrant they leave selected: NQ   *)
(* and one when a code is none.                                               *)
Decode(quadrant, codes) ==
    FoldLeft(LAMBDA s, code :
                 CASE s.quadrant > NQ -> s
                   [] Mapped(s.quadrant, code) ->
                        [s EXCEPT !.bytes = Append(@, Conv[s.quadrant][code])]
                   [] \E q \in Quadrant : Selector[q] = code ->
                        [s EXCEPT !.quadrant = CHOOSE q \in Quadrant : Selector[q] = code]
                   [] OTHER -> [s EXCEPT !.quadrant = NQ + 1],
             [quadrant |-> quadrant, bytes |-> <<>>], codes)

Strip(bytes, crlf) == IF crlf THEN SelectSeq(bytes, LAMBDA b : b \notin {CR, SUB}) ELSE bytes

UploadConvert(f, codes) ==
    LET d == Decode(f.quadrant, codes)
    IN  [quadrant |-> d.quadrant, bytes |-> Strip(d.bytes, f.crlf)]

CodesOf(q, byte) == {code \in DOMAIN Conv[q] : Conv[q][code] = byte}

(* The codes for a byte: in the quadrant selected if that has it, or with the *)
(* selector of the first that has.                                            *)
DownloadConvert(quadrant, byte) ==
    LET here == IF quadrant = Unset THEN {} ELSE CodesOf(quadrant, byte)
        q    == IF byte = 0 THEN OTHER_2
                ELSE CHOOSE n \in Quadrant : /\ CodesOf(n, byte) # {}
                                             /\ \A m \in 1 .. n - 1 : CodesOf(m, byte) = {}
        code == IF byte = 0 THEN XLATE_NULL ELSE CHOOSE c \in CodesOf(q, byte) : TRUE
    IN  IF byte # 0 /\ here # {}
        THEN [quadrant |-> quadrant, codes |-> <<CHOOSE c \in here : TRUE>>]
        ELSE IF q = quadrant THEN [quadrant |-> q, codes |-> <<code>>]
        ELSE [quadrant |-> q, codes |-> <<Selector[q], code>>]

(* xlate_getc appends one code to a frame, if the file is not at its end, and *)
(* keeps what is left of the byte it has read.                                *)
XlateGetc(f, frame) ==
    LET c  == Head(f.file)
        cr == f.crlf /\ ~f.lastCr /\ c = LF
        before == IF cr THEN DownloadConvert(f.quadrant, CR)
                        ELSE [quadrant |-> f.quadrant, codes |-> <<>>]
        after  == DownloadConvert(before.quadrant, c)
        codes  == before.codes \o after.codes
    IN  IF f.buffered # <<>>
        THEN [ft |-> [f EXCEPT !.buffered = Tail(@)], frame |-> Append(frame, Head(f.buffered))]
        ELSE IF f.file = <<>> THEN [ft |-> f, frame |-> frame]
        ELSE [ft    |-> [f EXCEPT !.file = Tail(@), !.quadrant = after.quadrant,
                                  !.lastCr = IF cr THEN @ ELSE c = CR,
                                  !.buffered = Tail(codes)],
              frame |-> Append(frame, Head(codes))]

Repeat(n) == [i \in 1 .. n |-> i]

(* Mutant: one code too many. *)
UpFrameLonger ==
    FoldLeft(LAMBDA s, i : CHOOSE r \in {XlateGetc(t.ft, t.frame) : t \in {s}} : TRUE,
             [ft |-> ft, frame |-> <<>>], Repeat(UpMax + 1))

(* The set of one element has TLC evaluate a turn once.                       *)
UpFrame ==
    FoldLeft(LAMBDA s, i : CHOOSE r \in {XlateGetc(t.ft, t.frame) : t \in {s}} : TRUE,
             [ft |-> ft, frame |-> <<>>], Repeat(UpMax))

(* One turn of the loop of dft_get_request; a line end that has no room for   *)
(* its CR is put back.                                                        *)
DftGetc(s) ==
    LET f  == s.ft
        c  == Head(f.file)
        cr == f.crlf /\ ~f.lastCr /\ c = LF
        bytes == IF cr THEN <<CR, LF>> ELSE <<c>>
    IN  IF s.stop \/ f.eof \/ Len(s.data) = DftMax THEN s
        ELSE IF f.file = <<>> THEN [s EXCEPT !.ft.eof = TRUE, !.stop = TRUE]
        ELSE IF Len(s.data) + Len(bytes) > DftMax THEN [s EXCEPT !.stop = TRUE]
        ELSE [s EXCEPT !.ft.file = Tail(@), !.ft.lastCr = c = CR, !.data = @ \o bytes]

DftBuffer ==
    FoldLeft(LAMBDA s, i : CHOOSE r \in {DftGetc(t) : t \in {s}} : TRUE,
             [ft |-> ft, data |-> <<>>, stop |-> FALSE], Repeat(DftMax))

-----------------------------------------------------------------------------
FtState == {"FT_NONE", "FT_AWAIT_ACK", "FT_RUNNING", "FT_ABORT_WAIT", "FT_ABORT_SENT"}

(* "file" is what is still to be read of the local file, or what was written  *)
(* to it; "report" what the complete callback was called with.                *)
Init ==
    /\ ft = [state |-> "FT_NONE", receive |-> FALSE, crlf |-> FALSE, file |-> <<>>,
             lastCr |-> FALSE, quadrant |-> Unset, buffered |-> <<>>, eof |-> FALSE,
             message |-> FALSE, error |-> FALSE, report |-> "none"]
    /\ source = <<>>
    /\ host = [phase |-> "idle", cut |-> FALSE, data |-> <<>>, quadrant |-> Unset,
               waits |-> "", ok |-> FALSE]
    /\ toTerminal = <<>> /\ toHost = <<>>
    /\ begun = 0

Message(type, data) == [type |-> type, data |-> data]
Enter(frame) == Message("enter", frame)
PF2(reason)  == Message("pf2", <<reason>>)
Answer(type) == Message(type, <<>>)

SC_ABORT_FILE == 33172      \* "abort, file error"
SC_ABORT_XMIT == 33176      \* "abort, transmission error"

EndTransfer == <<300>>      \* END_TRANSFER, the message of success
Failure     == <<400>>      \* any other

-----------------------------------------------------------------------------
(* ft.c *)

(* The command is typed at the host's prompt, so the host is not in another   *)
(* transfer (kybd_prime finds the keyboard unlocked).                         *)
BeginFileTransfer(receive, crlf, content) ==
    /\ ft.state = "FT_NONE"
    /\ begun < MaxTransfers
    /\ host.phase = "idle" /\ toTerminal = <<>> /\ toHost = <<>>
    /\ ft' = [ft EXCEPT !.state = "FT_AWAIT_ACK", !.receive = receive, !.crlf = crlf,
                        !.file = IF receive THEN <<>> ELSE content,
                        !.lastCr = FALSE, !.error = FALSE, !.report = "none"]
    /\ source' = content
    /\ host' = [host EXCEPT !.phase = "asked", !.data = IF receive THEN content ELSE <<>>,
                            !.quadrant = Unset, !.waits = "", !.ok = TRUE]
    /\ begun' = begun + 1
    /\ UNCHANGED <<toTerminal, toHost>>

Complete(f, report) == [f EXCEPT !.state = "FT_NONE", !.report = report]

Running(f) == [f EXCEPT !.state = IF @ = "FT_AWAIT_ACK" THEN "FT_RUNNING" ELSE @]

Aborting(f) ==
    [f EXCEPT !.state = IF @ \in {"FT_RUNNING", "FT_ABORT_WAIT"} THEN "FT_ABORT_SENT" ELSE @]

(* A transfer that runs is ended with the host; any other only if forced.     *)
CancelFileTransfer(force) ==
    /\ ft.state = "FT_RUNNING" \/ force
    /\ ft' = IF ft.state = "FT_RUNNING" THEN [ft EXCEPT !.state = "FT_ABORT_WAIT"]
             ELSE Complete(ft, "cancelled")
    /\ UNCHANGED <<source, host, toTerminal, toHost, begun>>

(* The connection ends, or leaves 3270 mode. *)
Disconnect ==
    /\ ft' = IF ft.state = "FT_NONE" THEN ft ELSE Complete(ft, "disconnected")
    /\ host' = [host EXCEPT !.phase = "idle", !.waits = ""]
    /\ toTerminal' = <<>> /\ toHost' = <<>>
    /\ UNCHANGED <<source, begun>>

-----------------------------------------------------------------------------
Arrived(type) == toTerminal # <<>> /\ Head(toTerminal).type = type
InTransfer == ft.state # "FT_NONE"
Cancelled  == ft.state = "FT_ABORT_WAIT"
Arg == Head(toTerminal).data

Handle(new, answers) ==
    /\ ft' = new
    /\ toTerminal' = <<>>
    /\ toHost' = toHost \o answers
    /\ UNCHANGED <<source, host, begun>>

(* Without a transfer nothing is looked at (ps_process, ft_dft_data). *)
Ignore == /\ toTerminal # <<>> /\ ~InTransfer
          /\ Handle(ft, <<>>)

(* ft_cut.c *)

(* What reading the file changes. *)
HaveRead(f) == [ft EXCEPT !.file = f.file, !.lastCr = f.lastCr, !.eof = f.eof,
                          !.quadrant = f.quadrant, !.buffered = f.buffered]

CutAbort(f, reason) == Handle(Aborting(f), <<PF2(reason)>>)

(* Mutant: what is left of an earlier transfer's byte is kept. *)
CutHostAckKeeps ==
    /\ Arrived("hostAck") /\ InTransfer
    /\ Handle(Running([ft EXCEPT !.quadrant = Unset]), <<Enter(<<>>)>>)

CutHostAck ==
    /\ Arrived("hostAck") /\ InTransfer
    /\ Handle(Running([ft EXCEPT !.quadrant = Unset, !.buffered = <<>>]), <<Enter(<<>>)>>)

CutXferComplete ==
    /\ Arrived("complete") /\ InTransfer
    /\ Handle(Complete(ft, "ok"), <<Enter(<<>>)>>)

CutHostAborts ==
    /\ Arrived("abort") /\ InTransfer
    /\ Handle(Complete(ft, "failed"), <<Enter(<<>>)>>)

(* The Enter fails and the connection with it; the transfer ends, and then    *)
(* the handler completes it a second time.                                    *)
CutEndUnsent ==
    /\ Arrived("complete") \/ Arrived("abort")
    /\ InTransfer
    /\ ft' = Complete(ft, IF Arrived("complete") THEN "ok" ELSE "failed")
    /\ host' = [host EXCEPT !.phase = "idle", !.waits = ""]
    /\ toTerminal' = <<>> /\ toHost' = <<>>
    /\ UNCHANGED <<source, begun>>

(* A frame of an unknown type or code, an illegal length, or RETRANSMIT. *)
CutBadFrame ==
    /\ Arrived("bad") /\ InTransfer
    /\ CutAbort(ft, SC_ABORT_XMIT)

CutDataRequest ==
    /\ Arrived("request") /\ InTransfer /\ ~Cancelled
    /\ \E up \in {UpFrame} :
          Handle(HaveRead(up.ft), <<Enter(IF up.frame = <<>> THEN EofData ELSE up.frame)>>)

(* A read fails; what was read is lost. *)
CutReadFails ==
    /\ Arrived("request") /\ InTransfer /\ ~Cancelled
    /\ CutAbort([HaveRead(UpFrame.ft) EXCEPT !.error = TRUE], SC_ABORT_FILE)

(* Mutant: data is still taken after the user has cancelled. *)
CutDataUnchecked ==
    /\ Arrived("data") /\ InTransfer
    /\ LET up == UploadConvert(ft, Arg)
           new == [ft EXCEPT !.quadrant = up.quadrant]
       IN  IF Arg = EofData THEN Handle(ft, <<Enter(<<>>)>>)
           ELSE IF up.quadrant > NQ THEN CutAbort(new, SC_ABORT_XMIT)
           ELSE IF up.bytes = <<>> THEN CutAbort(new, SC_ABORT_FILE)
           ELSE Handle([new EXCEPT !.file = @ \o up.bytes], <<Enter(<<>>)>>)

(* A frame that converts to nothing is taken for a failed write, as fwrite of *)
(* no bytes returns 0.                                                        *)
CutData ==
    /\ Arrived("data") /\ InTransfer /\ ~Cancelled
    /\ LET up == UploadConvert(ft, Arg)
           new == [ft EXCEPT !.quadrant = up.quadrant]
       IN  IF Arg = EofData THEN Handle(ft, <<Enter(<<>>)>>)
           ELSE IF up.quadrant > NQ THEN CutAbort(new, SC_ABORT_XMIT)
           ELSE IF up.bytes = <<>> THEN CutAbort(new, SC_ABORT_FILE)
           ELSE Handle([new EXCEPT !.file = @ \o up.bytes], <<Enter(<<>>)>>)

(* Mutant: the handler goes on to acknowledge the frame, as that of DFT does. *)
CutWriteFailsAcks ==
    /\ Arrived("data") /\ InTransfer /\ ~Cancelled /\ Arg # EofData
    /\ LET up == UploadConvert(ft, Arg)
       IN  /\ up.quadrant <= NQ
           /\ Handle(Aborting([ft EXCEPT !.quadrant = up.quadrant, !.error = TRUE]),
                     <<PF2(SC_ABORT_FILE), Enter(<<>>)>>)

CutWriteFails ==
    /\ Arrived("data") /\ InTransfer /\ ~Cancelled /\ Arg # EofData
    /\ LET up == UploadConvert(ft, Arg)
       IN  /\ up.quadrant <= NQ
           /\ CutAbort([ft EXCEPT !.quadrant = up.quadrant, !.error = TRUE], SC_ABORT_FILE)

CutCancelled ==
    /\ (Arrived("request") \/ Arrived("data")) /\ InTransfer /\ Cancelled
    /\ CutAbort(ft, SC_ABORT_FILE)

(* ft_dft.c *)

DftOpen ==
    /\ Arrived("open") /\ InTransfer
    /\ Handle(Running([ft EXCEPT !.message = FALSE, !.eof = FALSE]), <<Answer("openAck")>>)

DftOpenMsg ==
    /\ Arrived("openMsg") /\ InTransfer
    /\ Handle([ft EXCEPT !.message = TRUE, !.eof = FALSE], <<Answer("openAck")>>)

DftMessage ==
    /\ Arrived("insert") /\ InTransfer /\ ft.message
    /\ Handle(Complete(ft, IF Arg = EndTransfer THEN "ok" ELSE "failed"), <<Answer("dataAck")>>)

DftInsert ==
    /\ Arrived("insert") /\ InTransfer /\ ~ft.message /\ ~Cancelled
    /\ Handle([ft EXCEPT !.file = @ \o Strip(Arg, ft.crlf)], <<Answer("dataAck")>>)

(* A write fails after some part: the error is sent, and then the answer too. *)
DftWriteFails ==
    /\ Arrived("insert") /\ InTransfer /\ ~ft.message /\ ~Cancelled
    /\ Strip(Arg, ft.crlf) # <<>>
    /\ Handle(Aborting([ft EXCEPT !.error = TRUE]), <<Answer("error"), Answer("dataAck")>>)

(* Mutant: the end of the file is not remembered, and none is ever sent. *)
DftGetForgets ==
    /\ Arrived("get") /\ InTransfer /\ ~(~ft.message /\ Cancelled)
    /\ Handle(HaveRead(DftBuffer.ft), <<Message("getReply", DftBuffer.data)>>)

DftGet ==
    /\ Arrived("get") /\ InTransfer /\ ~(~ft.message /\ Cancelled)
    /\ \E b \in {DftBuffer} :
         IF b.data # <<>> THEN Handle(HaveRead(b.ft), <<Message("getReply", b.data)>>)
         ELSE Handle([HaveRead(b.ft) EXCEPT !.eof = TRUE], <<Answer("eof")>>)

DftReadFails ==
    /\ Arrived("get") /\ InTransfer /\ ~(~ft.message /\ Cancelled)
    /\ Handle(Aborting([HaveRead(DftBuffer.ft) EXCEPT !.error = TRUE]), <<Answer("error")>>)

DftCancelled ==
    /\ (Arrived("insert") \/ Arrived("get")) /\ InTransfer /\ ~ft.message /\ Cancelled
    /\ Handle(Aborting(ft), <<Answer("error")>>)

DftClose ==
    /\ Arrived("close") /\ InTransfer
    /\ Handle(ft, <<Answer("closeAck")>>)

-----------------------------------------------------------------------------
(* The host. *)

Turn(phase) == host.phase = phase /\ host.waits = "" /\ toTerminal = <<>>

HostSends(type, data, waits, new) ==
    /\ toTerminal' = <<Message(type, data)>>
    /\ host' = [new EXCEPT !.waits = waits]
    /\ UNCHANGED <<ft, source, toHost, begun>>

HostAcks ==
    /\ Turn("asked")
    /\ \E cut \in BOOLEAN :
         LET new == [host EXCEPT !.phase = "data", !.cut = cut]
         IN  IF cut THEN HostSends("hostAck", <<>>, "enter", new)
                    ELSE HostSends("open", <<>>, "openAck", new)

(* The command is refused, with a message on the screen. *)
HostRefuses ==
    /\ Turn("asked")
    /\ host' = [host EXCEPT !.phase = "idle", !.ok = FALSE]
    /\ UNCHANGED <<ft, source, toTerminal, toHost, begun>>

(* The frame that codes each byte in the quadrant chosen for it. *)
Encode(bytes, chosen) ==
    FoldLeft(LAMBDA frame, i :
                 LET before == IF i = 1 THEN host.quadrant ELSE chosen[i - 1]
                     code   == CHOOSE c \in CodesOf(chosen[i], bytes[i]) : Mapped(chosen[i], c)
                 IN  frame \o IF chosen[i] = before THEN <<code>>
                             ELSE <<Selector[chosen[i]], code>>,
             <<>>, Repeat(Len(bytes)))

(* A frame for any number of bytes, each in any quadrant that has it. *)
HostCutData ==
    /\ Turn("data") /\ host.cut /\ ft.receive
    /\ \E n \in 1 .. Len(host.data) :
         LET bytes == SubSeq(host.data, 1, n)
         IN  \E chosen \in [1 .. n -> Quadrant] :
               /\ \A i \in 1 .. n : \E c \in CodesOf(chosen[i], bytes[i]) : Mapped(chosen[i], c)
               /\ Len(Encode(bytes, chosen)) <= UpMax
               /\ HostSends("data", Encode(bytes, chosen), "enter",
                            [host EXCEPT !.quadrant = chosen[n],
                                !.data = SubSeq(@, n + 1, Len(@))])

HostCutEof ==
    /\ Turn("data") /\ host.cut /\ ft.receive /\ host.data = <<>>
    /\ HostSends("data", EofData, "enter", [host EXCEPT !.phase = "complete"])

HostCutRequest ==
    /\ Turn("data") /\ host.cut /\ ~ft.receive
    /\ HostSends("request", <<>>, "enter", host)

HostGarbles ==
    /\ Turn("data") /\ host.cut
    /\ HostSends("bad", <<>>, "enter", host)

HostDftInsert ==
    /\ Turn("data") /\ ~host.cut /\ ft.receive /\ host.data # <<>>
    /\ \E n \in 1 .. Len(host.data) :
         /\ n <= DftMax
         /\ HostSends("insert", SubSeq(host.data, 1, n), "dataAck",
                      [host EXCEPT !.data = SubSeq(@, n + 1, Len(@))])

HostDftGet ==
    /\ Turn("data") /\ ~host.cut /\ ~ft.receive
    /\ HostSends("get", <<>>, "getReply", host)

(* The host fails, or has sent all of the file by DFT. *)
HostStops ==
    /\ Turn("data")
    /\ \/ /\ host.cut
          /\ HostSends("abort", <<>>, "enter", [host EXCEPT !.phase = "end", !.ok = FALSE])
       \/ /\ ~host.cut
          /\ HostSends("close", <<>>, "closeAck",
                       [host EXCEPT !.phase = "openMsg", !.ok = ft.receive /\ host.data = <<>>])

HostEnds ==
    \/ /\ Turn("complete")
       /\ HostSends("complete", <<>>, "enter", [host EXCEPT !.phase = "end"])
    \/ /\ Turn("abort")
       /\ HostSends("abort", <<>>, "enter", [host EXCEPT !.phase = "end"])
    \/ /\ Turn("close")
       /\ HostSends("close", <<>>, "closeAck", [host EXCEPT !.phase = "openMsg"])
    \/ /\ Turn("openMsg")
       /\ HostSends("openMsg", <<>>, "openAck", [host EXCEPT !.phase = "message"])
    \/ /\ Turn("message")
       /\ HostSends("insert", IF host.ok THEN EndTransfer ELSE Failure, "dataAck",
                    [host EXCEPT !.phase = "end"])

(* An answer is taken, or dropped when another is waited for. *)
Taken(a) ==
    CASE a.type \in {"pf2", "error"} ->
           [host EXCEPT !.phase = IF host.cut THEN "abort" ELSE "close", !.ok = FALSE, !.waits = ""]
      [] a.type = "enter" /\ host.phase = "data" /\ ~ft.receive /\ a.data # <<>> ->
           IF a.data = EofData THEN [host EXCEPT !.phase = "complete", !.waits = ""]
           ELSE LET d == Decode(host.quadrant, a.data)
                IN  [host EXCEPT !.data = @ \o d.bytes, !.quadrant = d.quadrant, !.waits = ""]
      [] a.type = "getReply" -> [host EXCEPT !.data = @ \o a.data, !.waits = ""]
      [] a.type = "eof" -> [host EXCEPT !.phase = "close", !.waits = ""]
      [] OTHER -> [host EXCEPT !.phase = IF @ = "end" THEN "idle" ELSE @, !.waits = ""]

Expected(a) == \/ a.type \in {host.waits, "pf2", "error"}
               \/ a.type = "eof" /\ host.waits = "getReply"

HostTakes ==
    /\ toHost # <<>>
    /\ host' = IF host.phase # "idle" /\ Expected(Head(toHost)) THEN Taken(Head(toHost)) ELSE host
    /\ toHost' = Tail(toHost)
    /\ UNCHANGED <<ft, source, toTerminal, begun>>

(* The terminal is no longer in the transfer, and does not answer. *)
HostGivesUp ==
    /\ ft.state = "FT_NONE" /\ host.phase # "idle" /\ toTerminal = <<>> /\ toHost = <<>>
    /\ host' = [host EXCEPT !.phase = "idle", !.waits = ""]
    /\ UNCHANGED <<ft, source, toTerminal, toHost, begun>>

-----------------------------------------------------------------------------
User == \/ \E receive, crlf \in BOOLEAN, content \in Contents :
              BeginFileTransfer(receive, crlf, content)
        \/ \E force \in BOOLEAN : CancelFileTransfer(force)

Cut == \/ CutHostAck \/ CutXferComplete \/ CutHostAborts \/ CutEndUnsent \/ CutBadFrame
       \/ CutDataRequest \/ CutReadFails \/ CutData \/ CutWriteFails \/ CutCancelled

Dft == \/ DftOpen \/ DftOpenMsg \/ DftMessage \/ DftInsert \/ DftWriteFails
       \/ DftGet \/ DftReadFails \/ DftCancelled \/ DftClose

Terminal == Cut \/ Dft \/ Ignore

Host == \/ HostAcks \/ HostRefuses \/ HostCutData \/ HostCutEof \/ HostCutRequest
        \/ HostGarbles \/ HostDftInsert \/ HostDftGet \/ HostStops \/ HostEnds
        \/ HostTakes \/ HostGivesUp

Next == User \/ Terminal \/ Host \/ Disconnect

(* The terminal answers what it gets, and the host goes on. *)
Spec == Init /\ [][Next]_vars /\ WF_vars(Terminal) /\ WF_vars(Host)
-----------------------------------------------------------------------------
Bytes == UNION {{Conv[q][code] : code \in DOMAIN Conv[q]} : q \in Quadrant}

(* Types; a frame is within its area of the screen (O_UP_MAX), a DFT buffer   *)
(* within its size, and one byte's codes fit xlate_buf.                       *)
TypeOK ==
    /\ ft.state \in FtState
    /\ {ft.receive, ft.crlf, ft.lastCr, ft.eof, ft.message, ft.error} \subseteq BOOLEAN
    /\ ft.file \in Seq(Bytes) /\ source \in Seq(Bytes) /\ host.data \in Seq(Bytes)
    /\ ft.quadrant \in 0 .. NQ + 1
    /\ Len(ft.buffered) < 4
    /\ ft.report \in {"none", "ok", "failed", "cancelled", "disconnected"}
    /\ host.quadrant \in 0 .. NQ
    /\ \A i \in DOMAIN toHost :
         /\ toHost[i].type = "enter" => Len(toHost[i].data) <= UpMax
         /\ toHost[i].type = "getReply" => Len(toHost[i].data) <= DftMax
    /\ Len(toTerminal) <= 1
    /\ begun \in 0 .. MaxTransfers

(* What the host is to get of a text: each line end with one CR before it. *)
Expand(bytes, crlf) ==
    IF ~crlf THEN bytes
    ELSE FoldLeft(LAMBDA sofar, b :
                      sofar \o IF b = LF /\ (sofar = <<>> \/ Last(sofar) # CR)
                               THEN <<CR, LF>> ELSE <<b>>,
                  <<>>, bytes)

(* A transfer that is reported as complete has copied the file, whatever the  *)
(* other transfers before it, the frames' borders and the quadrants           *)
(* (upload_convert, xlate_getc, dft_get_request, dft_data_insert).            *)
FileCopied ==
    ft.report = "ok" /\ ft.state = "FT_NONE" =>
        IF ft.receive THEN ft.file = Strip(source, ft.crlf)
                      ELSE host.data = Expand(source, ft.crlf)

(* Each frame or request gets one answer; only a DFT write that fails gets    *)
(* the error and the acknowledgement both (cut_data, dft_data_insert).        *)
OneAnswer == Len(toHost) <= 1 \/ (~host.cut /\ ft.error)

(* Together, what a transfer is at any time. *)
TransferCorrect == TypeOK /\ FileCopied /\ OneAnswer

(* Once the user or an error has ended a transfer no more of the file is read *)
(* or written (CancelFileTransfer, ft_aborting).                              *)
AbortStopsData ==
    [][ft.state \in {"FT_ABORT_WAIT", "FT_ABORT_SENT"} => ft'.file = ft.file]_vars

(* A transfer the host has acknowledged comes to its end, complete or not, if *)
(* the host goes on (ft_complete).                                            *)
TransferEnds ==
    ft.state \in {"FT_RUNNING", "FT_ABORT_WAIT", "FT_ABORT_SENT"} ~> ft.state = "FT_NONE"
=============================================================================
