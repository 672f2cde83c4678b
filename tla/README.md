# pw3270 in TLA+

Specifications, model checking and machine-checked proofs for pw3270, a 3270
terminal emulator: a C library (`src/src/lib`, a descendant of x3270), a GTK
program on top of it (`src/src/gtk2`), plugins and language bindings.

Paths and line numbers are those of the repository; where a file is named
without its directory it is in `src/src/lib` or `src/src/gtk2`. `PROJECT.json`
maps each definition to the lines it stands for and lists components, runs,
mutants, findings, hazards and theorems.

## 1. The system

The library holds one session, the global `h3270`, and a good deal of state in
statics of its files. Everything happens in handlers that a main loop calls one
at a time: input on the socket (`net_input`), timers (`defer_unlock`,
`try_reconnect`), and calls of the user interface. Two things break the
simplicity. A handler calls into many files, and in the middle of it a write to
the socket may fail and disconnect the session, whose callbacks run at once,
inside the handler. And the GTK program replaces blocking calls by
`CallAndWait`: the call runs in a thread while the main loop runs *inside* the
handler, so other handlers are nested in it.

| Component | State it keeps | Operations | Talks to | Modules |
|---|---|---|---|---|
| Keyboard (`kybd.c`) | lock word `kybdlock`, time of deferral, unlock timer, type-ahead queue, `aid` | keys, `key_AID`, `do_reset`, `run_ta`, `defer_unlock`, callbacks on connect and mode change | buffer, net_output, file transfer, timers | `Keyboard` |
| Field editing (`kybd.c`) | cursor, toggles INSERT and BLANK_FILL | keys that type, erase and move | buffer | `Editing` |
| Connection (`host.c`, `xio.c`, ends of `telnet.c`) | `cstate`, `net_sock`, reconnect flag and host, watch ids, `ssl_con`, `secure_connection` | `lib3270_connect`, `lib3270_reconnect`, `host_disconnect`, `net_connect`, `net_disconnect`, `try_reconnect` | every component, by state-change callbacks | `Connection` |
| Host names and connection menus (`host.c`, `action_calls.c`, `commands.c`, `main.c`) | flags, names and ports of the session, the dialog, two groups of actions | `split_host`, `lib3270_connect`, the connect actions, the dialog | connection, printer | `HostName` |
| Telnet and TN3270E (`telnet.c`) | option tables, automaton state, LU list, negotiated functions, submode, sequence numbers, input and output records | `telnet_fsm`, `tn3270e_negotiate`, `process_eor`, `net_output`, `net_abort` | buffer, keyboard, connection | `Telnet`, `TelnetHost` |
| Line mode (`telnet.c`) | line buffer, quoting flag | `net_cookout` and the `cooked_*` / `do_*` editing functions | ANSI emulator | `LineMode` |
| Proxy (`proxy.c`), resolver | type, host and port of the proxy, current port; none | one negotiation; one lookup | connection | `ProxyNegotiation` |
| Printer session (`printer.c`) | process, two pipes, buffers, timeouts | start, stop, output, timeouts, the host's change of mode | connection, event loop | `PrinterSession` |
| Event loop of the library (`XtGlue.c`) | lists of timeouts and inputs, `inputs_changed`, nested calls | add, remove, `DefaultProcessEvents` | all | `EventLoop`, `Timers` |
| Screen buffer (`ctlr.c`) | two buffers of cells, cursor and buffer address, reply mode, wait-for-host timer | write, erase, read, SSCP-LU data, `ps_process`, scrolling | keyboard, structured fields, screen | `Screen`, `Controller` |
| Structured fields (`sf.c`, `rpq.c`) | reply mode and character set attributes, what the record came to | query, read partition, outbound 3270DS, file-transfer data | buffer, file transfer, telnet's response | `StructuredFields` |
| ANSI emulator (`ansi.c`) | parser state, margins, tab stops, saved cursor, modes | one automaton step per byte | buffer | `Ansi`, `AnsiHost` |
| File transfer (`ft.c`, `ft_cut.c`, `ft_dft.c`) | `ft_state`, open file, CUT quadrants, DFT record and saved answer | begin, frames of the two protocols, abort, end | keyboard, structured fields | `FileTransfer` |
| Paste and clipboard (`paste.c`, `clipboard.c`) | the text still to be pasted | `lib3270_set_string`, paste next, copy, append | field editing | `Paste` |
| Terminal window (`screen.c` of both, `draw.c`, `terminal.c`, `cursor.c`) | copy of the buffer, changed marks, pixmap, view, cursor | `screen_disp`, `addch`, set model, suspend, resize, expose | buffer, GTK | `Window` |
| Selection (`mouse.c`) | mode, two corners, marks and borders of cells | presses, motions, keys and menus that select | window, clipboard | `Selection` |
| Information area (`oia.c`) | what was painted of each element; clocks, spinners, the LU's program | the library's callbacks; expose | keyboard, connection | `Oia` |
| Menus, bars, keypads (`uiparser1.c`, `actions1.c`) | tables of elements, actions, keypads, scripts | read a file; build the window | toggles | `UiParser` |
| Toggles, settings, tracing (`toggles.c`, `actions1.c`, `config.c`, `trace_ds.c`, `tracewindow.c`) | toggles, actions that show them, settings and their file, trace file and its window | set, toggle, save, start, end | all | `Toggles` |
| Tables, code pages, `print.c`, resources, plugins, bindings | little or constant | | | none: section 11 |

What is hard in this code, and what each part owes:

* **Keyboard.** Six handlers of the host and four of the user set and clear bits
  of one word; a timer of 350 ms may be armed, re-armed and removed by four of
  them. Owed: the bits agree with the connection and with the timer; an
  attention key holds the lock until its answer; keys typed ahead are run in
  their own session, in order; a deferred unlock comes.
* **Connection.** Every step of an attempt may fail, with a socket, a TLS layer
  and a watch to undo; sessions end from inside other handlers; a timer retries;
  attempts can nest. Owed: nothing leaks; what is watched and shown as secure
  belongs to the session there is; one reconnection at a time, and it is tried;
  a session has the flags of the name it was asked for and no other's.
* **Telnet.** Negotiation in any order and with repeats, answers that cross; a
  mode derived from two option tables. Owed: no endless exchange of options;
  both sides know the same when it ends; the mode agrees with the tables; each
  record that asks for a response gets exactly one.
* **Buffer, structured fields, ANSI.** Owed: addresses stay inside the buffer;
  the flag "formatted" is true; what is erased, shifted, scrolled and read is
  what should be; a reply answers the request it is for.
* **Editing, paste, line mode.** Owed: protection is respected, what the user
  changes is marked for the host, characters are shifted and not lost, and what
  the screen shows is what will be sent.
* **File transfer.** Owed: a transfer that reports success has copied the file,
  also across the borders of frames; each transfer ends; nothing of one reaches
  the next.
* **Event loop.** Owed: a timer fires once, not after it is removed; no callback
  for an input that was removed while the list was walked.
* **Window, information area, menus, toggles.** The same state is kept in two or
  three places, which follow each other through callbacks. Owed: what is seen is
  what is so, whatever the order of events and exposures.

`PROJECT.json` lists each hazard at its line, with the properties that watch it.

## 2. Plan

Done: every module of the table above. In the order they were written:
`Keyboard` and `Connection` with their proofs; `Telnet`, `TelnetHost`; `Timers`
and `EventLoop`; `FileTransfer`; `Screen`, `Controller`, `Editing`, `Paste`;
`Ansi`, `AnsiHost`, `LineMode`; `StructuredFields`; `ProxyNegotiation`,
`PrinterSession`, `HostName`; `Window`, `Selection`, `UiParser`, `Oia`, `Toggles`.

How modules are put together:

    Screen <- Controller                 Ansi <- AnsiHost        Telnet <- TelnetHost
    Screen <- Editing <- Paste           Ansi <- LineMode        Timers <= EventLoop (implements)

    Keyboard <- KeyboardProofs           Connection <- ConnectionProofs
    EventLoop <- EventLoopProofs         Telnet <- TelnetProofs
    Controller <- ScreenProofs           FileTransfer <- FileTransferProofs
    TelnetHost <- TelnetHostProofs

    ProxyNegotiation, PrinterSession <: Services <- ConnectionProofs, MCConnection
    Window, Selection <: Drawing <- ScreenProofs, MCDesktop
    Oia, Toggles <: Frame <- DesktopProofs, MCDesktop

`<-` is EXTENDS, `<:` an INSTANCE with constants and variables of the same names
(in `Drawing` the selection's `Rows` and `Cols` are `High` and `Wide`). `Services`,
`Drawing` and `Frame` put two machines beside each other for the proofs and for TLC
alike: they name the properties and state the assumptions on the constants, which
TLC evaluates. Some MC modules check several machines in one run, each
behaviour being of one of them (the variable `part` or `build`, chosen at the
start); the others stand still. These are `MCConnection` (the library's own
loop, the graphical program without and with RECONNECT, `ProxyNegotiation`, `PrinterSession`, `HostName`),
`MCFileTransfer` (with `StructuredFields`), `MCTelnetHost` (with `LineMode`),
`MCText` (`AnsiHost`, and `Paste`) and
`MCDesktop` (`Window`, `Selection`, `UiParser`, `Oia`, `Toggles`). A property of
a run is often the conjunction of several named parts, stated one by one in the
module; only the conjunction is checked, and its mutants are chosen to break
different parts.

Left, in this order:

1. `Keyboard` composed with `Editing`, so that a queued key is a real key, and
   an abstract keyboard (locked, unlocking, unlocked) that `Keyboard` refines.
2. `Telnet` composed with `Connection`, so that a send that fails is one model.
3. The dialogs of file transfer and printing, and macros, with the windows they
   keep open over a session that ends.

## 3. The keyboard and what is typed

`Keyboard.tla` has two variables. `h3270` is a record of what the handlers
share: `cstate`, the lock word as a set of bit names, the time of deferral
(`stamp`, as its age), the unlock timers not yet removed (`timers`, with the
`clock` of the newest), the queue `ta`, the `aid`, whether a transfer runs, and
two fields the code does not have: `owed`, set when an attention key is sent and
cleared when the host answers it, and `died`, set when `Free()` meets a static
table. `pc` says whether a drain loop (`ps_process`) is running.

A helper of the code is an operator from record to record (`KybdlockSet`,
`DoReset`, `OperatorError`, `KeyAid`, `HostDisconnect`, `KybdConnect`, ...) and
is composed in the code's order, so that a disconnection met in the middle of
`key_AID` runs its callbacks there. A whole handler is one action: the user's
`TypeChar`, `TypeTab`, `TypeAid`, `TypePf`, `TypeClear`, `TypeReset`, `FtStart`,
`FtComplete`; the host's `Connect`, `Disconnect`, `ChangeMode`, `FirstAnsiData`,
`CtlrWrite`, `ClearInhibitOnly`, `CtlrEraseAllUnprotected`, `QueryReply`,
`CtlrWriteSscpLu`; and `DeferUnlockFires`. Only the drain loop takes a step per
key (`RunTa`), with everything else waiting, as in the code. Whether a send
succeeds, a field refuses a character, and what freeing a static table does are
free choices. The editing of fields is abstracted to one key, Char, that may
run into an operator error.

Time: the age of the stamp counts seconds up to two, all that `do_reset` asks
of it; a timer of 350 ms is "new", "old" after a second has gone by, and never
lives through two.

**Run `keyboard`** (14994 states): every switch on, a queue of two keys. Two
are enough for a PF key of an AS/400, which queues two entries at once, and for
an entry behind the one that fails. It checks `LockMatchesConnection`,
`DeferredHasTimer`, `NoReplayAcrossSessions`, `AidHoldsLock`;
`OnlyUndrainedHandlersStrand`: keys are left in the queue of an unlocked
keyboard only by the three handlers that unlock without calling `ps_process` (a
Clear-Inhibit structured field, Erase All Unprotected, SSCP-LU data); and
`DeferredUnlockComes`, under the fairness of section 8.

`Editing.tla` has the keys that change fields (`Edits`: characters with insert
mode and blank fill, Dup, Delete, Erase, Delete Word, Delete Field, Erase to the
end of the line and of the field), Erase Input, Clear, the Home that starts a transfer
(`kybd_prime`) and those that move the cursor (`Moves`), on the screen of
`Screen.tla`, with whole writes of the host in between. A key the code refuses, in a
protected field or on an attribute, changes nothing.

**Run `editing`** (44208 states): a screen of two by three, which has room for
two fields and an auto-skip over attributes one after the other; no fields at
first, then fields that end the screen, go on at its start, are skipped, or have
no length; up to three changes between two writes, which is what it takes to
fill a field, delete and insert again. `ProtectedKept`, `EditsReachHost` (what
is edited is marked, so that the host gets it) and `FieldsShift`, which is
`InsertionShifts` and `DeletionShifts`. The constant `InsertAcross` keeps
insertions on their side of the end of the screen; **run `insertion`** lifts it
and TLC refutes `InsertionShifts`: one of the project's two findings,
`ctlr_wrapping_memmove` computing `((x) % rows) * cols` (ctlr.c:2531), and
`ins_prep` (kybd.c:689) taking positions before the end of the screen for blanks
of a field that has wrapped.

`Paste.tla` extends it with the texts the program types by itself:
`lib3270_set_string` as a fold over the characters, with the margin, smart paste,
the newline and what is left for `pastenext`; copy and append; and the command of
a file transfer (`ft_start`), which looks for a field, erases it and types.
**Run `text`** (146406 states) has this and the ANSI host of section 7. Here it
takes a text in one piece and one of three lines, at each position of three
screens of three by three (no fields, a form with a protected column, a field
that ends in the middle of a line), in both modes of each toggle (blank fill
without the other two).
`TextArrives`: a paste goes forward, inside its margin, and is not overwritten
by itself; a transfer's command is all its field says and will be read.

## 4. The connection and what goes with it

`Connection.tla` has two variables. `h3270` holds the session and what it owns
of the operating system: the state, `h3270.sock`, the descriptors really open
and really connected, what the main loop watches (and watches whose id has been
overwritten), the TLS layer, `secure_connection`, the reconnect flag and the
timers set. `attempts` is a stack of calls of `lib3270_connect` under way, with
the step each has reached:

    pending -> resolving -> connecting -> (waiting) -> returned

The steps are those between which `CallAndWait` or `RunPendingEvents` let the
main loop in; each is an action (`Begin`, `ResolveFails`, `OpenSocket`,
`ConnectFails`, `ConnectSucceeds`, `WaitEnds`) of the innermost attempt only. The
thread that connects is `BgConnectStarts`/`BgConnectEnds`: it reads `h3270.sock`
itself, when it gets to run. Other handlers (`UserConnects`, `TryReconnect`,
`UserDisconnects`, `NetRawoutFails`, `InputEnds`, `Negotiate`, `ContinueTls`)
need `LoopRuns`. The constant `Threaded` says whether it is the GTK program (the
loop runs during an attempt) or the library alone (only while
`lib3270_connect` waits for a mode). The resolver, `connect()`, the proxy's and
the TLS negotiations may fail at any time. Of the host's name this module keeps
whether it asks for TLS.

**Run `connection`** (210542 states) has six builds. The library's own loop
with RECONNECT and a proxy, the GTK program with RECONNECT off, and the GTK
program with RECONNECT and room for one attempt at a time (`Reconnecting`) check
`OneSocket`, `WatchedWhileConnected`, `OneReconnectTimer`, `SecureMeansTls`,
`AttemptSparesSession` and, in the first and the third, `ReconnectionTried`. Two
descriptors, and room for two attempts in the first two, are more than the code
uses there: the proofs show that one of each is all there ever is.

In the GTK program *with* RECONNECT, a toggle of its menu, attempts do nest when
the bound is not there: the user may connect while the timer's attempt resolves
or connects. One `h3270.sock` and one TLS layer then serve two attempts, and
*all* of the safety properties above fail, `TypeOK` included. **Run `nested`** shows
it of the one that the library's header promises: `ActiveConnectionSecure`, from
"Check if the active connection is secure." (`lib3270.h:426`). The user connects
with TLS inside the timer's attempt, which then puts a new socket and a new TLS
layer in the place of the ones the session has, and `secure_connection` stays set.

The fourth build is `ProxyNegotiation`: `net_connect` up to the proxy's grant,
for each type (passthru, HTTP, telnet, SOCKS 4, 4a, 5 and 5d), two connections one
after the other, since type and port are statics that the first sets. The proxy
answers with any reply, of each form of address, and closes at any byte; an
action is a byte read (`RecvReply`, `RecvMethod`, `RecvEnds`). The fifth is
`PrinterSession`: `printer_host_connect` and its like follow the mode (`HostMode`,
`HostDisconnects`, `HostNamesLU`), a start may fail at each of its steps, the
process writes to two pipes (`ChildWrites`) and exits (`ChildExits`), output is
gathered until a timeout or a full buffer. A buffer of three bytes fills, and
two starts let one process's remains meet the next. Their properties are joined
as `ServicesKept`:

* `ProxyKept`: a SOCKS connection counts as established only if it was granted
  (or SOCKS 4 closed early), and the telnet layer begins at the host's first
  byte; a proxy that is set is used, for the port asked for, and by its name if
  the setting has one.
* `PrinterKept`: the process prints only while the mode asks for it; nothing of
  a stopped one is left; text read waits for a timeout, and no buffer is full
  when it is read into, which would look like the end of the process.

The sixth is `HostName`: a name is a sequence of marks (a letter that is an
option, the letter C, words, colon, at-sign, brackets, blank, comma).
`split_host` is written as the code takes it apart, and compared with the syntax
its comment gives, stated as the set of all readings of a name. Actions are the
menu's connect, the command's, the dialog (`action_sethostname`, `Edits`,
`Cancel`, `Accept`), the attempt's ends, disconnection, `try_reconnect` and the
loading of a screen dump. All names of up to three of eight marks, and 448 longer
ones made of every part, as the program's first name; seven stored ones.
`NamesKept`: a session has what its name says, whatever was tried before; the
printer program and the dialog are given names that read as the same; and one of
connect and disconnect is sensitive unless the name was refused or an automatic
attempt is to come.

## 5. Telnet

`Telnet.tla` is the terminal with any host. `h3270` has both tables of options,
the mode, the state of TN3270E (functions, submode, bound, the place in the LU
list), TLS, urgent data; `record` is the TN3270E record being done and the
answers it got. `telnet_fsm` collects the bytes of a command and then runs its
handler; an action is one command with its handler (`Options`,
`Subnegotiations`, `Records`, `FirstData`, `DataMark`, `Urgent`, `Connect`,
`Disconnect`, `Sysreq`). Every send may fail, which disconnects, and the handlers of what is
left in the same buffer still run (`rest`, ended by `BufferEnds`).

**Run `telnet`** (657168 states): six options, one LU, sets of functions nested
in each other so that a host can ask for less, the same and more.
`SessionConsistent`: the mode and the line mode are what the tables say, TN3270E's
state ends with it, 3270 data belongs to a bound session where that was agreed
on, and the watch for urgent data comes and goes with it. `OneAnswer`: a record
gets exactly the responses it asks for, also if its processing sends data and
then fails.

`TelnetHost.tla` joins it to a host that keeps the protocol, by two queues that
lose nothing. The host answers as RFC 1143 and RFC 2355 say, may start to change
any option (`HostStarts`, at most `MaxStarts` times), rejects LUs and has a set
of functions of its own. **Run `telnet_host`** (500227 states): four starts, so that
an option can be withdrawn and offered again while answers cross; two LUs, so that
one is refused and the next tried. `Agreement`: when nothing is on its way both
sides know the same options and functions; of a timing mark only the host keeps
a state, since the terminal agrees to it each time it is asked and sets nothing
(telnet.c:1313). `Settles`: they get there.

The other half of that run is `LineMode.tla`, on the screen of `Ansi`: the
characters of a line and the control characters that edit, quote and end it, host
output in between, the change to character mode and back. Two lines of six columns, a
line of up to four characters, six events: enough to quote a character that
takes two columns, erase it, and reach the end of the buffer. `EchoMatches`:
what the screen shows of the line is what Enter will send.

## 6. The event loop

`Timers.tla` is what `AddTimeOut` and `RemoveTimeOut` promise: a timer fires
once, unless it is removed first, and never afterwards. `Keyboard` and
`Connection` rest on that. `EventLoop.tla` is `XtGlue.c`: the list of timeouts
in the order they expire, the list of inputs, and `frames`, the stack of calls of
`DefaultProcessEvents`, each with the pointer (`ip`, `next`) it walks with. A
handler may add and remove inputs and timeouts, its own too, and a timer's may
run the loop again. Handles are addresses, and one that was freed comes back.

**Run `event_loop`** (145210 states): two timers, two inputs, calls three deep,
three changes to the lists while handlers run, two units of time. With two
inputs a handler can remove itself, the next, the previous, or both.
`ListsConsistent`: order of the list, and no walk goes on from a pointer that is
stale. `KeepsTimers` is the safety of `Timers` under the mapping armed = what is
in the list, running = the timer's handlers that have not returned; `TimersFire`
is all of its specification, liveness included.

## 7. The screen

`Screen.tla` holds the buffer: cells, attributes, addresses that wrap, fields,
and the orders of a write with everything each does to the buffer, the cursor
and the tag "formatted". `Controller.tla` has a host that writes, one order at a
time in any order, erases and erases all unprotected fields. **Run
`controller`** (1061472 states): every order to every position of a screen of
two by two, which is the smallest on which rows and columns wrap and two fields
of no length can be adjacent. `ScreenConsistent`: "formatted" says whether there
is a field, on which the termination of the loops over fields depends.
`ReadBufferRestores`: what Read Buffer returns, written to a clear screen, is the
screen. `EraseLeavesProtected`: after Erase All Unprotected a Read Modified
returns what it had of protected fields and nothing else.
SSCP-LU data is a separate action with a specification of its own, `SscpSpec`:
it puts characters on attributes without a word to "formatted" (section 10).

`StructuredFields.tla` takes a record of fields one by one (`StructuredField`,
`Malformed`) to the response that `process_ds` gives telnet (`EndOfRecord`,
`Respond`); `Reserved` and the lengths of the replies follow `sf.c` and the
parser of X3270RPQ follows `rpq.c`. It is the other half of **run `transfer`**:
records of two out of 22 sorts of fields, good, short and bad; six settings of
the options, one too long to fit. `FieldsAnswered`: a record is refused only if
nothing was sent for it, output is claimed only if there was some, each good
request got the reply asked for, and each reply keeps to the space it reserved.

`FileTransfer.tla` has the terminal, in both protocols, and a host that keeps
the protocol: sends a request or a frame, reads the answer, encodes in any way
the tables allow, may garble, give up or disconnect. The user cancels, and the
file may fail to open, read or write. **Run `transfer`** (353717 states with the
fields): two transfers one after the other, files of two and three
bytes with NULs, CR and LF, frames and buffers of three codes, so that a line
end and a selector with its code fall on each side of a border. Four codes of the real tables
are enough to have two quadrants for one byte. `TransferCorrect` (what is reported
as complete has been copied, one answer to each request, frames within their
areas), `AbortStopsData`, and `TransferEnds`: a transfer the host has
acknowledged ends.

`Ansi.tla` has what each control character and sequence does to the page, the margins,
tabs and modes; `AnsiHost.tla` a host that fills a page and then sends any
`MaxSequences` of them. The other half of **run `text`**: a page of nine different
characters on three by three, then four sequences with parameters 0 to 3, so
that a region of two lines can be set, scrolled both ways and left. `PageKept`:
no character of the page is doubled or overtakes another, and text printed flows through the
right margin. `RegionKept`: nothing outside the region moves.

### The window

**Run `desktop`** (350807 states) is of one machine in each behaviour:

* `Window.tla`, `WindowShows`. The library's buffer (`size` in use, `model`,
  `ov`ersize), the window's copy (`content`, `changed`, `view`, cursor) and the
  pixmap, through writes, erasures, changes of the model, suspension, new sizes
  of the window and exposures. What is painted is what is kept, where it is not
  marked as changed; what is kept is what the library has. Models of 1x2 and
  2x3 have different row lengths, as a wrong address would show.
* `Selection.tla`, `SelectionKept` (`SelectionOutlined` and `DragKeepsShape`).
  Five actions of the mouse, keys and menus on three texts of three by three, with
  the pointer in, outside of, and just past the screen. The border is drawn on
  exactly the outer sides of the selected cells; a rectangle that is dragged
  keeps its size and stays on the screen.
* `UiParser.tla`, `UiBuilt`. Any two of the files that two elements make, in and
  beside each other, in either order. A file that is right by itself adds all
  it would add alone; each element is placed where it is looked for; rows and
  buttons have the memory they are written to.
* `Oia.tla`, `OiaTruthful`. What the library tells the window, through attempts,
  handshakes and answers that fail, a STARTTLS on a session that is secure already,
  modes, locks, clocks, LU programs, and what the window paints. `Elements` are
  what is painted separately; each has to be as it would be painted now, but for
  the lock of a session that a failed STARTTLS has left without a socket: that one
  stays until something else shows the session's end.
  The session may go on for any length; one event of the window or its user
  (exposure, a new size, suspension, Reset, Insert) comes in any state of it, and
  the session goes on after it. Two bounds of `MCDesktop` keep this small.
  `LUFollowed`: the name of the LU and its program are followed until the first
  event of the window. `AreaNext`: the shift key, a script, the cursor and the
  toggle of its position, which have elements of their own, are touched between
  sessions (the cursor also while updates are suspended), and nothing but the
  window goes on after them. The proof (section 9) knows neither bound.
* `Toggles.tla`, `TogglesTrue`. Each change of a toggle, by an action, the
  library or the settings; the signals that actions send; the trace file and
  its window, which two toggles share; the settings' file through the end and
  the next start. Menus, buttons and window agree with the toggles; the trace is
  open while one of the two asks for it and complete when it is closed; a
  program started from a file just saved has what was on.

## 8. Fairness

`Keyboard`: the drain loop goes on (weak fairness), seconds pass and an old timer
expires (weak), and an expired timer is called by the main loop however busy it
is (strong: other handlers may run first, but `select` or GLib come round to
timers). Nothing forces a *new* timer to expire before the host's next restore:
that is the interesting case of `DeferredUnlockComes`, which holds because
`do_reset` unlocks at once when the deferral is older than a second. It is
excused for a host that queries the terminal for ever, since each query keeps
input arriving in a loop that then never comes to its timers.

`Connection`: an attempt goes on and `connect()` answers at last (weak: the
system's own timeout), and a due reconnection timer is called (strong, as above).

`EventLoop`: the program calls the loop again and again and does not only poll
(strong, since the call needs an empty stack), the dispatcher and the handlers
go on (weak), `select` does not fail for ever (strong) and time passes (weak).

`TelnetHost`: both sides receive what is on its way (weak); the host need not
start anything. `FileTransfer`: the terminal answers what it gets (weak), and
the host goes on with its protocol (weak): "if the host goes on" is part of what
`TransferEnds` says.

The user and the network are under no obligation anywhere. The other modules
have safety properties and no fairness.

`CHECK_DEADLOCK FALSE` stands where the system may really stop or a bounded run
ends: a process that `Free()` has ended (keyboard), a caller that waits for a
mode on a closed socket (connection), the last of a bounded number of events
(text, desktop, telnet_host, transfer, event_loop).

## 9. Proofs

TLAPS checks the modules of theorems from `Init` and `Next` alone, for every
value of the constants their ASSUMEs allow.

**KeyboardProofs**: `Spec => []IInv`, and from it `TypeCorrect`,
`LockConnection`, `DeferredTimer`, `NoReplay`, `AidHolds`. None of the
invariants is inductive alone. `IInv` says that the session is `Sound`, in three
layers that follow the code: `Timed` (bit, timer and stamp agree) holds after
every statement; `Sane` (the lock agrees with the connection, a queue needs one)
whenever a helper hands the session on; `Sound` (an owed answer holds the lock)
at the end of a handler. The inner lemmas are about setting and clearing bits,
one lemma for each helper says what it keeps, and the actions follow.
`StrandsOnlyThere` is the action property `OnlyUndrainedHandlersStrand`. It needs
one fact more, `Flushed`: while an operator error shows, the queue is empty. A Tab
clears that error without draining the queue, so it is the flush of
`operator_error` and the refusal of `enq_chk` that leave nothing behind there.

**ConnectionProofs**, for every build: `Spec /\ []OneAtATime => []IInv`, and from it
`TypeCorrect`, `NoSocketLeaks`, `WatchFollowsSession`, `ReconnectionHasTimer` and
`SecureConnection`, of the same form. `OneAtATime` says that no call of
`lib3270_connect` is inside another; since a behaviour may stop after any step, the
theorems say that all this holds up to the first nested attempt. `IInv` says for
each stage what the attempt and the session hold: a pending or waiting attempt
finds a session as it is between attempts (`Held`), a resolving one a closed
session, a connecting one exactly its own socket, not watched (`Trying`).

`InStep` does without the hypothesis where no attempt can come inside another
(`NoNesting`, not both `Threaded` and `Reconnect`): a timer exists only with
RECONNECT, so without a thread, and its own attempt never waits for a mode, so the
loop that would let another call in does not run (`CallsAlone`). In the GTK program
with RECONNECT the hypothesis is a real restriction: nothing in the code enforces
it, and without it the properties fail, as section 4 says. What is proved of that
program with its nested attempts is `FlagHasTimer`: whatever they do to the socket,
`auto_reconnect_inprogress`, which turns every attempt away, is never left set
without a timer that clears it. `AttemptSparesSession` and `ReconnectionTried` are
model-checked only.

Beside them `PrinterFollowsSession`, for the session of the printer, under
`BufferAssumption` (a buffer has room for a character and its end; the code's
have 8192): `PrinterKept`. `PrinterInv` adds to it what it lacks to be inductive:
what a stopped process leaves is nothing at all, a process that is associated
with the terminal's LU was asked for by the name that stands for it (`Associated`),
so that a change of mode from TN3270E to another always stops it, and a pipe has
never more in it than a buffer takes. The property says of the last words of a
process only that they are shown; the lemmas on sequences say they fit.

And `ProxyServesSession`, for any settings, ports, sizes of HTTP's buffer and
numbers of connections, under `SpecsAssumption` (the resource is text):
`ProxyKept`. That an established session begins at the host's first byte says
nothing while the reply is being read; the invariant names the reply. `Coming`: what was
read of it (`rbuf`) and what is on its way (`stream`) are, end to end, one of the
replies that the proxy may give, with the host's data behind it if it was
granted, or a beginning of one if the proxy closed. `Counted`: with SOCKS 5,
`n2read` is what is left of that reply, from the fourth byte on, but for the byte that
gives the length of a name. The rest is per proxy: a byte of SOCKS 4 decides by
its place, one of SOCKS 5 by the count, and HTTP stops at the first line. `SetUp`
adds that the port of the first connection is the one that the proxy is asked
for. That a host and port that are written as a setting are read so is proved
for all of them that can be written (`WrittenRead`: a name that is not empty, has
no closing bracket, and no opening one in front unless it has a colon), of which the property looks at four. Both together are
`ServicesAreKept` (`ServicesKept`).

**EventLoopProofs**: `Spec => []IInv`, and from it `ListsStayConsistent`
(`ListsConsistent`) and the refinement `PromiseKept`: every step of `EventLoop`
is one of `Timers`, or none (`KeepsTimers`). `ListsConsistent` is not inductive
alone. What it lacks is the shape of the stack (`Stacked`): only the call on top
moves, the calls below stand in handlers of timers, and no two in that of the
same one. So a change of the inputs finds at most one walk under way, and it is
told; and a timer whose handler returns is in play no more. The proof has a
lemma for each action, over lemmas of what an insertion, a removal and a new top
leave in a sequence. The bounds are used for nothing but the types.

**TelnetProofs**, for any number of LUs and any set of options:
`SessionStaysConsistent` (`SessionConsistent`, the type included) and
`AnsweredOnce` (`OneAnswer`). The invariant is `Handled` (the type in the middle
of a handler, messages sent included), `Settled` (an open session's mode, line
mode and TN3270E state fit its options) and `Owed` (a record in work is answered,
or its answer is owed). `Settled` fails inside a handler, between a change of a
table and `check_in3270`; what holds there is `Steady` (3270 data only if bound,
the watch for urgent data) and `Leaving`: TN3270E's state is left over only while
the mode still is TN3270E's, so `check_in3270` sees the change and clears it. That
is why its test "has the mode changed" is enough. Two hypotheses are about the
host, and each is needed. `TlsFirst`: without it a session that was started over
by TLS keeps its tables, with a mode that says it has none. `NestedFunctions`: of two sets of functions
that are asked for, one contains the other. Without it TLC finds that a host which
asks for DATA-STREAM-CTL alone, sends data, and then asks for BIND-IMAGE has 3270
data on a session that is not bound: `telnet.c:1630` takes any set that
lacks one of ours as "what we want, or less".

**TelnetHostProofs**, for any options, functions, LUs and number of starts and
with no further hypothesis: `EndsAgree` (`Agreement`). Nothing is said of the
tables while messages are on their way, so the invariant `HInv` has to say it for
each exchange. A queue matters to one negotiation only by its messages of one
class, and never holds more than three of them: `None`, `One`, `Two`, `Three`.
For an option, `Fits` lists the four states of RFC 1143 against the terminal's
flag and both queues: a request and its answer under way (`Turns`), two requests
that cross (`Crossed`), an offer that the host turns down (`Declined`), where either
may ask again meanwhile, which is what takes three messages. TN3270E
has its subnegotiation on top, so `FitsTn` puts the stages of the exchange of
device type and functions (`Exchange`) next to what is agreed, and a withdrawal
that overtakes it. `Joined` puts all lines together. The lemmas go from sequences (`Same`, `Gains`, `Loses`) over one
line to one handler, and the steps follow.

**DesktopProofs**, first, for any set of other toggles and any number of starts:
`SettingsAreTrue`, which is all of `TogglesTrue`. A running program satisfies
`Shown` (actions, buttons and the window's size are the toggles'), `Traced` (a
trace file is open exactly as the toggles say, and starts and ends with its
marks) and `Kept` (the settings in memory are those of the window's own toggle).
`Shown` is broken between the change of a value and the callback that follows;
`Almost` is what holds there, and the reason why an action and its toggle, which
set each other, do not go on for ever. That the file returns the settings follows
for the step that writes it.

Second, `AreaTellsTheTruth`, for the operator information area under
`AreaAssumption` (two switches are on or off, two bounds are numbers):
`OiaTruthful`. The area is painted piece by piece from callbacks, and most of
what the property says fails between two of them. `Sound` (the type, the message
last told, a spinner for a clock that shows) holds after each statement; a step is
`Steady` if it leaves painted what was, and `Quiet` or `Timed` if it also leaves
the clock or the message alone. All helpers of lock, message and clock are one
of these. `host_in3270`, `host_connected` and `host_disconnected` are not: they
set the mode first, which leaves the three elements of `ModeShown` stale, and the
lemmas follow their callbacks until each has been painted again. `GoodArea`, the
invariant, adds to the property which locks go with a connection (`Locked`) and
the stage of an attempt to connect (`Stage`): the message is DISCONNECTED in
between, and a window that was told nothing yet has no session. That the letter
in the box is only right while the box is solid, and the position of the cursor
while updates are not suspended, is stated in the property too, as the code has it.
So is what `net_disconnect` leaves alone, the lock: `continue_tls` calls it and
nothing else where STARTTLS fails, and the lemmas about a session that ends or
begins start from a session in that state (`Beside`) as well as from a true one.

**FileTransferProofs**, for any file, any tables of conversion and any sizes:
`AbortIsFinal` (`AbortStopsData`) and `EachAnsweredOnce` (`OneAnswer`). `Lockstep`
says which of the two has the turn and what of the other's can still be on the
way (`Fits`, `Answered`, and `Stale`: after a DFT write that failed, an
acknowledgement behind the error); `Protocol` keeps CUT and DFT apart; `Stops`
says that an aborted transfer is one its host ends, or will when it sees the
answer; `Reading`, that a DFT insert arrives as a message only after the host has
opened its message. What the conversions compute is not used.

**ScreenProofs**, first, for every size of the screen from two by two, every set of
graphic characters and every set of field attributes: `ScreenStaysConsistent`
(`ScreenConsistent`): addresses stay in the buffer in every order of every
write, and the tag "formatted" is on exactly if there is a field. This one is
inductive as it stands; the work is in the searches. `Find` and its kin take the
first or the last address with some quality going round from another, and a
lemma shows that there is one, from the least element of a set of distances
(`Least`, by well-founded induction over a set, not over data). The erasures keep
every field (`ErasedTyped`), the other orders are a lemma each.

Second, `SelectionFollowsPointer`, for every screen, any positions of the pointer
on it or off it and any texts, under `SelectionAssumption` (the screen has a cell,
fields are on it): `SelectionKept`, both `SelectionOutlined` and the action
property `DragKeepsShape`. `GoodMarks` says that the marks are `Bordered(S)` for
some set `S` of cells, rather than what each cell's sides are, so that every way
of marking only has to name its set: a rectangle, the cells between two, rows of
text, all. It also says that without a mode the screen is bare, which makes the
next press start from nothing. The arithmetic is that of rows and columns
(`Division`): a cell and its neighbours, from a product that is not linear, in lemmas
of their own. For a drag, `Clamped` is shown to move both ends by the same
distance and to stay on the screen.

Third, `WindowShowsScreen`, for any sizes of models and oversizes and any writes of
the host, under `WindowAssumption` (sizes have rows and columns, 24x80 fits each
model, the host writes buffers): `WindowShows`. It is not inductive: that what
is painted is what is kept survives an erasure only if what is not in view is blank
and nothing there is pending. `GoodWindow` says so, in three parts. `Held`: what is
marked as changed is in the part in use, the rest is blank, the part in use
fits the window and the cursor is the library's. `Viewed`: the view is the part in
use or, with an oversize, all. `Seen`: what is painted is what is kept or marked, if
there is a pixmap and updates are not suspended. Each handler keeps these; a change
of model goes through states that do not (a part in use that does not fit),
so it has its own description of the window in between (`Fresh`: all is blank and
painted, and the cursor home in both). For the last of these `WindowInv` adds that
without a session the cursor is home, as a session that ends erases the screen:
the model can only be changed then. That the places of a part of the window are
places of the window, and all of them if the part is all, is `PlaceInside` and
`PlacesOfAll`.

**Only model-checked**: every property of a run that is not named above. The
liveness properties (`DeferredUnlockComes`, `ReconnectionTried`, `TimersFire`,
`Settles`, `TransferEnds`) are out of the prover's reach. So are those that say
what a fold or a recursion over the data computes, since that needs induction
over data: the copied file (`TransferCorrect`), the fields of a record that are
answered and the sums of what a reply holds (`FieldsAnswered`), the contents of a
reply (`ReadBufferRestores`), what scrolling, shifting and pasting leave of the text
(`PageKept`, `EchoMatches`, `TextArrives`), what the parser builds
(`UiBuilt`), and the name that is taken apart (`NamesKept`).

## 10. What the code does otherwise than one expects

Met while modelling. The models do as the code does, and the properties are
stated with the exception where there is one. Two of them have a run of
their own: insertion across the end of the screen (section 3) and attempts to
connect that nest (section 4).

*Keyboard.* Flushing a queued PF key frees a static table (kybd.c:334). A
transfer is marked as started after its command was sent, even if sending it
ended the connection (ft.c:268). A restore from the host leaves the keyboard
waiting if a transfer runs and keys were queued, since `do_reset` then only
flushes them (kybd.c:1529). `kybdlock_set` renews the time stamp for any bit set
while the unlock is deferred, under the comment "Turned on deferred unlock"
(kybd.c:358): it compares the old word with the new bits, not with the new word.
`ctlr_write_sscp_lu`, under "Unlock the keyboard" (ctlr.c:1994), leaves a
keyboard locked that is locked only by an operator error or by `KL_OIA_MINUS`.
`aid` keeps the last key across a disconnection, and a Read Modified of the next
session answers with it (kybd.c:122); with as400 a PF key sends PA1 and itself
back to back (kybd.c:552). The end of a word at an attribute puts the cursor on the
attribute, whose character is null and is looked at first (kybd.c:2180);
`kybd_prime` takes a field that begins at address 0 for none (kybd.c:3862).

*Connection.* In the GTK program with Auto-Reconnect one attempt to connect can
come inside another, and both use one socket and one TLS layer (section 4, run
`nested`). After a failed answer `telnet_fsm` goes on to `check_in3270`,
which marks the closed session connected (telnet.c:1250). A caller that waits
for a mode waits for ever if `continue_tls` fails, which closes the socket but not
the session (host.c:654, telnet.c:3287). A failed handshake or proxy negotiation is ignored by
`net_connect`, and leaves `ssl_con` for the next plain connection
(telnet.c:595). One automatic retry that fails is the last (host.c:797), and an
attempt in between takes its name away (host.c:793). The thread of an attempt connects the socket that the session has when it gets to
run, which may be another attempt's (telnet.c:423).
A proxy setting that cannot be read stops the first attempt only
(telnet.c:494); one without a host ("http:") can be read, and stands for a host without
a name (proxy.c:274); an HTTP proxy's answer is read to its first line end; a timeout
of `select` goes unnoticed, and SOCKS 4 looks at a status that was never read if
the proxy closes early (proxy.c). `printer_stop` leaves the descriptors of its pipes
open; a failed fork is still announced as a running printer; what a
process wrote but did not end with a timeout is lost when it exits; one that
exits is not started again before the mode changes (printer.c).

*Host names.* `as400` and `no_login` stay set for names without them
(host.c:640-643). "[h]p" has port p without a separator, against the comment
(host.c:248-256); a host of one letter with a port is read as an option. An LU
name longer than its field has its end written past it (host.c:342-346). The dialog splits
at the first colon, and so misreads options, LU names and brackets
(action_calls.c). A name that is refused, and a pending automatic attempt, leave
both groups of actions insensitive; a screen dump leaves both sensitive.

*Telnet.* `check_in3270` compares IN_E with itself, so the LU list is never
reset when a session enters or leaves TN3270E (telnet.c:2397). A set of functions
that asks for more is accepted as "what we want, or less" (telnet.c:1630). The
loop over NVT data advances its pointer twice a byte (telnet.c:1853). A mark read before the signal of urgent data
ends nothing, and the input after the signal is dropped up to the next mark (telnet.c:1220). In
line mode a backslash never quotes (telnet.c:2088), erasing a tab or a quoted
carriage return takes the wrong number of columns, a full line cannot be ended,
and host output comes into the middle of the line.

*Event loop and transfers.* A loop that starts again after a change of the inputs,
finds none left and is not to block, returns before it looks at the timers (XtGlue.c:450).
A nested loop resets `inputs_changed`, so one run inside the handler of an input
would leave the outer walk a stale pointer (XtGlue.c:462, 489); only timers'
handlers run it. In the GTK program a handle of a timer that has ticked is freed
memory, and removing it writes there (iocallback.c:209). A CUT frame
that converts to nothing is taken for a failed write (ft_cut.c:496: `fwrite` of no
bytes returns 0). A forced cancellation ends the transfer without a word to the
host (ft.c:143). The saved reply of an upload is never forgotten, and a Read
Modified of a later transfer returns it (ft_dft.c:534).

*Screen.* After a Start Field the write still goes by the attribute that was at its
address before, so that an Erase Unprotected to Address right behind it erases a
protected field (ctlr.c:1444). SSCP-LU data writes over attributes and leaves
"formatted" set on a screen without fields (ctlr.c:1906); it goes on
at the address where the last write ended, which a bad Set Buffer Address leaves
outside of the screen (ctlr.c:1250). Cursor Down compares rows with columns
(ansi.c:649). Below the scrolling region text goes back to the start of its line
(ansi.c:1012) and a new line scrolls the region. Erasing keeps the held wrap
(ansi.c:924, 1555); a reset leaves the parser in the middle of a sequence.
An Erase/Write in a structured field does not go back to the standard screen
(sf.c:607), and a query of a type that is not known leaves the reply started. `rpq.c` does not clear errno before `strtol`, computes
"-0830" as -7:30, takes a short keyword for ADDRESS, and writes a prefix past the
reserved space before it takes it back. A paste that wraps to the very position
it began at goes on over itself (paste.c:185), and Append joins
what is left of the last paste.

*Window.* The pixel past the last row or column is a row or column of its own
(mouse.c:310-347, 452), and a press outside of a selection begins the next in the column that has
the number of its row (383). A change of
the model with an oversize sets the size of the screen twice (ctlr.c:251) and resets the
library's cursor without telling the window. Of the information area: `update_oia` invalidates a rectangle with x and y exchanged (oia.c:164);
STARTTLS is accepted on a session that is secure already (telnet.c:1309), and one that
fails only calls `net_disconnect` (3303-3308, 3316-3320, 3340-3343): the session stays
connected without a socket, and the lock painted is the former session's until
something else shows its end; the icon is the warning for every session without a
verified certificate (oia.c:558-562), so that a plain session is never shown unlocked,
and one made secure by STARTTLS is not shown locked unless an earlier handshake
verified a certificate; each start of a clock adds a
spinner (oia.c:955) to those that still turn; a text told while there is no pixmap is lost; CONNECTED and a
bare lock have no text; an LU's program that does not end keeps the next from
running. Of the menus: a row or button outside of a keypad goes to the last one
(uiparser1.c:692), a row without buttons divides by zero (about 1146), declaring
an action again loses its script. Of the toggles: SCREEN_TRACE turned on from a menu opens no
file, and turning it off writes to NULL; a refused trace file leaves the toggle
on; `tracef_size` never grows, so no file is ever rolled over (trace_ds.c:300).

## 11. Not modelled

* Code pages, tables, `print.c`: pure functions of the buffer or of a character.
* Resources and the tables of actions (`resources.c`, `actions.c`, `glue.c`,
  `util.c`): constants of the models. Macros (`macros.c`) are one more caller of the
  keyboard's and the connection's actions, and so are the plugins and the
  bindings for Java and OpenOffice.
* The event loop of GTK is GLib's, which is not in the repository; its effect, one
  handler at a time or nested, is in `Connection`. The _WIN32 code is left out
  everywhere.
* Of the parts that are modelled: colours, fonts, character sets, DBCS and the
  alternate buffer of `ctlr.c`; compose sequences, hex input and the light pen of
  `kybd.c`; the assembly of ANSI sequences from bytes and the reports to the
  host; the text of command lines and of the proxy's requests; the exception
  watch of `xio.c`, failures to set up OpenSSL, and the states RESOLVING and
  PENDING, which `net_connect` never asks for; what is written to a trace, and its
  limit of size.
* `ui_parse.c`, the older parser of menus, which the build leaves out.

Every property of a passing run has mutants: an operator in its module that
changes one definition as a plausible bug would, and with which TLC refutes it.
