--------------------------- MODULE StructuredFields ---------------------------
(***************************************************************************)
(* Structured fields of the 3270 data stream: src/src/lib/sf.c and the     *)
(* options of src/src/lib/rpq.c.  The host sends a record of fields; each  *)
(* is done in turn, and may send a record of its own at once.  What the    *)
(* whole record comes to decides whether the host is sent a positive or a  *)
(* negative response (Telnet's Data).                                      *)
(*                                                                         *)
(* The bytes of a reply are abstracted to how many there are.  What a      *)
(* field does to the screen is Controller's and Editing's, and what is     *)
(* transferred FileTransfer's.                                             *)
(***************************************************************************)
EXTENDS Integers, Sequences, FiniteSets, SequencesExt

CONSTANTS
    Fields,         \* the fields the host sends
    Rests,          \* and what a record ends with: nothing, or bytes that are no field
    MaxFields,      \* bound of the model: fields in a record
    Environments,   \* values of X3270RPQ
    VersionLength   \* the length of build_rpq_version

(* A field: what it is, how long its length says it is, its bytes.  Length    *)
(* zero stands for the rest of the record.                                    *)
Field == [id : STRING, len : Nat, part : {"all", "0", "other"}, type : STRING,
          req : STRING, codes : SUBSET STRING, attrs : Nat]

VARIABLES
    todo,           \* the fields of the record still to be done
    rest,           \* and how it ends
    rv,             \* what came of those done: output, or none
    bad_cmd,
    result,         \* what write_structured_field returns
    out,            \* the records sent for this one
    asked,          \* the fields of it that were done
    reply_mode, crm_nattr,
    cursor,         \* whether the cursor was sent home
    env

vars == <<todo, rest, rv, bad_cmd, result, out, asked, reply_mode, crm_nattr, cursor, env>>

-----------------------------------------------------------------------------
(* Query replies. *)

(* The table "replies", without the null reply, which ends it.                *)
replies == <<"SUMMARY", "USABLE_AREA", "ALPHA_PART", "CHARSETS", "COLOR", "HIGHLIGHTING",
             "REPLY_MODES", "DDM", "RPQNAMES", "IMP_PART">>
NSR == Len(replies)

Header == 4                                  \* length, the id of the field, the code
Total(widths) == FoldLeft(LAMBDA sum, x : sum + x, 0, widths)

(* Bytes that do_query_reply and the functions of the table ask space for.    *)
Reserved(code) ==
    CASE code = "SUMMARY" -> NSR             [] code = "USABLE_AREA" -> 19
      [] code = "ALPHA_PART" -> 4            [] code = "CHARSETS" -> 64
      [] code = "COLOR" -> 4 + 2 * 15        [] code = "HIGHLIGHTING" -> 11
      [] code = "REPLY_MODES" -> 3           [] code = "DDM" -> 8
      [] code = "RPQNAMES" -> 4 + 4 + 1 + 254
      [] code = "IMP_PART" -> 13             [] code = "NULL" -> 0

do_qr_summary      == Total([i \in 1 .. NSR |-> 1])
do_qr_usable_area  == Total(<<1, 1, 2, 2, 1, 2, 2, 2, 2, 1, 1, 2>>)
do_qr_alpha_part   == Total(<<1, 2, 1>>)

(* Mutant: six pairs are reported on, as many as there are names for.         *)
do_qr_highlightingSix == Total(<<1>> \o [i \in 1 .. 6 |-> 2])

do_qr_highlighting == Total(<<1>> \o [i \in 1 .. 5 |-> 2])
do_qr_reply_modes  == 3
do_qr_ddm          == Total(<<2, 2, 2, 2>>)
do_qr_imp_part     == Total(<<1, 1, 1, 1, 1, 2, 2, 2, 2>>)

(* Eight or sixteen colours, all but one of them in pairs.                    *)
do_qr_color == 4 + 2 * (env.colors - 1)

(* One character set, or two with a font of the 3270's own.                   *)
do_qr_charsets == 9 + 7 * (IF env.standard_font THEN 1 ELSE 2)

-----------------------------------------------------------------------------
(* Self-defining terms of the RPQ names reply. *)

rpq_keywords == <<"ADDRESS", "TIMESTAMP", "TIMEZONE", "USER", "VERSION">>
allow_oride  == {"ADDRESS", "TIMEZONE", "USER"}
TermPrefix   == 2

(* A term of X3270RPQ names the first keyword it is the beginning of, or all. *)
First(term) == SelectInSeq(rpq_keywords, LAMBDA k : k \in term.of)

(* A term with "NO" leaves a keyword out; one with "=" may give its value.    *)
select_rpq_terms ==
    LET step(omit, term) ==
            [i \in 1 .. Len(rpq_keywords) |->
                IF i = First(term) \/ (First(term) = 0 /\ term.all) THEN term.no ELSE omit[i]]
        none == [i \in 1 .. Len(rpq_keywords) |-> TRUE]
    IN  FoldLeft(step, none, env.rpq)

(* The length of the value given for a keyword last, or nothing.              *)
oride(k) ==
    LET giving == {i \in 1 .. Len(env.rpq) :
                      /\ env.rpq[i].value >= 0 /\ k \in allow_oride
                      /\ First(env.rpq[i]) # 0 /\ rpq_keywords[First(env.rpq[i])] = k}
    IN  IF giving = {} THEN -1 ELSE env.rpq[Max(giving)].value

Least(a, b) == IF a < b THEN a ELSE b

(* The text of the user, cut to what is left.                                 *)
get_rpq_user(remaining) == IF oride("USER") > 0 THEN Least(oride("USER"), remaining) ELSE 0

(* A family, and an address of it if that fits.                               *)
get_rpq_address(remaining) ==
    IF remaining < 2 \/ env.address < 0 THEN 0
    ELSE IF 2 + env.address <= remaining THEN 2 + env.address ELSE 2

TermLength(k, remaining) ==
    CASE k = "USER"      -> get_rpq_user(remaining)
      [] k = "ADDRESS"   -> get_rpq_address(remaining)
      [] k = "TIMEZONE"  -> IF remaining < 2 THEN 0 ELSE 2
      [] k = "VERSION"   -> IF VersionLength > remaining THEN 0 ELSE VersionLength
      [] k = "TIMESTAMP" -> IF 7 > remaining THEN 0 ELSE 7

(* Mutant: the prefix of a term is not counted.                               *)
RpqTermsNoPrefix ==
    LET step(t, i) ==
            LET length == TermLength(rpq_keywords[i], t.remaining - TermPrefix)
            IN  IF select_rpq_terms[i] \/ length = 0 THEN t
                ELSE [remaining |-> t.remaining - length, terms |-> Append(t.terms, TermPrefix + length)]
    IN  FoldLeft(step, [remaining |-> 254 - 5, terms |-> <<>>], [i \in 1 .. Len(rpq_keywords) |-> i]).terms

(* The lengths of the terms; one that is left without a value is taken back.  *)
RpqTerms ==
    LET step(t, i) ==
            LET length == TermLength(rpq_keywords[i], t.remaining - TermPrefix)
            IN  IF select_rpq_terms[i] \/ length = 0 THEN t
                ELSE [remaining |-> t.remaining - TermPrefix - length,
                      terms |-> Append(t.terms, TermPrefix + length)]
    IN  FoldLeft(step, [remaining |-> 254 - 5, terms |-> <<>>], [i \in 1 .. Len(rpq_keywords) |-> i]).terms

(* The device and model numbers, the length that counts itself, the program.  *)
RpqInfo == 1 + 5 + Total(RpqTerms)
do_qr_rpqnames == 4 + 4 + RpqInfo

BodyLength(code) ==
    CASE code = "SUMMARY" -> do_qr_summary         [] code = "USABLE_AREA" -> do_qr_usable_area
      [] code = "ALPHA_PART" -> do_qr_alpha_part   [] code = "CHARSETS" -> do_qr_charsets
      [] code = "COLOR" -> do_qr_color             [] code = "HIGHLIGHTING" -> do_qr_highlighting
      [] code = "REPLY_MODES" -> do_qr_reply_modes [] code = "DDM" -> do_qr_ddm
      [] code = "RPQNAMES" -> do_qr_rpqnames       [] code = "IMP_PART" -> do_qr_imp_part
      [] code = "NULL" -> 0

(* The length goes into the header once the body is there.                    *)
do_query_reply(code) == [code |-> code, len |-> Header + BodyLength(code)]

(* query_reply_start, the replies, query_reply_end: one record.               *)
QueryReply(codes) == [aid |-> "SF", replies |-> [i \in DOMAIN codes |-> do_query_reply(codes[i])]]

-----------------------------------------------------------------------------
(* The fields.  Each returns what is sent, or that the field is bad.          *)

Bad  == [bad |-> TRUE, sent |-> <<>>]
Fine == [bad |-> FALSE, sent |-> <<>>]
Sends(record) == [bad |-> FALSE, sent |-> <<record>>]

(* The codes of the list that there is a reply for, in the table's order.     *)
Listed(f) == SelectSeq(replies, LAMBDA code : code \in f.codes)

QueryList(f) ==
    CASE f.len < 6           -> Bad
      [] f.req = "LIST"      -> Sends(QueryReply(IF f.len < 7 \/ Listed(f) = <<>> THEN <<"NULL">> ELSE Listed(f)))
      [] f.req \in {"EQUIV", "ALL"} -> Sends(QueryReply(replies))
      [] OTHER               -> Bad

sf_read_part(f) ==
    CASE f.len < 5                                    -> Bad
      [] f.type = "QUERY" /\ f.part = "all"           -> Sends(QueryReply(replies))
      [] f.type = "QLIST" /\ f.part = "all"           -> QueryList(f)
      [] f.type \in {"RMA", "RB", "RM"} /\ f.part = "0" -> Sends([aid |-> "QREPLY", replies |-> <<>>])
      [] OTHER                                        -> Bad

sf_erase_reset(f) == IF f.len = 4 /\ f.type \in {"DEFAULT", "ALT"} THEN Fine ELSE Bad

Replying(f) == f.len >= 5 /\ f.part = "0" /\ f.type \in {"FIELD", "XFIELD", "CHAR"}
sf_set_reply_mode(f) == IF Replying(f) THEN Fine ELSE Bad

(* The partition, then the unit of measure and the addressing mode.           *)
Creating(f) == (f.len > 3 => f.part = "0") /\ (f.len > 4 => f.type # "badunits")
sf_create_partition(f) == IF Creating(f) THEN Fine ELSE Bad

(* An order of the write may be bad; what a write says of output is dropped.  *)
sf_outbound_ds(f) ==
    IF /\ f.len >= 5 /\ f.part = "0"
       /\ f.type \in {"W", "EW", "EWA", "EAU"}
       /\ ~(f.len > 5 /\ f.type # "EAU" /\ f.req = "badorder")
    THEN Fine ELSE Bad

(* A transfer's data may be answered, which counts for nothing here: what the *)
(* field before it came to is counted again.                                  *)
ft_dft_data(f) == IF f.type = "GET" THEN Sends([aid |-> "TRANSFER", replies |-> <<>>]) ELSE Fine

Done(f) ==
    CASE f.id = "READ_PART"      -> sf_read_part(f)
      [] f.id = "ERASE_RESET"    -> sf_erase_reset(f)
      [] f.id = "SET_REPLY_MODE" -> sf_set_reply_mode(f)
      [] f.id = "CREATE_PART"    -> sf_create_partition(f)
      [] f.id = "OUTBOUND_DS"    -> sf_outbound_ds(f)
      [] f.id = "TRANSFER_DATA"  -> ft_dft_data(f)
      [] OTHER                   -> Bad

-----------------------------------------------------------------------------
NoRecord == "none"
NoRest   == "nothing"

Init ==
    /\ todo = <<>> /\ rest = NoRest /\ rv = FALSE /\ bad_cmd = FALSE /\ result = NoRecord
    /\ out = <<>> /\ asked = <<>> /\ reply_mode = "FIELD" /\ crm_nattr = 0 /\ cursor = "away"
    /\ env \in Environments

(* A record of fields comes. *)
Receive ==
    /\ result = NoRecord
    /\ \E n \in 0 .. MaxFields : todo' \in [1 .. n -> Fields]
    /\ rest' \in Rests
    /\ result' = "busy"
    /\ UNCHANGED <<rv, bad_cmd, out, asked, reply_mode, crm_nattr, cursor, env>>

(* A length of zero takes in the rest of the record.                          *)
Current == IF Head(todo).len > 0 THEN Head(todo)
           ELSE [Head(todo) EXCEPT !.len = 9, !.attrs = 9]
Left    == IF Head(todo).len > 0 THEN Tail(todo) ELSE <<>>

Return(r) == result' = r /\ UNCHANGED <<todo, rest, rv, bad_cmd, out, asked, reply_mode, crm_nattr, cursor, env>>

(* The next field. *)
StructuredField ==
    /\ result = "busy" /\ todo # <<>> /\ Current.len >= 3
    /\ LET f == Current
           d == Done(f)
       IN  /\ todo' = Left /\ rest' = (IF Head(todo).len > 0 THEN rest ELSE NoRest)
           /\ out' = out \o d.sent /\ asked' = Append(asked, f)
           /\ rv' = (rv \/ (d.sent # <<>> /\ f.id # "TRANSFER_DATA"))
           /\ bad_cmd' = (bad_cmd \/ d.bad)
           /\ reply_mode' = IF f.id = "SET_REPLY_MODE" /\ Replying(f) THEN f.type ELSE reply_mode
           /\ crm_nattr' = IF f.id = "SET_REPLY_MODE" /\ Replying(f) /\ f.type = "CHAR" THEN f.attrs ELSE crm_nattr
           /\ cursor' = IF f.id = "CREATE_PART" /\ Creating(f) THEN "home" ELSE cursor
    /\ UNCHANGED <<result, env>>

(* Mutant: a record that does not end well is refused, whatever was sent.     *)
MalformedRefused ==
    /\ result = "busy"
    /\ IF todo # <<>> THEN Current.len < 3 ELSE rest # NoRest
    /\ Return("BAD")

(* A length below three, or more than what is left, or a single byte.         *)
Malformed ==
    /\ result = "busy"
    /\ IF todo # <<>> THEN Current.len < 3 ELSE rest # NoRest
    /\ Return(IF rv THEN "OUTPUT" ELSE "BAD")

EndOfRecord ==
    /\ result = "busy" /\ todo = <<>> /\ rest = NoRest
    /\ Return(IF rv THEN "OUTPUT" ELSE IF bad_cmd THEN "BAD" ELSE "NO_OUTPUT")

(* The response goes out, and with it what only this record needed.           *)
Respond ==
    /\ result \notin {NoRecord, "busy"}
    /\ result' = NoRecord /\ todo' = <<>> /\ rest' = NoRest /\ rv' = FALSE /\ bad_cmd' = FALSE
    /\ out' = <<>> /\ asked' = <<>> /\ cursor' = "away"
    /\ UNCHANGED <<reply_mode, crm_nattr, env>>

Next == Receive \/ StructuredField \/ Malformed \/ EndOfRecord \/ Respond

Spec == Init /\ [][Next]_vars

-----------------------------------------------------------------------------
TypeOK ==
    /\ todo \in Seq(Field) /\ rest \in Rests /\ rv \in BOOLEAN /\ bad_cmd \in BOOLEAN
    /\ result \in {"none", "busy", "OUTPUT", "NO_OUTPUT", "BAD"}
    /\ reply_mode \in {"FIELD", "XFIELD", "CHAR"} /\ crm_nattr \in Nat /\ cursor \in {"away", "home"}

Answers == SelectSeq(out, LAMBDA r : r.aid # "TRANSFER")

(* What a correct terminal is asked for, said without the order of the tests. *)
Asks(f) == /\ f.id = "READ_PART" /\ f.len >= 5
           /\ \/ f.part = "all" /\ f.type = "QUERY"
              \/ f.part = "all" /\ f.type = "QLIST" /\ f.len >= 6 /\ f.req \in {"LIST", "EQUIV", "ALL"}
              \/ f.part = "0" /\ f.type \in {"RMA", "RB", "RM"}

(* The response matches what was sent: a record is refused only if nothing    *)
(* but data of a transfer went out for it, output is claimed exactly if there *)
(* was some, and each good request got one record, also if a bad field or     *)
(* bytes that are no field come after it (write_structured_field).            *)
ResponseFits ==
    /\ result = "BAD" => Answers = <<>>
    /\ result \in {"OUTPUT", "NO_OUTPUT"} => (result = "OUTPUT" <=> Answers # <<>>)
    /\ Len(Answers) = Len(SelectSeq(asked, Asks))

Codes(record) == {record.replies[i].code : i \in DOMAIN record.replies}

(* What the k-th answer was for is answered: all the summary counts, or what  *)
(* is listed of them, or the null reply (sf_read_part, do_qr_summary).        *)
QueriesAnswered ==
    LET good == SelectSeq(asked, Asks)
    IN  \A k \in DOMAIN Answers :
            LET f == good[k]
                a == Answers[k]
            IN  CASE f.part = "0" -> a.aid = "QREPLY"
                  [] f.type = "QLIST" /\ f.req = "LIST" ->
                        /\ Cardinality(Codes(a)) = Len(a.replies)
                        /\ Codes(a) = IF f.codes \cap Range(replies) = {} THEN {"NULL"}
                                      ELSE f.codes \cap Range(replies)
                  [] OTHER -> "NULL" \notin Codes(a) /\ a.replies[1].len = Header + Len(a.replies)

(* Every reply keeps within the space asked for it, and the one of RPQ names  *)
(* within its one byte of length, whatever the options (do_qr_rpqnames).      *)
RepliesFit ==
    /\ \A i \in DOMAIN out : \A j \in DOMAIN out[i].replies :
           out[i].replies[j].len <= Header + Reserved(out[i].replies[j].code)
    /\ RpqInfo <= 255

(* Together: the terminal answers what it is asked, and says so.              *)
FieldsAnswered == TypeOK /\ ResponseFits /\ QueriesAnswered /\ RepliesFit
=============================================================================
