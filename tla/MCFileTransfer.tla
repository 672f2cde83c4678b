---------------------------- MODULE MCFileTransfer ----------------------------
(* FileTransfer for TLC: four codes of the real tables, with NUL, both parts  *)
(* of a line end, and '/', which two quadrants have.  Or, in other            *)
(* behaviours, the structured fields that carry the data of DFT transfers.    *)
EXTENDS FileTransfer

CONSTANTS Fields, Rests, MaxFields, Environments, VersionLength

VARIABLES part, todo, rest, rv, bad_cmd, result, out, asked, reply_mode, crm_nattr, cursor, env

fieldVars == <<todo, rest, rv, bad_cmd, result, out, asked, reply_mode, crm_nattr, cursor, env>>

Sf == INSTANCE StructuredFields

(* ';', '=', '*' and ' *)
MCSelector == <<94, 126, 92, 125>>

(* The codes of A, K, N, a and '/'. *)
Row(A, K, N, a, slash) ==
    [code \in {193, 210, 213, 129, 97} |->
        CASE code = 193 -> A [] code = 210 -> K [] code = 213 -> N
          [] code = 129 -> a [] code = 97 -> slash]

MCConv == <<Row(193, 210, 213, 129, 97),
            Row(65, 75, 78, 97, 47),
            Row(0, 10, 13, 0, 31),
            Row(160, 170, 173, 128, 191)>>

MCContents == {<<97, 0, 97>>, <<13, 10, 10>>, <<10, 97>>}

(* One field of each sort, good, short, and bad.                              *)
F(id, len, p, type, req, codes) ==
    [id |-> id, len |-> len, part |-> p, type |-> type, req |-> req, codes |-> codes, attrs |-> 2]
MCFields ==
    {F("READ_PART", 5, "all", "QUERY", "-", {}), F("READ_PART", 5, "0", "QUERY", "-", {}),
     F("READ_PART", 4, "all", "QUERY", "-", {}), F("READ_PART", 5, "all", "QLIST", "-", {}),
     F("READ_PART", 6, "all", "QLIST", "LIST", {}), F("READ_PART", 8, "all", "QLIST", "LIST", {"COLOR", "DDM"}),
     F("READ_PART", 7, "all", "QLIST", "LIST", {"OEM"}), F("READ_PART", 6, "all", "QLIST", "ALL", {}),
     F("READ_PART", 6, "all", "QLIST", "other", {}), F("READ_PART", 5, "0", "RM", "-", {}),
     F("READ_PART", 0, "all", "QUERY", "-", {}), F("ERASE_RESET", 4, "other", "ALT", "-", {}),
     F("ERASE_RESET", 0, "other", "ALT", "-", {}), F("SET_REPLY_MODE", 7, "0", "CHAR", "-", {}),
     F("SET_REPLY_MODE", 5, "0", "FIELD", "-", {}), F("CREATE_PART", 3, "other", "-", "-", {}),
     F("CREATE_PART", 5, "0", "badunits", "-", {}), F("OUTBOUND_DS", 7, "0", "EW", "badorder", {}),
     F("OUTBOUND_DS", 5, "0", "EAU", "-", {}), F("TRANSFER_DATA", 5, "other", "GET", "-", {}),
     F("OTHER", 3, "other", "-", "-", {}), F("OTHER", 2, "other", "-", "-", {})}
MCRests == {"nothing", "a byte"}

(* NOT, TIME, all but TIME, all with a long text, and one too long to fit.    *)
Term(no, of, all, value) == [no |-> no, of |-> of, all |-> all, value |-> value]
Every(value) == <<Term(FALSE, {}, TRUE, -1), Term(FALSE, {"USER"}, FALSE, value)>>
MCEnvironments ==
    [rpq : {<<>>, <<Term(FALSE, {"TIMESTAMP", "TIMEZONE"}, FALSE, -1)>>,
            Append(Every(3), Term(TRUE, {"TIMESTAMP", "TIMEZONE"}, FALSE, -1)),
            Every(200), Every(215), Every(300)},
     address : {16}, colors : {16}, standard_font : {FALSE}]
    \cup {[rpq |-> <<Term(FALSE, {}, TRUE, -1)>>, address |-> -1, colors |-> 8, standard_font |-> TRUE]}

MCInit == part \in {"transfer", "fields"} /\ Init /\ Sf!Init

MCNext == /\ \/ part = "transfer" /\ Next /\ UNCHANGED fieldVars
             \/ part = "fields" /\ Sf!Next /\ UNCHANGED vars
          /\ UNCHANGED part

(* The fairness of Spec. *)
MCSpec == /\ MCInit /\ [][MCNext]_<<vars, fieldVars, part>>
          /\ WF_vars(part = "transfer" /\ Terminal /\ UNCHANGED <<fieldVars, part>>)
          /\ WF_vars(part = "transfer" /\ Host /\ UNCHANGED <<fieldVars, part>>)

(* StructuredFields' property, under the name the configuration uses.         *)
FieldsAnswered == Sf!FieldsAnswered
=============================================================================
