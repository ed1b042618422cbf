------------------------------ MODULE Resource ------------------------------
(***************************************************************************)
(* What one poll of res_check makes of the table `resource`: the query and *)
(* the text it leaves in the static buffer (ac/sql.c), and the range that  *)
(* res_ip_reload (ac/resource.c) finds in the fields read from that text.  *)
(***************************************************************************)
EXTENDS Json, IpRange

CONSTANTS tables,   \* the table's columns as they were when the AC started
          Table,    \* the rows the table may hold, a text or NULL per column
          NoRow,    \* no row, or no answer: sql_query returned -1
          NULL,
          Dotted    \* inet_aton: the texts it takes for an address, as words

\* What printf makes of a NULL column, and what res_ip_reload compares with.
SQL_NULL == "(null)"

ASSUME ResourceAssumption ==
    /\ tables \in Seq(Run) /\ SQL_NULL \in Run
    /\ NoRow \notin Table
    /\ \A row \in Table : /\ DOMAIN row = DOMAIN tables
                          /\ \A i \in DOMAIN row : row[i] = NULL \/ row[i] \in Seq(Run \cup Mark)
    /\ DOMAIN Dotted \subseteq Run \ {SQL_NULL}
    /\ \A t \in DOMAIN Dotted : Dotted[t] \in Word
    /\ \A t \in DOMAIN Dotted \cup {SQL_NULL} : Width[t] < IPLEN

Shown(cell) == IF cell = NULL THEN <<SQL_NULL>> ELSE cell

\* The object made of a row.
RowText(row) ==
    LET upTo[i \in 0 .. Len(tables)] ==
            IF i = 0 THEN JSON_ENCODE_START
            ELSE JSON_ENCODE(upTo[i - 1], tables[i], Shown(row[i]))
    IN  JSON_ENCODE_END(upTo[Len(tables)])

sql_query_res_Ends(buffer, row) ==          \* faulty: ends an object that was not begun
    IF row = NoRow THEN <<"}">> ELSE RowText(row)

\* Without a row the buffer is left as it is.
sql_query_res(buffer, row) == IF row = NoRow THEN buffer ELSE RowText(row)

-----------------------------------------------------------------------------
(* res_ip_reload, up to the range.                                         *)

Blank == [f \in json_attrs |-> << >>]

\* inet_aton takes an address, alone or with white space and whatever follows it.
Address(v) ==
    /\ v # << >> /\ Head(v) \in DOMAIN Dotted
    /\ Len(v) > 1 => v[2] = "space"

\* NULL in the table, or not an address: "Resource ip error".
ResourceIpError(field) ==
    \E f \in json_attrs : field[f] = <<SQL_NULL>> \/ ~Address(field[f])

\* A field without a NUL runs on into the one behind it, resource.ip_* and resource.bak_*
\* alike, so that strcmp and strcpy (res_ip_equ_bak) work as if it had one. Behind ip_mask
\* is bak_start, and strcpy to bak_mask, the last field, then writes past resource.
RunsOver(field) == Seqs!Last(field["ip_mask"]) = "unended"

\* A netmask as the size of its nets, ~mask + 1.
RangeOf(field) ==
    LET inet_aton(f) == Dotted[Head(field[f])]
    IN  [start |-> inet_aton("ip_start"), end |-> inet_aton("ip_end"),
         hosts |-> 2 ^ W - inet_aton("ip_mask")]

-----------------------------------------------------------------------------
\* What the row says, column by column, without the text in between.
FieldsOf(row) ==
    [f \in json_attrs |-> Shown(row[CHOOSE i \in DOMAIN tables : tables[i] = f])]

\* Nothing in the row has a mark that ends or continues a string.
Plain(row) ==
    \A i \in DOMAIN tables : row[i] # NULL => \A k \in DOMAIN row[i] :
                                 row[i][k] \notin {"quote", "escape"}

\* The bytes of a text.
Length(v) ==
    LET upTo[i \in 0 .. Len(v)] == IF i = 0 THEN 0 ELSE upTo[i - 1] + Chars(v[i])
    IN  upTo[Len(v)]

\* No longer than the parser takes (lib/mjson.c:371); and with room for the NUL (518).
\* The columns are varchar(15) in utf8 (scripts/ac.sql:30-34), up to 45 bytes.
Readable(row) == \A i \in DOMAIN tables : Length(Shown(row[i])) <= IPLEN
Short(row) == \A i \in DOMAIN tables : Length(Shown(row[i])) < IPLEN

\* The table as scripts/ac.sql makes it: a column per field, the names as short as the
\* parser wants them.
Schema ==
    /\ {tables[i] : i \in DOMAIN tables} = json_attrs
    /\ \A i, j \in DOMAIN tables : tables[i] = tables[j] => i = j
    /\ \A i \in DOMAIN tables : Width[tables[i]] <= JSON_ATTR_MAX - 1

\* What is configured has a netmask, and not 0.0.0.0: every row that is taken for a range.
MasksSet ==
    \A row \in Table :
        LET read == json_read_object(RowText(row))
        IN  read.status = "ok" /\ ~ResourceIpError(read.field) => IsNetmask(RangeOf(read.field))
=============================================================================
