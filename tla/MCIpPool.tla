------------------------------ MODULE MCIpPool ------------------------------
(***************************************************************************)
(* IpPool for TLC, with addresses of four bits and nets of eight of them.  *)
(***************************************************************************)
EXTENDS IpPool, TLC

MCtables == <<"ip_start", "ip_end", "ip_mask">>

\* Addresses (8 to 15 in one net), the mask of that net, a text that is none.
MCDotted == "8" :> 8 @@ "10" :> 10 @@ "11" :> 11 @@ "14" :> 14 @@ "15" :> 15 @@ "mask" :> 8
MCRun == DOMAIN MCDotted \cup {"ip_start", "ip_end", "ip_mask", "(null)", "none", "id", "note"}
MCWidth == [t \in MCRun |-> CASE t = "(null)" -> 6 [] t = "note" -> 11 [] OTHER -> 8]
MCCoded == "none" :> "space" @@ "note" :> "space"

\* From the net address on; up to the broadcast address, with a text that fills its
\* field; one that ends before it starts; one that is not set; one with a quote that was
\* not escaped, one whose mask fills its field, one with a text that is too long.
MCTable == {<<<<"8">>, <<"11">>, <<"mask">>>>,
            <<<<"14", "space", "note">>, <<"15">>, <<"mask">>>>,
            <<<<"11">>, <<"10">>, <<"mask">>>>, <<<<"8">>, NULL, <<"mask">>>>,
            <<<<"8", "quote">>, <<"11">>, <<"mask">>>>,
            <<<<"8">>, <<"11">>, <<"mask", "space", "note">>>>,
            <<<<"8">>, <<"11", "space", "space", "note">>, <<"mask">>>>}

\* The rows above are rows of the table that the AC is installed with, and have netmasks.
ASSUME SchemaHolds == Schema
ASSUME MasksHold == MasksSet

\* Entries and APs are told apart by what happens to them only.
MCSymmetry == Permutations(Entry) \cup Permutations(Mac)

\* The arithmetic of res_ip_reload (ac/resource.c:232-258) for every range of
\* five-bit addresses, not only those above: what is loaded is what is usable if
\* first and last address are in one net and the count fits an int; and in no case
\* is a net or broadcast address loaded, or one outside the first address's net.
R == INSTANCE IpRange WITH W <- 5
ASSUME EveryRange ==
    \A c \in R!Ranges :
        LET added == {R!Load(c)[i] : i \in DOMAIN R!Load(c)}
        IN  R!IsNetmask(c) =>
              /\ R!OneNet(c) /\ R!CountFits(c) =>
                    IF R!Refused(c) THEN R!Usable(c) = {} ELSE added = R!Usable(c)
              /\ ~R!Refused(c) =>
                    \A x \in added : x % c.hosts \notin {0, c.hosts - 1}
                                     /\ R!Net(c, x) = R!Net(c, c.start)

\* The way of a row through the text and back (ac/sql.c:64-71, include/mjson.h:147-165,
\* lib/mjson.c:179-577), for every value of up to two atoms in any column: it comes back
\* as it was, whatever marks are in it, unless there is a quote or a backslash or no room
\* for its NUL. And a row is read without an error unless there is one of the two or a
\* text longer than its field, which the columns, varchar(15) in utf8, do not rule out.
MCValue == {<< >>} \cup {<<a>> : a \in Mark \cup {"8", "none", "note"}}
                  \cup {<<a, b>> : a, b \in Mark \cup {"8", "none", "note"}}
MCRows == UNION {{[r EXCEPT ![i] = v] : v \in MCValue \cup {NULL}} : i \in 1 .. 3, r \in MCTable}
ASSUME EveryRow ==
    \A r \in MCRows :
        Plain(r) =>
            LET read == json_read_object(RowText(r))
            IN  /\ (read.status = "ok") = Readable(r)
                /\ Readable(r) => (read.field = FieldsOf(r)) = Short(r)

\* A value of IPLEN bytes is taken, though its field has no room for the NUL then; a
\* longer one is refused (lib/mjson.c:371, 518). After a backslash the first character
\* is not counted against the room.
ASSUME LongValue ==
    LET read(v) == json_read_object(RowText(<<v, <<"8">>, <<"mask">>>>))
    IN  /\ read(<<"8", "note">>).field["ip_start"] = <<"8", "note">>
        /\ read(<<"8", "space", "note">>).field["ip_start"]
              = <<"8", "space", "note", "unended">>
        /\ read(<<"8", "space", "note", "space">>).status = "STRLONG"
        /\ read(<<"8", "space", "note", "escape", ":">>).status = "ok"
        /\ read(<<"8", "space", "space", "escape", "note">>).status = "STRLONG"

\* With a column the AC does not know no row can be read (lib/mjson.c:305); a text that
\* ends after a value is read, the value not (lib/mjson.c:257, 549).
ASSUME OtherTexts ==
    /\ json_read_object(JSON_ENCODE_END(JSON_ENCODE(JSON_ENCODE_START, "id", <<"8">>))).status
          = "BADATTR"
    /\ json_read_object(<<"{", "quote", "ip_end", "quote", ":", "quote", "8", "quote">>)
          = [status |-> "ok", field |-> Blank]
=============================================================================
