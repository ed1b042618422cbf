-------------------------------- MODULE Json --------------------------------
(***************************************************************************)
(* The JSON text between the database and the address pool: the macros     *)
(* that write a row as an object (include/mjson.h) and the object parser   *)
(* that reads it back (lib/mjson.c), as far as a table of string fields    *)
(* (json_attrs, ac/resource.h) uses it.                                    *)
(*                                                                         *)
(* A text is a sequence of atoms: a Mark is one character the parser looks *)
(* for, a Run is a longest piece of other characters. The writer escapes   *)
(* nothing, so marks inside a value come out as they are.                  *)
(***************************************************************************)
EXTENDS Integers, Sequences
Seqs == INSTANCE SequencesExt

CONSTANTS Run,      \* names and values without a mark in them
          Width,      \* their lengths in bytes
          Coded       \* of those that begin with b, f, n, r, t or u: what that letter
                      \* stands for after a backslash, white space or something else

Mark == {"{", "}", "[", ":", ",", "quote", "escape", "space"}

\* What besides can be in a field: a control character; no NUL (StoreString).
Odd == {"control", "unended"}

ASSUME JsonAssumption ==
    /\ Run \cap (Mark \cup Odd) = {}
    /\ DOMAIN Coded \subseteq Run /\ \A a \in DOMAIN Coded : Coded[a] \in {"space", "control"}
    /\ Width \in [Run -> Nat \ {0}]

\* The fields of resource, each with room for IPLEN bytes.
json_attrs == {"ip_start", "ip_end", "ip_mask"}
IPLEN == 20
JSON_ATTR_MAX == 31
JSON_VAL_MAX == 512

Chars(a) == IF a \in Run THEN Width[a] ELSE 1

-----------------------------------------------------------------------------
(* Writing.                                                                *)

JSON_ENCODE_START == <<"{">>
JSON_ENCODE(buf, key, value) ==
    buf \o <<"quote", key, "quote", ":", "quote">> \o value \o <<"quote", ",">>
JSON_ENCODE_END(buf) == Append(IF Seqs!Last(buf) = "," THEN Seqs!Front(buf) ELSE buf, "}")

-----------------------------------------------------------------------------
(* Reading: what one atom does to the parser p. st is its state, attr and  *)
(* val what attrbuf and valbuf hold, n the characters in the one being     *)
(* filled, field the fields, which start out blank.                        *)

ReadStart == [st |-> "init", status |-> "ok", attr |-> << >>, val |-> << >>, n |-> 0,
              quoted |-> FALSE, field |-> [f \in json_attrs |-> << >>]]

Fails(p, error) == [p EXCEPT !.st = "stop", !.status = error]

InInit(p, a) ==
    CASE a = "space" -> p
      [] a = "{"     -> [p EXCEPT !.st = "await_attr"]
      [] OTHER       -> Fails(p, "OBSTART")

\* A closing brace here ends nothing: the parser goes on awaiting a name.
AwaitAttr(p, a) ==
    CASE a \in {"space", "}"} -> p
      [] a = "quote"          -> [p EXCEPT !.st = "in_attr", !.attr = << >>, !.n = 0]
      [] OTHER                -> Fails(p, "ATTRSTART")

InAttr(p, a) ==
    CASE a = "quote" -> IF \E f \in json_attrs : p.attr = <<f>>
                        THEN [p EXCEPT !.st = "await_value"]
                        ELSE Fails(p, "BADATTR")
      [] a # "quote" /\ p.n + Chars(a) > JSON_ATTR_MAX - 1 -> Fails(p, "ATTRLEN")
      [] OTHER       -> [p EXCEPT !.attr = Append(@, a), !.n = @ + Chars(a)]

AwaitValue(p, a) ==
    CASE a \in {"space", ":"} -> p
      [] a = "["     -> Fails(p, "NOARRAY")
      [] a = "quote" -> [p EXCEPT !.st = "in_val_string", !.val = << >>, !.n = 0, !.quoted = TRUE]
      [] OTHER       -> [p EXCEPT !.st = "in_val_token", !.val = <<a>>, !.n = Chars(a),
                                  !.quoted = FALSE]

\* The last character of a may still go to valbuf + maxlen, maxlen = IPLEN - 1.
InValString(p, a) ==
    CASE a = "escape" -> [p EXCEPT !.st = "in_escape"]
      [] a = "quote"  -> [p EXCEPT !.st = "post_val"]
      [] a \notin {"escape", "quote"} /\ p.n + Chars(a) - 1 > IPLEN - 1 -> Fails(p, "STRLONG")
      [] OTHER        -> [p EXCEPT !.val = Append(@, a), !.n = @ + Chars(a)]

\* What follows stands for itself unless it is one of the letters with a meaning, which
\* is then in front of the rest of its run (\uXXXX counts as long as it is written). Its
\* first character is taken unchecked, the others as above.
Meant(a) == IF a \in DOMAIN Coded THEN <<Coded[a], a>> ELSE <<a>>
InEscape(p, a) ==
    IF Chars(a) > 1 /\ p.n + Chars(a) - 1 > IPLEN - 1 THEN Fails(p, "STRLONG")
    ELSE [p EXCEPT !.st = "in_val_string", !.n = @ + Chars(a), !.val = @ \o Meant(a)]

\* After a value: it is stored, whatever comes next, and then a comma or the end. One
\* that fills its field is stored without a NUL (strncpy) and runs on into the field
\* behind it. (Longer ones, made of escapes, are cut to the field: not modelled.)
StoreString(p) ==
    [p EXCEPT !.field[Head(p.attr)] = IF p.n < IPLEN THEN p.val ELSE Append(p.val, "unended")]

Trail(p, a) ==
    CASE a = "space" -> p
      [] a = ","     -> [p EXCEPT !.st = "await_attr"]
      [] a = "}"     -> [p EXCEPT !.st = "stop"]
      [] OTHER       -> Fails(p, "BADTRAIL")

PostVal(p, a) == IF p.quoted THEN Trail(StoreString(p), a) ELSE Fails(p, "NONQSTRING")

InValToken(p, a) ==
    CASE a = "space"      -> [p EXCEPT !.st = "post_val"]
      [] a \in {",", "}"} -> PostVal([p EXCEPT !.st = "post_val"], a)
      [] a \notin {"space", ",", "}"} /\ p.n + Chars(a) - 1 > JSON_VAL_MAX - 1 ->
            Fails(p, "TOKLONG")
      [] OTHER            -> [p EXCEPT !.val = Append(@, a), !.n = @ + Chars(a)]

ReadAtom(p, a) ==
    CASE p.st = "init"          -> InInit(p, a)
      [] p.st = "await_attr"    -> AwaitAttr(p, a)
      [] p.st = "in_attr"       -> InAttr(p, a)
      [] p.st = "await_value"   -> AwaitValue(p, a)
      [] p.st = "in_val_string" -> InValString(p, a)
      [] p.st = "in_escape"     -> InEscape(p, a)
      [] p.st = "in_val_token"  -> InValToken(p, a)
      [] p.st = "post_val"      -> PostVal(p, a)
      [] p.st = "stop"          -> p

\* A text that ends early is as good as one that ends in a brace; only the value
\* after which nothing came is not stored.
json_read_object(text) ==
    LET upTo[i \in 0 .. Len(text)] ==
            IF i = 0 THEN ReadStart ELSE ReadAtom(upTo[i - 1], text[i])
        p == upTo[Len(text)]
    IN  [status |-> p.status, field |-> p.field]
=============================================================================
