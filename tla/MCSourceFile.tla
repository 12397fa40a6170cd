---------------------------- MODULE MCSourceFile ----------------------------
(* Files of both languages, with and without tests, and the lines worth      *)
(* writing in them.                                                          *)
EXTENDS SourceFile

PyTest == [stem |-> "app", js |-> FALSE]
JsTest == [stem |-> "app", js |-> TRUE]

MCFile ==
    {[js |-> FALSE, stem |-> "app", test |-> FALSE, tests |-> {JsTest}, crlf |-> FALSE],
     [js |-> FALSE, stem |-> "app", test |-> TRUE, tests |-> {PyTest, JsTest}, crlf |-> TRUE]}
    \cup {[js |-> TRUE, stem |-> "app", test |-> t, tests |-> ts, crlf |-> FALSE] :
              t \in BOOLEAN, ts \in {{PyTest}, {JsTest}}}

L(is, of, deep) == [is |-> is, of |-> of, deep |-> deep]

\* An import of datetime and timezone together is what an applied draft makes.
MCPyLine ==
    {L("import", n, d) : n \in {"datetime", "timezone"}, d \in BOOLEAN}
    \cup {L(k, "datetime.utcnow()", FALSE) : k \in {"use", "split", "bind", "mention"}}
    \cup {L("import", "other", FALSE), L("bind", "aware", FALSE), L("compare", "name", FALSE)}
    \cup {L(k, "-", FALSE) : k \in {"except", "separator", "broken"}}

MCJsLine == {L("use", c, FALSE) : c \in DateCall} \cup {L("keyword", "-", FALSE)}
=============================================================================
