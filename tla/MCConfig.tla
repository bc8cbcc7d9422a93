------------------------------ MODULE MCConfig ------------------------------
(***************************************************************************)
(* Config on two files: a section, a comment inside it, the section        *)
(* without a name, a line with "[" that is none, a key repeated and a key  *)
(* that contains its section.                                              *)
(***************************************************************************)
EXTENDS Config

MCLine(first, last, eq, name, key, value) ==
    [first |-> first, last |-> last, eq |-> eq, name |-> name, key |-> key,
     value |-> value]
Comment == MCLine("#", "x", TRUE, << >>, <<"port">>, "0")
Section(s) == MCLine("[", "]", FALSE, s, << >>, "")
Pair(k, v) == MCLine("p", "x", TRUE, << >>, k, v)
Open == MCLine("[", "x", FALSE, << >>, << >>, "")

MCContents ==
    {<<Section(<<"server">>), Comment, Pair(<<"port">>, "1"), Pair(<<"name">>, "")>>,
     <<Pair(<<"server", "port">>, "1"), Section(<<"server">>), Open,
       Pair(<<"port">>, "2"), Section(<< >>), Pair(<<"name">>, "one")>>}
MCKeys == {<<"server", "port">>, <<"server", "name">>, <<"name">>}
MCValues == {"", "1", "2", "one"}
MCSets == {<<<<"server", "port">>, "2">>, <<<<"name">>, "one">>}
MCTypes == {"string", "int"}
MCConvertible == {<<"string", v>> : v \in MCValues} \cup {<<"int", "1">>, <<"int", "2">>}

\* The file of tests/test_config.cpp:22-43 in small.
TestContents ==
    {<<Section(<<"database">>), Pair(<<"host">>, "1"), Comment,
       Pair(<<"app_name">>, "one")>>}
TestKeys == {<<"database", "host">>, <<"database", "app_name">>, <<"app_name">>}
TestSets == {}

\* A key after a comment such as "# Global settings" belongs to no section: once the
\* file is loaded, hasKey("app_name") and getString("app_name") find it
\* (tests/test_config.cpp:39-41, 58, 102).  It fails: config.cpp:53-73 ends a section
\* at the next section line only, so the key is database.app_name.
GlobalAfterComment ==
    result.op = "get" /\ result.loaded /\ result.key = <<"app_name">> => result.found
=============================================================================
