----------------------------- MODULE MCRecords ------------------------------
EXTENDS Records

\* A chain of records above record 1, which holds a number; record 3 may hold record 1
\* directly, in one field or the other.  Records 1 and 2 also hold strings, one of them
\* with a prefix; all strings are in one bucket.
MCStores ==
  [r \in Ids |->
    [c \in Columns |->
      CASE r = 1 /\ c = 1 -> {Num(1), Num(2)}
        [] r > 1 /\ c = 1 -> {Null} \cup {Link(q) : q \in {r - 1} \cup (IF r = 3 THEN {1} ELSE {})}
        [] r = 1 /\ c = 2 -> {Null, Text("uri")}
        [] r = 2 /\ c = 2 -> {Text("prefix")}
        [] r = 3 /\ c = 2 -> {Null, Link(1)}
        [] OTHER -> {Null}]]

MCExtra == [s \in Texts |-> IF s = "uri" THEN "prefix" ELSE NoText]
MCHash == [s \in Texts |-> 1]
=============================================================================
