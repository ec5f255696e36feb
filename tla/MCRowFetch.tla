----------------------------- MODULE MCRowFetch -----------------------------
(* An instance of RowFetch: two columns whose names the service may give in *)
(* another case and another order.                                          *)
EXTENDS RowFetch

MCFold   == [n \in {"", "A", "a", "b", "c"} |-> IF n = "A" THEN "a" ELSE n]
MCTypeOf == [n \in {"", "A", "a", "b", "c"} |-> IF n = "b" THEN "date" ELSE "string"]

item(k, p, t) == [kind |-> k, prefix |-> p, text |-> t]

full   == << <<"a", item("string", "", "1")>>, <<"b", item("string", "11", "2")>> >>
long   == << <<"b", item("null", "none", "")>>, <<"a", item("string", "none", "long")>> >>
half   == << <<"b", item("number", "none", "3")>> >>
MCCatalogOrder == { <<"b", "A">>, <<"A">> }
MCSignature    == { <<"a", "b">>, <<"b", "a">>, <<"c", "a">> }
MCDocument     == { full, long, half }
=============================================================================
