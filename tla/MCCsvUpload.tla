----------------------------- MODULE MCCsvUpload -----------------------------
(* Every line of up to five of the signs below, of up to four before a line *)
(* that has enough fields, and every small table in every style.             *)
EXTENDS CsvUpload, SequencesExt

MCSigns == {Quote, Comma, CR, "x"}
MCTokens == MCSigns \cup {Blank, Null, "y", "z", "name", "Name"}
MCLine == <<"y", Comma, "z", Comma, "z">>
MCRaw == {<<l>> : l \in BoundedSeq(MCSigns, 5)} \cup {<<l, MCLine>> : l \in BoundedSeq(MCSigns, 4)}

MCValues == {<<>>, <<"x">>, <<"x", Comma, "y">>, <<Blank, "x">>, <<Null>>, <<Null, "x">>, <<"name">>}
MCRow == <<<<"x">>, <<"y">>, <<"z">>>>
MCRows == UNION {[1..n -> MCValues] : n \in 1..3}
MCShort == {<<>>, <<<<"x">>>>, <<<<"name">>, <<"x">>>>, <<<<"Name">>, <<>>, <<"x">>, <<"y">>>>}
MCTables == {<<r>> : r \in MCRows} \cup {<<r, s>> : r \in MCShort \cup {MCRow}, s \in MCShort \cup {MCRow}}

MCFiles == MCRaw \cup {Written(t, s) : t \in MCTables, s \in Styles}
=============================================================================
