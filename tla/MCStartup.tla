----------------------------- MODULE MCStartup -----------------------------
(* Up to two Stations, so the second may be remembered in a list of one.     *)
(* Every stations.csv of at most three lines out of those below, and a       *)
(* config.json for each kind of mistake.  2^63 is scaled to 2^13.            *)
EXTENDS Startup

Lines ==
    {Header, <<"">>, <<"#">>,
     <<"n", "u", "l">>, <<"n", "u", "">>, <<"", "u", "l">>, <<"n", "", "l">>, <<"n", "u">>}

\* A byte order mark in front.
FirstLines == {<<"BOM name", "url", "logo">>, <<"BOM">>, <<"BOM #">>}

StationFiles ==
    {Unusable, <<>>} \cup
    {<<first>> \o rest : first \in Lines \cup FirstLines, rest \in UNION {[1 .. n -> Lines] : n \in 0 .. 2}}

ConfigFiles ==
    {None, Unusable} \cup
    {[tft_brightness |-> v] : v \in {0, 100, 101, NotWhole}} \cup
    {[lcd_scroll_ms |-> v] : v \in {49, 5000, -300, 2 * Half - 1}} \cup
    {[tft_brightness |-> 40, lcd_scroll_ms |-> 50], [lcd_scroll |-> 50]}

MCEdits ==
    {[config |-> c, stations |-> <<Header, <<"n", "u", "l">>>>] : c \in ConfigFiles} \cup
    {[config |-> None, stations |-> s] : s \in StationFiles}

MCMarked ==
    [field \in {"BOM name", "BOM", "BOM #"} |->
        CASE field = "BOM name" -> "name" [] field = "BOM #" -> "#" [] field = "BOM" -> ""]

MCSavedStations == 0 .. 1
=============================================================================
