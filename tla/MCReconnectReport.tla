------------------------- MODULE MCReconnectReport -------------------------
(* Two groups (two thetas, one block size), two suspend buckets and two    *)
(* reconnect values.  A file is an optional stray run before any header    *)
(* and one or two sections (the same group may appear twice); a section   *)
(* holds up to two runs, each well formed (marker then value), a value    *)
(* without a marker, or a marker without a value.                          *)
EXTENDS ReconnectReport

MCThetas == <<"0.0", "0.1">>
MCBlocks == <<100>>
MCSuspend == <<40, 80>>
MCValues == {3, 12}

RunTokens == {<<Meta, Reconnect(v)>> : v \in MCValues}
               \cup {<<Reconnect(v)>> : v \in MCValues} \cup {<<Meta>>}
RunLists == {<<>>} \cup RunTokens
              \cup {a \o b : a \in RunTokens, b \in RunTokens}
Sections == {<<Header(g[1], g[2])>> \o r : g \in Groups, r \in RunLists}
Strays == {<<>>, <<Meta, Reconnect(12)>>}

MCInputs == {p \o s1 \o s2 : p \in Strays, s1 \in Sections,
                             s2 \in Sections \cup {<<>>}}
=============================================================================
