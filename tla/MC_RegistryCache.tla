-------------------------- MODULE MC_RegistryCache --------------------------
(* A small instance of RegistryCache for TLC.                              *)
EXTENDS RegistryCache

Entry(name, size) == [name |-> name, size |-> size]

\* Names: 0 a README, 1 and 2 binaries of this provider, 3 a prefixed name that
\* is not this provider's, 4 a prefixed name with a directory in it, 5 one that
\* leaves its directory again and ends at 1.
\* Archives: two releases of the version, the first with an entry of just the
\* limit; one with an oversized entry and a
\* foreign name; one too big to download; one with an unsafe name.
Zips == [a \in Archives |->
    CASE a = "one"  -> [size |-> 2, entries |-> <<Entry(0, 1), Entry(2, 2), Entry(3, 1)>>]
      [] a = "two"  -> [size |-> 1, entries |-> <<Entry(5, 1)>>]
      [] a = "deep" -> [size |-> 2, entries |-> <<Entry(3, 3), Entry(2, 1)>>]
      [] a = "big"  -> [size |-> 3, entries |-> <<Entry(2, 1)>>]
      [] a = "path" -> [size |-> 1, entries |-> <<Entry(4, 1), Entry(2, 1)>>]]

Line(f, h) == [file |-> f, hash |-> h]

Spellings == [n \in Names |-> IF n = 5 THEN 1 ELSE n]

\* SHA256SUMS of the release, of its replacement, and one that names a file twice.
Documents == [d \in Sums |->
    CASE d = "first"  -> <<Line("f", "one"), Line("h", "deep"), Line("b", Null)>>
      [] d = "second" -> <<Line("f", "two"), Line("g", "path")>>
      [] d = "double" -> <<Line("f", "two"), Line("f", "one"), Line("h", "deep")>>]

Described(f, a, keys, url) ==
    [file |-> f, shasum |-> a, keys |-> keys, signatureURL |-> url]

Offers == {Described("f", "one", <<TRUE>>, TRUE), Described("f", "two", <<TRUE>>, TRUE),
           Described("h", "deep", <<TRUE, TRUE>>, TRUE),
           Described("g", "path", <<TRUE>>, TRUE),
           Described("f", "one", <<TRUE, FALSE>>, TRUE),
           Described("h", "deep", <<TRUE>>, FALSE)}

\* No plugin directory, or one with matches.
Plugged == {{}, {2, 3}}

\* A registry that answers, and one whose archives stall.
Stalls == {{}, {"archive"}}

\* Nothing in the way, or a link where a binary goes.
Odd == {{}, {2}}
=============================================================================
