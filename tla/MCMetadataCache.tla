--------------------------- MODULE MCMetadataCache ---------------------------
\* TLC instance of MetadataCache
EXTENDS MetadataCache

Setting(shared, kind, periodic, slash) ==
    [shared |-> shared, kind |-> kind, periodic |-> periodic, slash |-> slash]

\* Independent and shared storage; a periodic archive of a file system is left out, since its
\* thread outlives the abort and may replace the final archive
CacheSettings == {Setting(FALSE, "file", FALSE, FALSE), Setting(FALSE, "cloud", TRUE, TRUE),
                  Setting(TRUE, "cloud", TRUE, TRUE), Setting(FALSE, "cloud", TRUE, FALSE)}

=============================================================================
