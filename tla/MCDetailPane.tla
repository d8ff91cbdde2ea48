---------------------------- MODULE MCDetailPane ----------------------------
\* Instance of DetailPane: the log table, and a static section.
EXTENDS DetailPane

MCSections == {"Logs", "Storage"}
MCEntries == {1, 2}
MCQueries == {{2}}
MCKnownNoise == {1}
MCCollections == {<<2, 1>>, <<1, 1>>}
=============================================================================
