------------------------- MODULE MCTopologyRegistry -------------------------
EXTENDS TopologyRegistry

\* Two topologies, one of which a second root defines alike, a third in another
\* way; a root with a file that does not parse, and one without files.
MCRootLists == {<<"stock", "more", "stock">>, <<"other">>, <<"stock", "other">>,
                <<"broken">>, <<"empty">>, <<NoRoot>>}
MCDefaultRoots == <<"more">>

MCFilesBelow(root) ==
    CASE root = "stock" -> {1, 2} [] root = "more" -> {3, 5} [] root = "other" -> {4}
      [] root = "broken" -> {5, 6} [] OTHER -> {}

MCFile(path) ==
    CASE path = 1 -> [name |-> "FCC", shape |-> "twelve"]
      [] path = 2 -> [name |-> "bcc", shape |-> "fourteen"]
      [] path = 3 -> [name |-> "FCC", shape |-> "twelve"]
      [] path = 4 -> [name |-> "fcc", shape |-> "eight"]
      [] path = 5 -> [name |-> "hcp", shape |-> "twelve again"]
      [] path = 6 -> [name |-> "hcp", shape |-> Malformed]

MCNames == {"FCC", "fcc", "bcc"}
MCKey(name) == IF name = "FCC" THEN "fcc" ELSE name
=============================================================================
