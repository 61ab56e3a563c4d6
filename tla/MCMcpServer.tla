---------------------------- MODULE MCMcpServer ----------------------------
(* An instance of McpServer for TLC, with the reader of its stdin. *)
EXTENDS McpServer, McpStdin

CONSTANTS s1, s2, tool, toolWithHelper, risky, signed, mild, loud, fatal

\* Two versions that differ only in a helper file share a hash.
Hash == [v \in Versions |-> IF v = toolWithHelper THEN tool ELSE v]
Verdict == [h \in Hashes |-> CASE h = risky -> "report" [] h = signed -> "critical" [] OTHER -> "clean"]
Worst == [c \in Codes |-> CASE c = mild -> "medium" [] c = loud -> "high" [] c = fatal -> "critical"]

\* The default, the supply-chain block, automatic approval, and no scanning.
Settings == {[block |-> TRUE, level |-> 3, approve |-> FALSE],
             [block |-> FALSE, level |-> 3, approve |-> TRUE],
             [block |-> FALSE, level |-> 2, approve |-> TRUE]}

\* A skill that was never installed, and one installed from the official source.
Workspace == [s \in Skills |-> IF s = s1 THEN risky ELSE tool]
Installed == [s \in Skills |-> IF s = s1 THEN None ELSE [version |-> tool, source |-> "official"]]

\* The reader is asked about every input before the first request comes.
Connect == Init /\ ReaderInit
Serving ==
  \/ stdin = Empty /\ Next /\ UNCHANGED reader
  \/ Init /\ ReaderNext /\ UNCHANGED vars
ServerSpec == Connect /\ [][Serving]_<<vars, reader>>
=============================================================================
