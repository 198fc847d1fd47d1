--------------------------- MODULE MCStorageServer ---------------------------
(* Instances of StorageServer for TLC.                                     *)
EXTENDS StorageServer, TLC

\* The calls the tests make before they start the servers.
TestBoot == <<"init">>
\* The order the comment on backend_choose asks for.
DocumentedBoot == <<"backend_choose", "init">>
\* The calls of storage/bin/main.cc, lines 20 and 21.
MainBoot == <<"init", "backend_choose">>

Symmetry == Permutations(TaskId) \cup Permutations(Content)
=============================================================================
