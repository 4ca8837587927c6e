------------------------------- MODULE MCLogger ------------------------------
(* Two callers log two lines that are stored and one that is only printed,   *)
(* through a ring that has no room for both.  A batch cuts the longer line,   *)
(* and a file is full after a batch or two.  A reload may make batches        *)
(* smaller, never larger: one file has a batch_size below the default, the    *)
(* other, as the shipped one (whose LOG_ASYNC section is not read), has none. *)
(* A batch reaches the flush limit of the one, and never the default.         *)
EXTENDS Logger

CONSTANTS p1, p2, l1, l2, m, INFO

MCCallers  == {p1, p2}
MCLines    == {l1, l2, m}
MCLengthOf == (l1 :> 1) @@ (l2 :> 3) @@ (m :> 1)
MCLevelOf  == (l1 :> INFO) @@ (l2 :> INFO) @@ (m :> MSG)

File(kb, bytes, limit, on) ==
  [max_file_size |-> kb, batch_size |-> bytes, max_flush_size |-> limit, levels |-> on]

MCConfigs == { File(1, Missing, Missing, {MSG, INFO}), File(Missing, 1, 1, {INFO}) }
=============================================================================
