--------------------------- MODULE MCSurroundings ---------------------------
(* Values for checking Surroundings: files that rotate at every line, at     *)
(* every second, or never; two level names, a number and a blank. With the   *)
(* functions that read a config, a record, a line.                           *)
EXTENDS Surroundings, MCBackends, Configuration, Records, Logfmt

Files == [maxBytes : 0..2, backupCount : {0, 1, 3}, gz : BOOLEAN]
SomeTexts == {"DEBUG", "ERROR", "10", ""}
SomeLevels == {"DEBUG", "ERROR"}
=============================================================================
