---------------------------- MODULE Surroundings ----------------------------
(***************************************************************************)
(* What a logger deals with outside its process: the backends of its       *)
(* batches, the file it writes and rotates, its syslog sockets, and the    *)
(* sources its level is read from.  They share nothing, so a behaviour     *)
(* follows one of them, and the others stay as they were.                  *)
(***************************************************************************)
EXTENDS Backends, FileRotation, SyslogSocket, RuntimeLevel

VARIABLE subject
surroundings == <<subject, vars, fileVars, syslogVars, levelVars>>

Subjects == {"batches", "file", "syslog", "level"}

Follow(one, others, next) == subject = one /\ next /\ UNCHANGED <<subject, others>>

SurroundingsInit ==
    /\ subject \in Subjects
    /\ Init /\ FileInit /\ SyslogInit /\ LevelInit
    /\ subject # "batches" => setup = CHOOSE s \in Setups : TRUE
    /\ subject # "file" => file = CHOOSE f \in FileSetups : TRUE
    /\ subject # "syslog" => protocol = CHOOSE p \in Protocols : TRUE
    /\ subject # "level" => level = CHOOSE l \in LevelNames : TRUE

SurroundingsNext ==
    \/ Follow("batches", <<fileVars, syslogVars, levelVars>>, Next)
    \/ Follow("file", <<vars, syslogVars, levelVars>>, FileNext)
    \/ Follow("syslog", <<vars, fileVars, levelVars>>, SyslogNext)
    \/ Follow("level", <<vars, fileVars, syslogVars>>, LevelNext)

\* setInterval() fires as long as the process runs, and the watchers poll.
PollsGoOn == \A s \in Sources : WF_levelVars(subject = "level" /\ Poll(s))

SurroundingsSpec ==
    SurroundingsInit /\ [][SurroundingsNext]_surroundings /\ PollsGoOn

\* Every part keeps to its types, whatever step it takes.
SurroundingsTypeOK == BackendsTypeOK /\ FileTypeOK /\ SyslogTypeOK /\ LevelTypeOK
=============================================================================
