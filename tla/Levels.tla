------------------------------- MODULE Levels -------------------------------
(***************************************************************************)
(* The levels, what is read as one, and what they become elsewhere: the    *)
(* severities of syslog, Cloud Logging, Application Insights and           *)
(* OpenTelemetry, the console's two streams, and the levels of pino and    *)
(* winston on their way in.                                                *)
(***************************************************************************)
LOCAL INSTANCE Naturals

Level == [TRACE |-> 5, DEBUG |-> 10, INFO |-> 20, WARN |-> 30, ERROR |-> 40, FATAL |-> 50]
Names == DOMAIN Level

LevelName(weight) == CHOOSE name \in Names : Level[name] = weight
IsLevel(weight) == \E name \in Names : Level[name] = weight

\* What is given as a level: a text (a word, and how it is written) or a number.
Unknown == 0

ParseLevel(given) ==
    CASE given.type = "text"   -> IF given.word \in Names THEN Level[given.word] ELSE Unknown
      [] given.type = "number" -> IF IsLevel(given.number) THEN given.number ELSE Unknown

-----------------------------------------------------------------------------
(* Elsewhere *)

SyslogSeverity ==       \* the smaller, the worse
    [TRACE |-> 7, DEBUG |-> 7, INFO |-> 6, WARN |-> 4, ERROR |-> 3, FATAL |-> 2]
GcpSeverity ==
    [TRACE |-> "DEBUG", DEBUG |-> "DEBUG", INFO |-> "INFO", WARN |-> "WARNING",
     ERROR |-> "ERROR", FATAL |-> "CRITICAL"]
AppInsightsSeverity ==
    [TRACE |-> 0, DEBUG |-> 0, INFO |-> 1, WARN |-> 2, ERROR |-> 3, FATAL |-> 4]
SEVERITY_NUMBER ==
    [TRACE |-> 1, DEBUG |-> 5, INFO |-> 9, WARN |-> 13, ERROR |-> 17, FATAL |-> 21]

\* ConsoleTransport
Stream(name) == IF Level[name] >= Level["ERROR"] THEN "error" ELSE "log"

\* callAtLevel(): the logger's method for each level.
Method ==
    [TRACE |-> "trace", DEBUG |-> "debug", INFO |-> "info", WARN |-> "warn",
     ERROR |-> "error", FATAL |-> "fatal"]

-----------------------------------------------------------------------------
(* Bridges: an entry's other fields become the record's meta. *)

PinoLevels == 10..60
DEFAULT_PINO_LEVEL_MAP ==
    [n \in {10, 20, 30, 40, 50, 60} |->
        CASE n = 10 -> "TRACE" [] n = 20 -> "DEBUG" [] n = 30 -> "INFO"
          [] n = 40 -> "WARN"  [] n = 50 -> "ERROR" [] n = 60 -> "FATAL"]

PinoWrite(entry) ==
    LET level == IF entry.level \in PinoLevels THEN entry.level ELSE 30
    IN  Method[IF level \in DOMAIN DEFAULT_PINO_LEVEL_MAP
               THEN DEFAULT_PINO_LEVEL_MAP[level] ELSE "INFO"]

DEFAULT_WINSTON_LEVEL_MAP ==
    [error |-> "ERROR", warn |-> "WARN", info |-> "INFO", http |-> "INFO",
     verbose |-> "DEBUG", debug |-> "DEBUG", silly |-> "TRACE"]

\* With a map of the user's own, from winston's levels to what is given as ours. A
\* level that is none throws out of log(), and winston's callback is not called.
WinstonLog(entry, levelMap) ==
    LET given == IF entry.level \in DOMAIN levelMap THEN levelMap[entry.level]
                 ELSE [type |-> "number", number |-> Level["INFO"]]
        level == ParseLevel(given)
    IN  IF level = Unknown THEN [throws |-> TRUE]
        ELSE [throws |-> FALSE, method |-> Method[LevelName(level)]]

-----------------------------------------------------------------------------
(* Checks *)

AtMost(a, b) == Level[a] <= Level[b]
GcpOrder == [DEFAULT |-> 0, DEBUG |-> 1, INFO |-> 2, NOTICE |-> 3, WARNING |-> 4, ERROR |-> 5,
             CRITICAL |-> 6]

\* What is more severe here is nowhere less severe, and what is an error here is one
\* everywhere: a threshold in the backend keeps what one in the logger would.
ASSUME SeveritiesKeepOrder ==
    \A a, b \in Names : AtMost(a, b) =>
        /\ SyslogSeverity[a] >= SyslogSeverity[b]
        /\ GcpOrder[GcpSeverity[a]] <= GcpOrder[GcpSeverity[b]]
        /\ AppInsightsSeverity[a] <= AppInsightsSeverity[b]
        /\ SEVERITY_NUMBER[a] <= SEVERITY_NUMBER[b]
        /\ Stream(a) = "error" => Stream(b) = "error"
        /\ (Stream(a) = "error") = (SyslogSeverity[a] <= 3)
        /\ (Stream(a) = "error") = (AppInsightsSeverity[a] >= 3)
        /\ (Stream(a) = "error") = (SEVERITY_NUMBER[a] \in 17..24)

\* What pino or winston hold for more severe comes in as no less severe, as long as
\* the level is one of their own: one that is not comes in as INFO, wherever it stood.
NpmPriority == [error |-> 0, warn |-> 1, info |-> 2, http |-> 3, verbose |-> 4, debug |-> 5,
                silly |-> 6]
ASSUME BridgesKeepOrder ==
    /\ \A m, n \in DOMAIN DEFAULT_PINO_LEVEL_MAP : m <= n =>
          AtMost(DEFAULT_PINO_LEVEL_MAP[m], DEFAULT_PINO_LEVEL_MAP[n])
    /\ \A a, b \in DOMAIN NpmPriority : NpmPriority[a] <= NpmPriority[b] =>
          AtMost(DEFAULT_WINSTON_LEVEL_MAP[b], DEFAULT_WINSTON_LEVEL_MAP[a])
    /\ PinoWrite([level |-> 55]) = "info"

\* Names and weights are read as the levels they are of, and nothing else is.
ASSUME LevelsAreRead ==
    /\ \A name \in Names :
          /\ ParseLevel([type |-> "text", word |-> name]) = Level[name]
          /\ ParseLevel([type |-> "number", number |-> Level[name]]) = Level[name]
          /\ LevelName(Level[name]) = name
    /\ \A n \in 0..60 : ParseLevel([type |-> "number", number |-> n]) \in {n, Unknown}
    /\ ParseLevel([type |-> "text", word |-> "WARNING"]) = Unknown
    /\ \A l \in DOMAIN DEFAULT_WINSTON_LEVEL_MAP :
          LET map == [k \in DOMAIN DEFAULT_WINSTON_LEVEL_MAP |->
                         [type |-> "text", word |-> DEFAULT_WINSTON_LEVEL_MAP[k]]]
          IN  ~WinstonLog([level |-> l], map).throws
=============================================================================
