---------------------------- MODULE RuntimeLevel ----------------------------
(***************************************************************************)
(* One logger's level, set by the application, by a signal handler, and by *)
(* watchers that poll a file and an environment variable.                  *)
(***************************************************************************)
EXTENDS Integers, SequencesExt

CONSTANTS
    Texts,              \* what a source may hold
    Absent,             \* no such file or variable
    LevelNames          \* texts that are level names, in any case and with blanks around

ASSUME LevelAssumption == LevelNames \subseteq Texts /\ Absent \notin Texts

Sources == {"file", "env"}

VARIABLES
    level,              \* the logger's
    text,               \* what each source holds
    timer,              \* each watcher's timer: "none", "polling", or (once cleared) "dead"
    lastSeen,           \* what each watcher saw last
    handled,            \* the signal handler is installed
    watched             \* history: the watchers that were started and not stopped since
levelVars == <<level, text, timer, lastSeen, handled, watched>>

LevelInit ==
    /\ level \in LevelNames
    /\ text \in [Sources -> {Absent}]
    /\ timer = [s \in Sources |-> "none"] /\ lastSeen = [s \in Sources |-> Absent]
    /\ handled = FALSE /\ watched = {}

-----------------------------------------------------------------------------
\* A blank or missing value changes nothing, nor does one that is no level's name,
\* such as a number.
ApplyLevel(t) == level' = IF t \in LevelNames THEN t ELSE level

PollOnce(s) ==
    IF text[s] = lastSeen[s] THEN UNCHANGED <<level, lastSeen>>
    ELSE lastSeen' = [lastSeen EXCEPT ![s] = text[s]] /\ ApplyLevel(text[s])

\* start(), which does nothing while there is a timer.
Start(s) ==
    /\ watched' = watched \cup {s}
    /\ IF timer[s] # "none" THEN UNCHANGED <<level, lastSeen, timer>>
       ELSE PollOnce(s) /\ timer' = [timer EXCEPT ![s] = "polling"]
    /\ UNCHANGED <<text, handled>>

\* Faulty: the timer that was cleared is kept, and start() thinks it runs.
Cleared(s) == IF timer[s] = "none" THEN "none" ELSE "dead"

\* What stop() leaves of the timer.
Stopped(s) == "none"

Stop(s) ==
    /\ timer' = [timer EXCEPT ![s] = Stopped(s)]
    /\ watched' = watched \ {s}
    /\ UNCHANGED <<level, text, lastSeen, handled>>

\* The timer fires.
Poll(s) ==
    /\ timer[s] = "polling" /\ PollOnce(s)
    /\ UNCHANGED <<text, timer, handled, watched>>

\* pollOnce(), by a caller on its own schedule.
PollByHand(s) == PollOnce(s) /\ UNCHANGED <<text, timer, handled, watched>>

\* The signal arrives, and the handler reads the environment again.
Signal ==
    /\ handled /\ ApplyLevel(text["env"])
    /\ UNCHANGED <<text, timer, lastSeen, handled, watched>>

\* installSignalLevelHandler(), and the function it returns.
Install(on) == handled' = on /\ UNCHANGED <<level, text, timer, lastSeen, watched>>

SetLevel(l) == level' = l /\ UNCHANGED <<text, timer, lastSeen, handled, watched>>

\* Someone writes the file, or the application its own environment.
WriteSource(s, t) ==
    /\ text' = [text EXCEPT ![s] = t]
    /\ UNCHANGED <<level, timer, lastSeen, handled, watched>>

LevelNext ==
    \/ \E s \in Sources :
          \/ Start(s) \/ Stop(s) \/ Poll(s) \/ PollByHand(s)
          \/ \E t \in Texts \cup {Absent} : WriteSource(s, t)
    \/ Signal
    \/ \E on \in BOOLEAN : Install(on)
    \/ \E l \in LevelNames : SetLevel(l)

-----------------------------------------------------------------------------
LevelTypeOK ==
    /\ level \in LevelNames /\ text \in [Sources -> Texts \cup {Absent}]
    /\ timer \in [Sources -> {"none", "polling", "dead"}]
    /\ lastSeen \in [Sources -> Texts \cup {Absent}]
    /\ handled \in BOOLEAN /\ watched \subseteq Sources

\* A level written to a source whose watcher was started, as often as it was
\* stopped before, is the logger's level at some time, whatever the other writers
\* of the level do, unless the source changes first or the watcher is stopped.
LevelApplied ==
    \A s \in Sources, l \in LevelNames :
        s \in watched /\ text[s] = l /\ lastSeen[s] # l ~> level = l \/ text[s] # l \/ s \notin watched
=============================================================================
