---------------------------- MODULE Configuration ----------------------------
(***************************************************************************)
(* config.ts: a logger built from a config object, from a file that holds  *)
(* one, or from the environment.  A key is its word and whether it is      *)
(* written in snake_case.                                                  *)
(***************************************************************************)
LOCAL INSTANCE Naturals
LOCAL INSTANCE SequencesExt

Snake == [max_size |-> "maxSize", trace_context |-> "traceContext"]
Camel(key) == IF key \in DOMAIN Snake THEN Snake[key] ELSE key

\* Of two keys that become one, the later in the object stays; options are sequences
\* of <<key, value>>.
CamelizeKeys(options) == [i \in DOMAIN options |-> <<Camel(options[i][1]), options[i][2]>>]
Has(options, key) == \E i \in DOMAIN options : options[i][1] = key
Option(options, key) ==
    options[CHOOSE i \in DOMAIN options :
                options[i][1] = key /\ \A j \in DOMAIN options : j > i => options[j][1] # key][2]
Without(options, key) == SelectSeq(options, LAMBDA option : option[1] # key)

Formatters == {"json", "text", "logfmt"}
\* Options that a constructor throws for.
Refuses(options) == Has(options, "refused")
UnknownFormatter(options) == Has(options, "formatter") /\ Option(options, "formatter") \notin Formatters

TransportTypes == {"console", "file", "http", "syslog"}
PluginTypes == {"context", "redact", "sampling", "traceContext", "run", "piiRedact", "tamperEvident"}

\* What a type must be told, and its registry's constructor: what it is given.
Required == [file |-> "path", http |-> "url", sampling |-> "rate"]
Made(type, options) ==
    IF type \notin DOMAIN Required THEN [what |-> type, with |-> options]
    ELSE [what |-> type, key |-> Option(options, Required[type]),
          with |-> Without(options, Required[type])]

-----------------------------------------------------------------------------
(* build(): an entry has a type, a class, or both; a class wins. class is    *)
(* "" for none, or what the reference comes to.                              *)

Fault(entry, registry) ==
    LET type == Camel(entry.type)
        options == IF type = "context" /\ entry.class = "" THEN entry.options
                   ELSE CamelizeKeys(entry.options)
    IN  IF entry.class # "" THEN entry.class # "exported" \/ UnknownFormatter(options) \/ Refuses(options)
        ELSE \/ type \notin registry
             \/ UnknownFormatter(options) \/ Refuses(options)
             \/ type \in DOMAIN Required /\ ~Has(options, Required[type])

Instance(entry) ==
    IF entry.class # "" THEN [what |-> entry.class, with |-> CamelizeKeys(entry.options)]
    ELSE IF entry.type = "context" THEN [what |-> "context", with |-> entry.options]
    ELSE Made(Camel(entry.type), CamelizeKeys(entry.options))

\* In order, up to the first entry at fault; those before it have been constructed.
Build(entries, registry) ==
    LET faulty == {i \in DOMAIN entries : Fault(entries[i], registry)}
        sound  == IF faulty = {} THEN entries
                  ELSE SubSeq(entries, 1, (CHOOSE i \in faulty : \A j \in faulty : i <= j) - 1)
    IN  [failed |-> faulty # {},
         built  |-> [i \in DOMAIN sound |-> Instance(sound[i])]]

\* loadConfig(): the transports, then the plugins, then the logger, whose constructor
\* refuses a level it does not know. What a failure leaves behind has no owner.
LoadConfig(config) ==
    LET transports == Build(config.transports, TransportTypes)
        plugins    == Build(config.plugins, PluginTypes)
        failed     == transports.failed \/ plugins.failed \/ config.level = "unknown"
    IN  IF failed THEN [failed |-> TRUE, left |-> transports.built]
        ELSE [failed |-> FALSE, left |-> <<>>,
              logger |-> [level      |-> IF config.level = "" THEN "INFO" ELSE config.level,
                          policy     |-> config.backpressure,
                          transports |-> transports.built,
                          plugins    |-> plugins.built]]

\* loggerFromFile(): the file may be missing, unreadable as JSON or YAML, or no object.
LoggerFromFile(file) ==
    IF file.holds # "object" THEN [failed |-> TRUE, left |-> <<>>] ELSE LoadConfig(file.config)

\* loggerFromEnv(): the variable's level is set last; one that is unknown throws.
LoggerFromEnv(file, level) ==
    LET loaded == IF file.holds = "notNamed"
                  THEN [failed |-> FALSE, left |-> <<>>,
                        logger |-> [level |-> "INFO", policy |-> "", transports |-> <<>>,
                                    plugins |-> <<>>]]
                  ELSE LoggerFromFile(file)
    IN  IF loaded.failed \/ level = "" THEN loaded
        ELSE IF level = "unknown" THEN [failed |-> TRUE, left |-> loaded.logger.transports]
        ELSE [loaded EXCEPT !.logger.level = level]

-----------------------------------------------------------------------------
(* Checks *)

Entry(type, class, options) == [type |-> type, class |-> class, options |-> options]
File == Entry("file", "", <<<<"path", "app.log">>, <<"max_size", "10">>>>)
Entries(sound) ==
    {sound, Entry("console", "exported", <<<<"max_size", "1">>>>), Entry("", "notExported", <<>>),
     Entry("", "", <<>>), Entry("console", "", <<<<"formatter", "xml">>>>), Entry("file", "", <<>>),
     Entry("syslog", "", <<<<"refused", "tls">>>>)}
SomeTransports == BoundedSeq(Entries(File), 2)
SomePlugins == BoundedSeq({Entry("context", "", <<<<"max_size", "1">>>>), Entry("trace_context", "", <<>>), Entry("sampling", "", <<>>),
                           Entry("sampling", "", <<<<"rate", "1">>>>)}, 2)
ConfigLevels == {"", "DEBUG", "unknown"}
Configs == [transports : SomeTransports, plugins : SomePlugins, level : ConfigLevels,
            backpressure : {"", "dropOldest", "unknown"}]

\* A config is loaded as a whole, in its order, or not at all. What it leaves when it is
\* not, transports that are open and that no logger will close, is what came before the
\* entry at fault; nothing when a transport is at fault that is the first.
ASSUME WholeConfigOrNone ==
    \A config \in Configs :
        LET loaded == LoadConfig(config)
        IN  /\ ~loaded.failed =>
                  /\ Len(loaded.logger.transports) = Len(config.transports)
                  /\ Len(loaded.logger.plugins) = Len(config.plugins)
                  /\ \A i \in DOMAIN config.transports :
                        ~Fault(config.transports[i], TransportTypes)
            /\ loaded.failed =>
                  \/ \E i \in DOMAIN config.transports :
                        Fault(config.transports[i], TransportTypes) /\ Len(loaded.left) = i - 1
                  \/ Len(loaded.left) = Len(config.transports)

\* "`{prefix}LEVEL`, if set, is applied last and always wins, even over a level in the
\* file"; and no level but one that is known comes to be a logger's. (A policy of the
\* queue that is unknown does: it is not looked at.)
ASSUME EnvironmentWins ==
    \A holds \in {"notNamed", "missing", "array", "object"}, config \in Configs, level \in ConfigLevels :
        LET loaded == LoggerFromEnv([holds |-> holds, config |-> config], level)
        IN  ~loaded.failed => /\ loaded.logger.level \in {"DEBUG", "INFO"}
                              /\ level # "" => loaded.logger.level = level

\* Options come to a constructor by their camelCase names, except what the context
\* plugin is given, which is the user's own; what a type takes as an argument is not
\* among its options too.
ASSUME OptionsAreNamed ==
    /\ Instance(File) = [what |-> "file", key |-> "app.log", with |-> <<<<"maxSize", "10">>>>]
    /\ \A config \in Configs :
          LET loaded == LoadConfig(config)
              all == loaded.logger.transports \o loaded.logger.plugins
          IN  ~loaded.failed => \A i \in DOMAIN all :
                 /\ Has(all[i].with, "max_size") => all[i].what = "context"
                 /\ all[i].what \in DOMAIN Required => ~Has(all[i].with, Required[all[i].what])
=============================================================================
