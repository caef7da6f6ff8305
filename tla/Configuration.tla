---------------------------- MODULE Configuration ----------------------------
(* ConfigurationManager (configuration_manager.cpp). Every operation holds  *)
(* mutex_, so each is one step. A configuration is a record of sections; a  *)
(* document (the contents of a YAML file) has some of the sections, and of  *)
(* each some of the keys. Settings that the code treats alike are one key.  *)
(* External: yaml-cpp (a setting with a default never throws, a list that   *)
(* is none does), the file system, where a file may not open or not take    *)
(* what is written, and the environment, which stays as it was when the     *)
(* program began.                                                           *)
EXTENDS Naturals, Sequences, FiniteSetsExt

CONSTANTS
  Documents,       \* what a file or a string may hold
  Environments     \* each gives, of the strings that refer to a variable that is set,
                   \* what one pass of substitution makes of them

(* The addresses of create_default hold no reference.                       *)
ASSUME EnvironmentAssumption == \A e \in Environments : "set" \notin DOMAIN e

VARIABLES
  config,              \* config_
  filename,            \* is filename_ set?
  change_callback,     \* is change_callback_ set?
  environment,         \* the one of Environments the program was started in
  disk,                \* the document in the file, NoFile when there is none
  result,              \* the operation made last, whether it succeeded and told the callback
  savedAs              \* history: config when the file was saved, NoFile when it is not a saved one

configVars == <<config, filename, change_callback, environment, disk, result, savedAs>>

(* The order in which parse_yaml goes through the sections. *)
Sections == <<"binance", "coinbase", "kraken", "server", "performance", "logging", "recording", "arbitrage">>
Venue3 == {"binance", "coinbase", "kraken"}

NoFile == [garbled |-> TRUE]

create_default ==
  LET At(rate) == [enabled |-> TRUE, url |-> "set", symbols |-> {"BTC"}, rate_limit |-> rate]
  IN  [binance |-> At(20), coinbase |-> At(30), kraken |-> At(15),
       server |-> [websocket_port |-> 8080, rest_port |-> 8081, max_connections |-> 1000],
       performance |-> [cpu_pinning |-> FALSE, cpu_cores |-> {}, huge_pages |-> FALSE],
       logging |-> [level |-> "info", pattern |-> "default"],
       recording |-> [enabled |-> FALSE], arbitrage |-> [enabled |-> TRUE]]

ConfigInit ==
  /\ config = create_default
  /\ filename = FALSE /\ change_callback = FALSE
  /\ environment \in Environments
  /\ disk = NoFile
  /\ result = [op |-> "none", ok |-> TRUE, told |-> FALSE] /\ savedAs = NoFile

---------------------------------------------------------------------------
(* node[key].as<T>(default) *)
Given(node, key, default) == IF key \in DOMAIN node THEN node[key] ELSE default

(* A reference to a variable that is not set stays in the value as it is,   *)
(* and so does one that comes with the value of a variable.                 *)
substitute_env_vars(value) ==
  IF value \in DOMAIN environment THEN environment[value] ELSE value

DefaultRate(s) == CASE s = "binance" -> 20 [] s = "coinbase" -> 30 [] s = "kraken" -> 15

(* A section that a document has replaces the one of the configuration: a   *)
(* key it does not give gets the parser's default, save for cpu_cores.      *)
ParseVenue(s, node) ==
  [enabled |-> Given(node, "enabled", TRUE), url |-> substitute_env_vars(Given(node, "url", "")),
   symbols |-> Given(node, "symbols", {}), rate_limit |-> Given(node, "rate_limit", DefaultRate(s))]

ParseServer(node) ==
  [websocket_port |-> Given(node, "websocket_port", 8080), rest_port |-> Given(node, "rest_port", 8081),
   max_connections |-> Given(node, "max_connections", 1000)]

ParsePerformance(node) ==
  [cpu_pinning |-> Given(node, "cpu_pinning", FALSE),
   cpu_cores |-> Given(node, "cpu_cores", config.performance.cpu_cores),
   huge_pages |-> Given(node, "huge_pages", FALSE)]

ParseLogging(node) ==
  [level |-> Given(node, "level", "info"), pattern |-> Given(node, "pattern", "default")]

ParseSection(s, node) ==
  CASE s \in Venue3 -> ParseVenue(s, node)
    [] s = "server" -> ParseServer(node)
    [] s = "performance" -> ParsePerformance(node)
    [] s = "logging" -> ParseLogging(node)
    [] s = "recording" -> [enabled |-> Given(node, "enabled", FALSE)]
    [] s = "arbitrage" -> [enabled |-> Given(node, "enabled", TRUE)]

Throws(s, node) ==
  \/ s \in Venue3 /\ Given(node, "symbols", {}) = {"no list"}
  \/ s = "performance" /\ Given(node, "cpu_cores", {}) = {"no list"}

(* The section in which a list throws: cpu_pinning is assigned before. *)
Interrupted(s, node) ==
  IF s = "performance" THEN [config[s] EXCEPT !.cpu_pinning = Given(node, "cpu_pinning", FALSE)]
  ELSE config[s]

(* config_ is changed section by section; what was changed before a throw   *)
(* stays.                                                                   *)
parse_yaml(doc) ==
  LET Has(i) == Sections[i] \in DOMAIN doc
      throwing == {i \in DOMAIN Sections : Has(i) /\ Throws(Sections[i], doc[Sections[i]])}
      stop == IF "garbled" \in DOMAIN doc THEN 0
              ELSE Min(throwing \cup {Len(Sections) + 1})
      At(s) == CHOOSE i \in DOMAIN Sections : Sections[i] = s
  IN  [ok |-> stop = Len(Sections) + 1,
       config |-> [s \in DOMAIN config |->
                     IF ~Has(At(s)) \/ At(s) > stop THEN config[s]
                     ELSE IF At(s) = stop THEN Interrupted(s, doc[s])
                     ELSE ParseSection(s, doc[s])]]

load ==
  /\ LET parsed == parse_yaml(disk)
         opened == disk # NoFile
     IN  /\ config' = IF opened THEN parsed.config ELSE config
         /\ filename' = (filename \/ (opened /\ parsed.ok))
         /\ result' = [op |-> "load", ok |-> opened /\ parsed.ok,
                       told |-> opened /\ parsed.ok /\ change_callback]
  /\ UNCHANGED <<change_callback, environment, disk, savedAs>>

reload == filename /\ load

(* The callback is not told. *)
load_from_string(doc) ==
  /\ config' = parse_yaml(doc).config
  /\ result' = [op |-> "string", ok |-> parse_yaml(doc).ok, told |-> FALSE]
  /\ UNCHANGED <<filename, change_callback, environment, disk, savedAs>>

(* The sections and keys that save writes. *)
SavedKeys ==
  LET keys == {"enabled", "url", "symbols", "rate_limit"}
  IN  [binance |-> keys, coinbase |-> keys, kraken |-> keys, server |-> {"websocket_port", "rest_port"},
       performance |-> {"cpu_pinning", "cpu_cores"}, logging |-> {"level"}]

ForgetSymbols(c) ==   \* mutant: the symbols of the exchanges are not written
  [s \in DOMAIN SavedKeys |-> [k \in SavedKeys[s] \ {"symbols"} |-> c[s][k]]]

Emitted(c) == [s \in DOMAIN SavedKeys |-> [k \in SavedKeys[s] |-> c[s][k]]]

(* The file is replaced; or it cannot be opened and is what it was; or it   *)
(* opens, which empties it, and takes nothing. The stream is not asked.     *)
Write(c) ==
  \/ disk' = Emitted(c) /\ savedAs' = c
  \/ UNCHANGED <<disk, savedAs>>
  \/ disk' = << >> /\ savedAs' = NoFile

save ==
  /\ Write(config)
  /\ result' = [op |-> "save", ok |-> TRUE, told |-> FALSE]
  /\ UNCHANGED <<config, filename, change_callback, environment>>

create_example ==
  /\ Write(create_default)
  /\ result' = [op |-> "example", ok |-> TRUE, told |-> FALSE]
  /\ UNCHANGED <<config, filename, change_callback, environment>>

set_change_callback ==
  /\ change_callback' = TRUE
  /\ result' = [op |-> "callback", ok |-> TRUE, told |-> FALSE]
  /\ UNCHANGED <<config, filename, environment, disk, savedAs>>

(* External: the file is edited or removed. *)
Edit ==
  /\ disk' \in Documents \cup {NoFile} /\ savedAs' = NoFile
  /\ result' = [op |-> "edit", ok |-> TRUE, told |-> FALSE]
  /\ UNCHANGED <<config, filename, change_callback, environment>>

ConfigNext ==
  \/ load \/ reload \/ (\E doc \in Documents : load_from_string(doc))
  \/ save \/ create_example \/ set_change_callback \/ Edit

ConfigSpec == ConfigInit /\ [][ConfigNext]_configVars

---------------------------------------------------------------------------
get_enabled_exchanges(c) == {s \in Venue3 : c[s].enabled}

(* What validate complains of. *)
validate(c) ==
  LET enabled == get_enabled_exchanges(c)
  IN  [url |-> {s \in enabled : c[s].url = ""}, symbols |-> {s \in enabled : c[s].symbols = {}},
       rate_limit |-> {s \in enabled : c[s].rate_limit <= 0},
       unset |-> {p \in {"websocket_port", "rest_port"} : c.server[p] = 0},
       equal |-> c.server.websocket_port = c.server.rest_port]

(* Is there a variable whose value refers to one that is set?               *)
Nested == \E v \in DOMAIN environment : environment[v] \in DOMAIN environment

(* What a load brings back of c, which was saved: every setting written, an *)
(* address substituted once more. Unless a variable refers to another this  *)
(* changes no address, and what was saved and the verdict of validate are   *)
(* back. What save leaves out of a section that it writes is at the         *)
(* parser's default, whatever it was.                                       *)
BringsBack(now, c) ==
  /\ \A s \in DOMAIN SavedKeys : \A k \in SavedKeys[s] :
       now[s][k] = IF k = "url" THEN substitute_env_vars(c[s].url) ELSE c[s][k]
  /\ ~Nested => Emitted(now) = Emitted(c) /\ validate(now) = validate(c)
  /\ now.server.max_connections = 1000 /\ now.logging.pattern = "default"
  /\ ~now.performance.huge_pages

Loading ==
  result'.op = "load" =>
    /\ savedAs # NoFile =>
         /\ result'.ok /\ BringsBack(config', savedAs)
         /\ config'.recording = config.recording /\ config'.arbitrage = config.arbitrage
    /\ \A s \in Venue3 :
         \/ config'[s] = config[s]
         \/ s \in DOMAIN disk /\ config'[s] = ParseSection(s, disk[s])

(* A file that save or create_example did write (a true answer of theirs    *)
(* does not say so) loads, whatever the configuration has become since, and *)
(* brings back what BringsBack says; recording and arbitrage, which are not *)
(* in it, stay as they are. A load of any file leaves each exchange as it   *)
(* was or wholly as the file has it, also when the load fails later on (the *)
(* sections before the failing one do stay changed then).                   *)
ConfigSound == [][Loading]_configVars
=============================================================================
