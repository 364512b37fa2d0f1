---------------------------- MODULE RndcCommand ----------------------------
(***************************************************************************)
(* The commands of the rndc channel (bind9-sdk-net rndc/command.rs), the   *)
(* words each of them is sent as, who builds them, and what named makes of *)
(* the words.                                                              *)
(*                                                                         *)
(* A command is a record with a kind; its text is a sequence of words.     *)
(* named splits the text into words, takes options first, then arguments,  *)
(* then a zone, class and view by their position alone.                    *)
(***************************************************************************)
EXTENDS Naturals, Sequences, SequencesExt, FiniteSetsExt

CONSTANTS
  Names,   \* zones and other names
  Views,   \* views
  None     \* an option that was not given

ClassWords == {"IN", "CH"}

(* Names and views are words of their own: nothing quotes them, so one     *)
(* that reads like an option would be taken for it.                        *)
OptionWords ==
  {"-clean", "-all", "-cache", "-zones", "-adb", "-bad", "-expired", "-fail", "-p", "-list",
   "-clear", "-serial", "-nsec3param", "-dump", "-force", "-remove", "-lifetime", "-status",
   "-checkds", "-rollover", "-key", "-alg", "-when", "-reopen", "-roll", "-import"}

(* Words that may be left out of a command, or of a reply. *)
OptionalWords ==
  {"2", "3", "60", "13", "20260101000000", "on", "off", "dump", "reset", "status"}

Maybe(S) == S \cup {None}

(* ZoneTarget: a zone, perhaps its class, perhaps a view. *)
Targets == [zone : Names, class : Maybe(ClassWords), view : Maybe(Views)]
Target(zone, view) == [zone |-> zone, class |-> None, view |-> view]

Word(x) == IF x = None THEN <<>> ELSE <<x>>
Flag(on, w) == IF on THEN <<w>> ELSE <<>>
(* The decimal numerals of the numbers that occur. *)
Number(n) ==
  CASE n = 0 -> "0" [] n = 1 -> "1" [] n = 2 -> "2" [] n = 3 -> "3" [] n = 7 -> "7"
    [] n = 60 -> "60" [] n = 257 -> "257" [] n = 300 -> "300"

(* The view right after the zone, where rndc expects a class. *)
Bug_ClassAndView(class, view) == Word(class) \o Word(view)

(* rndc's grammar has the class before the view, so a view alone brings    *)
(* the class IN with it.                                                   *)
ClassAndView(class, view) ==
  (IF class = None /\ view # None THEN <<"IN">> ELSE Word(class)) \o Word(view)

CommandArgs(t) == <<t.zone>> \o ClassAndView(t.class, t.view)
MaybeArgs(t) == IF t = None THEN <<>> ELSE CommandArgs(t)

(* Two options in the order in which named reads them. *)
KeyOptions(key, when) ==
  (IF key = None THEN <<>>
   ELSE <<"-key", Number(key.tag)>> \o (IF key.algorithm = None THEN <<>>
                                        ELSE <<"-alg", key.algorithm>>))
  \o (IF when = None THEN <<>> ELSE <<"-when", when>>)

KeySelectors == [tag : {257}, algorithm : {None, "13"}]

ASSUME WordAssumption ==
  /\ (Names \cup Views) \cap OptionWords = {}
  /\ None \notin Names \cup Views \cup ClassWords \cup OptionalWords
  /\ None \notin Targets \cup KeySelectors
-----------------------------------------------------------------------------
(* The commands, in the order of the enumeration.                          *)

Categories == {"-all", "-cache", "-zones", "-adb", "-bad", "-expired", "-fail"}
Switches == {"on", "off"}
ValidationActions == Switches \cup {"status"}
ManagedKeysActions == {"refresh", "status", "sync"}
MemProfActions == Switches \cup {"dump"}
ServeStaleActions == Switches \cup {"reset", "status"}
DsStates == {"published", "withdrawn"}
Timeouts == <<300, 300, 300, 300>>

ZoneCommands ==
  [kind : {"Status", "Stats"}]
  \cup [kind : {"Reload", "Freeze", "Thaw"}, target : Targets \cup {None}]
  \cup [kind : {"Refresh", "Retransfer", "Notify"}, target : Targets]
  \cup [kind : {"Sync"}, clean : BOOLEAN, target : Targets \cup {None}]
  \cup [kind : {"Flush"}, view : Maybe(Views)]
  \cup [kind : {"FlushName", "FlushTree"}, name : Names, view : Maybe(Views)]
  \cup [kind : {"DumpDb"}, categories : {<<>>} \cup {<<c>> : c \in Categories},
        views : {<<>>} \cup {<<v>> : v \in Views}]

SigningActions ==
  [is : {"ClearAll", "List", "Nsec3ParamNone"}]
  \cup [is : {"ClearKey"}, key : {"257/13"}]
  \cup [is : {"Nsec3Param"}, hash : {1}, flags : {0, 1}, iterations : {0}, salt : {"ab"}]
  \cup [is : {"Serial"}, serial : {7}]

SigningCommands ==
  [kind : {"Trace"}, level : {None, Number(3)}]
  \cup [kind : {"NoTrace", "Reconfig"}]
  \cup [kind : {"Sign", "ShowZone"}, target : Targets]
  \cup [kind : {"Signing"}, action : SigningActions, target : Targets]
  \cup [kind : {"Validation"}, action : ValidationActions, view : Maybe(Views)]
  \cup [kind : {"AddZone", "ModZone"}, target : Targets, config : {"{type primary;};"}]
  \cup [kind : {"DelZone"}, target : Targets, clean : BOOLEAN]

KeyCommands ==
  [kind : {"ManagedKeys"}, action : ManagedKeysActions,
   class : Maybe(ClassWords), view : Maybe(Views)]
  \cup [kind : {"ZoneStatus", "DnssecStatus", "LoadKeys"}, target : Targets]
  \cup [kind : {"NtaList"}]
  \cup [kind : {"NtaAdd"}, domain : Names, lifetime : {None, Number(60)}, force : BOOLEAN,
        view : Maybe(Views)]
  \cup [kind : {"NtaRemove"}, domain : Names, view : Maybe(Views)]
  \cup [kind : {"DnssecCheckDs"}, target : Targets, state : DsStates,
        key : KeySelectors \cup {None}, when : {None, "20260101000000"}]

ServerCommands ==
  [kind : {"DnssecRollover"}, target : Targets, key : KeySelectors,
   when : {None, "20260101000000"}]
  \cup [kind : {"DnstapReopen", "Recursing", "Scan"}]
  \cup [kind : {"DnstapRoll"}, count : {None, Number(2)}]
  \cup [kind : {"FetchLimit"}, view : Maybe(Views)]
  \cup [kind : {"Stop", "Halt"}, report_pid : BOOLEAN]
  \cup [kind : {"SkrImport"}, file : {"/skr"}, target : Targets]
  \cup [kind : {"MemProf"}, action : MemProfActions \cup {None}]
  \cup [kind : {"QueryLog", "ResponseLog"}, action : Switches \cup {None}]
  \cup [kind : {"ResetStats"}, counters : {<<>>, <<"tcp-highwater">>}]
  \cup [kind : {"SecRoots"}, views : {<<>>} \cup {<<v>> : v \in Views}]
  \cup [kind : {"ServeStale"}, action : ServeStaleActions,
        class : Maybe(ClassWords), view : Maybe(Views)]
  \cup [kind : {"ServeStale"}, action : {None}, class : {None}, view : {None}]
  \cup [kind : {"TcpTimeouts"}, values : {<<>>, Timeouts}]

Commands == ZoneCommands \cup SigningCommands \cup KeyCommands \cup ServerCommands
-----------------------------------------------------------------------------
(* RndcCommand::to_command_string, arm by arm.                             *)

ZoneWords(c) ==
  CASE c.kind = "Status"     -> <<"status">>
    [] c.kind = "Reload"     -> <<"reload">> \o MaybeArgs(c.target)
    [] c.kind = "Refresh"    -> <<"refresh">> \o CommandArgs(c.target)
    [] c.kind = "Retransfer" -> <<"retransfer">> \o CommandArgs(c.target)
    [] c.kind = "Freeze"     -> <<"freeze">> \o MaybeArgs(c.target)
    [] c.kind = "Thaw"       -> <<"thaw">> \o MaybeArgs(c.target)
    [] c.kind = "Sync"       -> <<"sync">> \o Flag(c.clean, "-clean") \o MaybeArgs(c.target)
    [] c.kind = "Flush"      -> <<"flush">> \o Word(c.view)
    [] c.kind = "FlushName"  -> <<"flushname", c.name>> \o Word(c.view)
    [] c.kind = "FlushTree"  -> <<"flushtree", c.name>> \o Word(c.view)
    [] c.kind = "Stats"      -> <<"stats">>
    [] c.kind = "DumpDb"     -> <<"dumpdb">> \o c.categories \o c.views
    [] c.kind = "Notify"     -> <<"notify">> \o CommandArgs(c.target)

SigningOperation(a) ==
  CASE a.is = "ClearAll"       -> <<"-clear", "all">>
    [] a.is = "ClearKey"       -> <<"-clear", a.key>>
    [] a.is = "List"           -> <<"-list">>
    [] a.is = "Nsec3Param"     -> <<"-nsec3param", Number(a.hash), Number(a.flags),
                                    Number(a.iterations), a.salt>>
    [] a.is = "Nsec3ParamNone" -> <<"-nsec3param", "none">>
    [] a.is = "Serial"         -> <<"-serial", Number(a.serial)>>

ControlWords(c) ==
  CASE c.kind = "Trace"      -> <<"trace">> \o Word(c.level)
    [] c.kind = "NoTrace"    -> <<"notrace">>
    [] c.kind = "Reconfig"   -> <<"reconfig">>
    [] c.kind = "Sign"       -> <<"sign">> \o CommandArgs(c.target)
    [] c.kind = "Signing"    -> <<"signing">> \o SigningOperation(c.action)
                                \o CommandArgs(c.target)
    [] c.kind = "Validation" -> <<"validation", c.action>> \o Word(c.view)
    [] c.kind = "AddZone"    -> <<"addzone">> \o CommandArgs(c.target) \o <<c.config>>
    [] c.kind = "ModZone"    -> <<"modzone">> \o CommandArgs(c.target) \o <<c.config>>
    [] c.kind = "DelZone"    -> <<"delzone">> \o Flag(c.clean, "-clean") \o CommandArgs(c.target)
    [] c.kind = "ShowZone"   -> <<"showzone">> \o CommandArgs(c.target)

KeyWords(c) ==
  CASE c.kind = "ManagedKeys"   -> <<"managed-keys", c.action>> \o ClassAndView(c.class, c.view)
    [] c.kind = "ZoneStatus"    -> <<"zonestatus">> \o CommandArgs(c.target)
    [] c.kind = "NtaList"       -> <<"nta", "-dump">>
    [] c.kind = "NtaAdd"        -> <<"nta">>
         \o (IF c.lifetime = None THEN <<>> ELSE <<"-lifetime", c.lifetime>>)
         \o Flag(c.force, "-force") \o <<c.domain>> \o Word(c.view)
    [] c.kind = "NtaRemove"     -> <<"nta", "-remove", c.domain>> \o Word(c.view)
    [] c.kind = "DnssecStatus"  -> <<"dnssec", "-status">> \o CommandArgs(c.target)
    [] c.kind = "DnssecCheckDs" -> <<"dnssec", "-checkds">> \o KeyOptions(c.key, c.when)
         \o <<c.state>> \o CommandArgs(c.target)
    [] c.kind = "LoadKeys"      -> <<"loadkeys">> \o CommandArgs(c.target)

ServerWords(c) ==
  CASE c.kind = "DnssecRollover" -> <<"dnssec", "-rollover">> \o KeyOptions(c.key, c.when)
         \o CommandArgs(c.target)
    [] c.kind = "DnstapReopen" -> <<"dnstap", "-reopen">>
    [] c.kind = "DnstapRoll"   -> <<"dnstap", "-roll">> \o Word(c.count)
    [] c.kind = "FetchLimit"   -> <<"fetchlimit">> \o Word(c.view)
    [] c.kind = "Stop"         -> <<"stop">> \o Flag(c.report_pid, "-p")
    [] c.kind = "Halt"         -> <<"halt">> \o Flag(c.report_pid, "-p")
    [] c.kind = "SkrImport"    -> <<"skr", "-import", c.file>> \o CommandArgs(c.target)
    [] c.kind = "MemProf"      -> <<"memprof">> \o Word(c.action)
    [] c.kind = "QueryLog"     -> <<"querylog">> \o Word(c.action)
    [] c.kind = "Recursing"    -> <<"recursing">>
    [] c.kind = "ResetStats"   -> <<"reset-stats">> \o c.counters
    [] c.kind = "ResponseLog"  -> <<"responselog">> \o Word(c.action)
    [] c.kind = "Scan"         -> <<"scan">>
    [] c.kind = "SecRoots"     -> <<"secroots">> \o c.views
    [] c.kind = "ServeStale"   -> <<"serve-stale">> \o Word(c.action) \o ClassAndView(c.class, c.view)
    [] c.kind = "TcpTimeouts"  -> <<"tcp-timeouts">>
         \o [i \in DOMAIN c.values |-> Number(c.values[i])]
    [] c.kind = "Raw"          -> c.words

ZoneKinds    == {c.kind : c \in ZoneCommands}
SigningKinds == {c.kind : c \in SigningCommands}
KeyKinds     == {c.kind : c \in KeyCommands}

Words(c) ==
  CASE c.kind \in ZoneKinds    -> ZoneWords(c)
    [] c.kind \in SigningKinds -> ControlWords(c)
    [] c.kind \in KeyKinds     -> KeyWords(c)
    [] OTHER                             -> ServerWords(c)
-----------------------------------------------------------------------------
(* Who builds commands.                                                    *)

(* Bind9Client: every zone command carries the view the client is for. *)
ZoneTarget(zone, view) == Target(zone, view)

ClientCommands(zone, view) ==
  LET t == ZoneTarget(zone, view)
  IN [kind : {"Status"}] \cup [kind : {"Reload"}, target : {None, t}]
     \cup [kind : {"Freeze", "Thaw", "ZoneStatus", "DnssecStatus"}, target : {t}]
     \cup [kind : {"DnssecCheckDs"}, target : {t}, state : DsStates,
           key : {None}, when : {None}]

(* The command line: zone status, zone reload, dnssec status and checkds   *)
(* of a client without a view.                                             *)
CliZoneCommands(zone) ==
  [kind : {"ZoneStatus", "Reload"}, target : {ZoneTarget(zone, None)}]

CliDnssecCommands(zone) ==
  [kind : {"DnssecStatus"}, target : {ZoneTarget(zone, None)}]
  \cup [kind : {"DnssecCheckDs"}, target : {ZoneTarget(zone, None)},
        state : DsStates, key : {None}, when : {None}]

(* JsRndcClient *)
NodeCommands(zone) ==
  LET t == Target(zone, None)
  IN [kind : {"Status", "Reconfig", "Stats"}]
     \cup [kind : {"Reload"}, target : {None, t}]
     \cup [kind : {"Flush"}, view : {None}]
     \cup [kind : {"FlushName"}, name : {zone}, view : {None}]
     \cup [kind : {"ZoneStatus", "Freeze", "Thaw", "Notify", "Refresh", "Retransfer",
                   "Sign", "ShowZone"}, target : {t}]
     \cup [kind : {"Sync"}, clean : {FALSE}, target : {None, t}]
     \cup [kind : {"DumpDb"}, categories : {<<>>}, views : {<<>>}]
     \cup [kind : {"DelZone"}, target : {t}, clean : {FALSE}]

(* JsRndcLimiter and the escape hatch of JsRndcClient: the text as given. *)
RawCommands(texts) == [kind : {"Raw"}, words : texts]
-----------------------------------------------------------------------------
(* Replies.  A text is a sequence of lines, a line a label and a value.    *)

(* RndcResponse::from_text *)
ErrorPrefixes == {"rndc: ", "unknown command", "not found"}
Response(text) ==
  [text |-> text, ok |-> text = <<>> \/ text[1][1] \notin ErrorPrefixes]

(* The first line with the label that has a value. *)
ExtractField(text, label) ==
  LET found == {i \in DOMAIN text : text[i][1] = label /\ text[i][2] # ""}
  IN IF found = {} THEN None ELSE text[Min(found)][2]

(* parse_server_status: the fields of the text, in any order. *)
ParseServerStatus(text) ==
  LET version == ExtractField(text, "version:")
      zones == ExtractField(text, "number of zones:")
  IN [version |-> IF version = None THEN "unknown" ELSE version,
      zones |-> IF zones = None THEN "0" ELSE zones,
      up |-> \E i \in DOMAIN text : text[i][1] = "server is up and running"]

(* A frozen zone is told as a zone of class IN, the class of every target  *)
(* of the client.                                                          *)
FrozenZone(zone) == [zone |-> zone, class |-> "IN"]
-----------------------------------------------------------------------------
(* named's side: for each command its options with the number of their     *)
(* arguments, the number of arguments before the scope, and whether the    *)
(* scope is a zone with class and view, a view, a class and view, or none. *)

Rule(options, args, scope) == [options |-> options, args |-> args, scope |-> scope]
Options(flags, valued) == [o \in flags \cup valued |-> IF o \in valued THEN 1 ELSE 0]
NoOptions == Options({}, {})

(* The rule of some commands depends on what follows the verb. *)
RuleFor(ws) ==
  LET next  == IF Len(ws) > 1 THEN ws[2] ELSE ""
      third == IF Len(ws) > 2 THEN ws[3] ELSE "" IN
  CASE ws[1] \in {"reload", "refresh", "retransfer", "freeze", "thaw", "notify", "sign",
                  "showzone", "zonestatus", "loadkeys"} -> Rule(NoOptions, 0, "zone")
    [] ws[1] \in {"sync", "delzone"} -> Rule(Options({"-clean"}, {}), 0, "zone")
    [] ws[1] \in {"flush", "fetchlimit", "secroots"} -> Rule(NoOptions, 0, "view")
    [] ws[1] \in {"flushname", "flushtree", "validation"} -> Rule(NoOptions, 1, "view")
    [] ws[1] = "managed-keys" -> Rule(NoOptions, 1, "class")
    [] ws[1] = "serve-stale" -> Rule(NoOptions, IF Len(ws) > 1 THEN 1 ELSE 0, "class")
    [] ws[1] = "dumpdb" -> Rule(Options(Categories, {}), 0, "view")
    [] ws[1] \in {"stop", "halt"} -> Rule(Options({"-p"}, {}), 0, "none")
    [] ws[1] \in {"status", "stats", "notrace", "reconfig", "recursing", "scan"} ->
         Rule(NoOptions, 0, "none")
    [] ws[1] \in {"trace", "memprof", "querylog", "responselog", "reset-stats",
                  "tcp-timeouts"} -> Rule(NoOptions, 0, "words")
    [] ws[1] = "signing" ->
         Rule([Options({"-list"}, {"-clear", "-serial", "-nsec3param"})
                 EXCEPT !["-nsec3param"] = IF third = "none" THEN 1 ELSE 4], 0, "zone")
    [] ws[1] = "nta" -> Rule(Options({"-dump", "-force", "-remove"}, {"-lifetime"}),
                             IF next = "-dump" THEN 0 ELSE 1, "view")
    [] ws[1] = "dnssec" ->
         Rule(Options({"-status", "-checkds", "-rollover"}, {"-key", "-alg", "-when"}),
              IF next = "-checkds" THEN 1 ELSE 0, "zone")
    [] ws[1] = "dnstap" -> Rule(Options({"-reopen", "-roll"}, {}), 0, "words")
    [] ws[1] = "skr" -> Rule(Options({}, {"-import"}), 0, "zone")
    [] ws[1] \in {"addzone", "modzone"} -> Rule(NoOptions, 0, "config")
    [] OTHER -> Rule(NoOptions, 0, "unknown")

(* How many of the words are leading options and their arguments. *)
Leading(ws, options) ==
  LET upto[i \in 1..Len(ws) + 1] ==
        IF i > Len(ws) \/ ws[i] \notin DOMAIN options \/ i + options[ws[i]] > Len(ws)
        THEN i - 1
        ELSE upto[i + 1 + options[ws[i]]]
  IN upto[1]

(* By position; a class must be one. *)
ScopeOf(ws) ==
  [zone |-> IF Len(ws) > 0 THEN ws[1] ELSE None,
   class |-> IF Len(ws) > 1 THEN ws[2] ELSE "IN",
   view |-> IF Len(ws) > 2 THEN ws[3] ELSE None]
NoScope == ScopeOf(<<>>)

Refused == [verb |-> "syntax error"]

Understand(ws) ==
  LET rule == RuleFor(ws)
      n == 1 + Leading(Tail(ws), rule.options)
      rest == SubSeq(ws, n + 1, Len(ws))
      args == SubSeq(rest, 1, rule.args)
      tail == SubSeq(rest, rule.args + 1, Len(rest))
      as(a, s) == [verb |-> Head(ws), options |-> SubSeq(ws, 2, n), args |-> a, scope |-> s]
  IN CASE Len(rest) < rule.args \/ rule.scope = "unknown" -> Refused
       [] rule.scope = "words" -> as(rest, NoScope)
       [] rule.scope = "none" -> IF rest = <<>> THEN as(<<>>, NoScope) ELSE Refused
       [] rule.scope = "view" ->
            IF Len(tail) > 1 THEN Refused
            ELSE as(args, [NoScope EXCEPT !.view = IF tail = <<>> THEN None ELSE tail[1]])
       [] rule.scope = "class" ->
            IF Len(tail) > 2 \/ (Len(tail) > 0 /\ tail[1] \notin ClassWords) THEN Refused
            ELSE as(args, [ScopeOf(<<"-">> \o tail) EXCEPT !.zone = None])
       [] rule.scope = "config" ->
            LET scope == Front(tail)
            IN IF Len(scope) > 3 \/ (Len(scope) > 1 /\ scope[2] \notin ClassWords) THEN Refused
               ELSE as(<<Last(tail)>>, ScopeOf(scope))
       [] rule.scope = "zone" ->
            IF Len(tail) > 3 \/ (Len(tail) > 1 /\ tail[2] \notin ClassWords) THEN Refused
            ELSE as(args, ScopeOf(tail))
-----------------------------------------------------------------------------
(* What a caller asked for: the zone, class and view of its command, a     *)
(* missing class being IN.                                                 *)
TargetOf(c) ==
  IF "target" \in DOMAIN c /\ c.target # None THEN c.target
  ELSE [zone |-> None,
        class |-> IF "class" \in DOMAIN c THEN c.class ELSE None,
        view |-> IF "view" \in DOMAIN c THEN c.view
                 ELSE IF "views" \in DOMAIN c /\ c.views # <<>> THEN c.views[1] ELSE None]

Scope(c) ==
  LET t == TargetOf(c) IN [t EXCEPT !.class = IF @ = None THEN "IN" ELSE @]

(* Equal commands, a missing class and the class IN being the same. *)
Normal(c) ==
  LET clean == [f \in DOMAIN c \ {"target", "class"} |-> c[f]]
  IN <<clean, Scope(c)>>
=============================================================================
