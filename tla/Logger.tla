-------------------------------- MODULE Logger --------------------------------
(***************************************************************************)
(* The loggers of src/src/base/util/log: LoggerManager (the singleton      *)
(* LoggerMgr), Logger, the StdOutLogAppender the manager gives the root    *)
(* logger, FileLogAppenders, and the LOG_* macros.                         *)
(*                                                                         *)
(* Threads call getLogger (LOG_NAME), log through a logger they hold, and  *)
(* configure loggers and file appenders.  getLogger has its lock          *)
(* commented out and is split at its map insertion.  A LOG_* statement is *)
(* split where the code splits it: the macro stamps the event with time(0) *)
(* when it builds it, and LogEventWrap's destructor runs Logger::log      *)
(* under s_log_mutex at the end of the statement; the mutex makes that    *)
(* write one step.  The configuration calls take no lock and are single   *)
(* steps.  A formatter is the pattern it was built from; whether          *)
(* LogFormatter(pattern) reports an error comes from the parser of the    *)
(* LogFormatter module.                                                   *)
(*                                                                         *)
(* LoggerMgr is Singleton<LoggerManager>: the manager is the function-    *)
(* local static of getInstance, built by the first LOG_NAME call while    *)
(* later callers wait (module Singleton).  The variable mgr is its guard. *)
(***************************************************************************)
EXTENDS Naturals, Sequences, FiniteSets, SequencesExt

CONSTANTS
    Threads,
    Names,          \* logger names the program uses, "root" among them
    LoggerObjs,     \* heap slots for Logger objects
    Root,           \* the slot of the root logger
    StdOut,         \* the StdOutLogAppender of the root logger
    Files,          \* the program's FileLogAppenders
    LogLevels,      \* levels the program uses (DEBUG = 1 .. FATAL = 5)
    GarbageLevels,  \* values the uninitialised LogAppender::m_level can hold
    Patterns,       \* patterns handed to setFormatter
    DefaultPattern, \* stands for the pattern of the Logger constructor
    StartTime,      \* time(0) when the program starts
    MaxTime,        \* time(0) when the program ends
    MaxOps,         \* calls per thread
    None, Null,
    Chars, Alpha, Keys, UninitError, MaxPatternLen

ASSUME /\ "root" \in Names /\ Root \in LoggerObjs
       /\ StartTime >= 3 /\ LogLevels \subseteq 0..5

LF == INSTANCE LogFormatter WITH m_pattern <- <<>>, m_items <- <<>>,
                                 m_error <- FALSE

DEBUG == 1
Appenders == {StdOut} \cup Files

VARIABLES
    mgr,        \* the guard of LoggerMgr::getInstance's static: "none", "busy", "done"
    m_loggers,  \* LoggerManager::m_loggers: name -> Logger slot or None
    logger,     \* each Logger slot: None, or its name, level, appenders, formatter, m_root
    app,        \* each appender: m_level, m_hasFormatter, m_formatter, m_lastTime
    file,       \* the events the file of each FileLogAppender holds
    now,        \* time(0)
    pc, arg, ops,
    got,        \* the loggers getLogger returned to each thread
    sent,       \* ghost: (appender, event) pairs Logger::log handed to an appender
    written,    \* ghost: (appender, event) pairs an appender wrote
    levelSet    \* ghost: appenders whose setLevel was called

vars == <<mgr, m_loggers, logger, app, file, now, pc, arg, ops, got, sent, written,
          levelSet>>

(* Logger(name): m_level DEBUG, a formatter of the default pattern.      *)
NewLogger(n) == [name |-> n, level |-> DEBUG, apps |-> <<>>,
                 fmt |-> DefaultPattern, root |-> None]

StartCall(t) == pc[t] = "idle" /\ ops[t] < MaxOps
Count(t) == ops' = [ops EXCEPT ![t] = @ + 1]
(* The loggers t can log through: those it got, and LOG_ROOT() once the   *)
(* manager exists.                                                        *)
Usable(t) == IF mgr = "done" THEN got[t] \cup {Root} ELSE got[t]
Event(t) == [id |-> <<t, ops[t] + 1>>, time |-> now]

(* FileLogAppender::reopen: close the stream and open the file again, in  *)
(* ofstream's default mode, which truncates it.                           *)
Reopen(st, a) == [st EXCEPT !.file[a] = <<>>]

(* The write of the formatted event: into the file of a FileLogAppender,  *)
(* to std::cout for the StdOutLogAppender.                                *)
Write(st, a, ev) ==
    [st EXCEPT !.file = IF a \in Files THEN [@ EXCEPT ![a] = Append(@, ev)] ELSE @,
               !.sent = @ \cup {<<a, ev>>},
               !.written = @ \cup {<<a, ev>>}]

Due(st, a, ev) == a \in Files /\ ev.time >= st.app[a].lastTime + 3
Drop(st, a, ev) == [st EXCEPT !.sent = @ \cup {<<a, ev>>}]

(* Mutant: m_lastTime left as it was after a reopen.                      *)
AppenderLogNoLastTime(st, a, lvl, ev) ==
    IF lvl < st.app[a].level THEN Drop(st, a, ev)
    ELSE Write(IF Due(st, a, ev) THEN Reopen(st, a) ELSE st, a, ev)

(* Mutant: m_lastTime set to the time of the next reopen.                 *)
AppenderLogDeadline(st, a, lvl, ev) ==
    IF lvl < st.app[a].level THEN Drop(st, a, ev)
    ELSE Write(IF Due(st, a, ev)
               THEN [Reopen(st, a) EXCEPT !.app[a].lastTime = ev.time + 3]
               ELSE st, a, ev)

(***************************************************************************)
(* appender->log(self, level, event): both kinds drop a level below       *)
(* m_level; FileLogAppender reopens the file when the event is 3 seconds  *)
(* past m_lastTime and sets m_lastTime to the event's time, then formats  *)
(* the event into it.                                                     *)
(***************************************************************************)
AppenderLog(st, a, lvl, ev) ==
    IF lvl < st.app[a].level THEN Drop(st, a, ev)
    ELSE Write(IF Due(st, a, ev)
               THEN [Reopen(st, a) EXCEPT !.app[a].lastTime = ev.time]
               ELSE st, a, ev)

(***************************************************************************)
(* Logger::log(level, event): past m_level, every appender of the list in *)
(* order, or, when the list is empty, m_root->log(level, event).          *)
(***************************************************************************)
RECURSIVE LoggerLog(_, _, _, _)
LoggerLog(st, l, lvl, ev) ==
    IF lvl < logger[l].level THEN st
    ELSE IF logger[l].apps # <<>>
    THEN FoldLeft(LAMBDA s, a : AppenderLog(s, a, lvl, ev), st, logger[l].apps)
    ELSE IF logger[l].root # None THEN LoggerLog(st, logger[l].root, lvl, ev)
    ELSE st

(* getLogger(name) on the built manager: find, and return a hit.  A miss *)
(* makes Logger(name), sets its m_root and starts m_loggers[name] =       *)
(* logger.                                                                *)
FindLogger(t, n) ==
    IF m_loggers[n] # None
    THEN /\ got' = [got EXCEPT ![t] = @ \cup {m_loggers[n]}]
         /\ pc' = [pc EXCEPT ![t] = "idle"]
         /\ UNCHANGED <<logger, arg>>
    ELSE \E l \in LoggerObjs :
            /\ logger[l] = None
            /\ logger' = [logger EXCEPT ![l] = [NewLogger(n) EXCEPT !.root = Root]]
            /\ pc' = [pc EXCEPT ![t] = "get_insert"]
            /\ arg' = [arg EXCEPT ![t] = [@ EXCEPT !.name = n, !.lg = l]]
            /\ UNCHANGED got

(***************************************************************************)
(* LOG_NAME(name), LoggerMgr::getInstance()->getLogger(name) (LOG_ROOT()  *)
(* is the call with "root"): the first call to reach the static builds    *)
(* the manager, a call that comes while it is built waits, and a call     *)
(* after it runs getLogger.                                               *)
(***************************************************************************)
GetLogger(t, n) ==
    /\ StartCall(t) /\ Count(t)
    /\ CASE mgr = "none" -> /\ mgr' = "busy"
                            /\ pc' = [pc EXCEPT ![t] = "mgr_ctor"]
                            /\ arg' = [arg EXCEPT ![t].name = n]
                            /\ UNCHANGED <<logger, got>>
         [] mgr = "busy" -> /\ pc' = [pc EXCEPT ![t] = "mgr_wait"]
                            /\ arg' = [arg EXCEPT ![t].name = n]
                            /\ UNCHANGED <<mgr, logger, got>>
         [] mgr = "done" -> FindLogger(t, n) /\ UNCHANGED mgr
    /\ UNCHANGED <<m_loggers, app, file, now, sent, written, levelSet>>

(***************************************************************************)
(* LoggerManager(), run by the first caller: m_root is Logger("root"),     *)
(* addAppender(new StdOutLogAppender) gives the appender root's formatter *)
(* (it has none), m_loggers["root"] = m_root, and init() does nothing.     *)
(* Then the static's guard is set and the caller goes on to getLogger.    *)
(***************************************************************************)
LoggerManager(t) ==
    /\ pc[t] = "mgr_ctor"
    /\ mgr' = "done"
    /\ m_loggers' = [m_loggers EXCEPT !["root"] = Root]
    /\ logger' = [logger EXCEPT ![Root] = [NewLogger("root") EXCEPT !.apps = <<StdOut>>]]
    /\ app' = [app EXCEPT ![StdOut].fmt = DefaultPattern]
    /\ pc' = [pc EXCEPT ![t] = "get_find"]
    /\ UNCHANGED <<file, now, arg, ops, got, sent, written, levelSet>>

(* A call that waited on the static sees it built and goes on.            *)
MgrWake(t) ==
    /\ pc[t] = "mgr_wait"
    /\ mgr = "done"
    /\ pc' = [pc EXCEPT ![t] = "get_find"]
    /\ UNCHANGED <<mgr, m_loggers, logger, app, file, now, arg, ops, got, sent,
                   written, levelSet>>

(* getLogger(name) after getInstance returned.                            *)
GetLoggerFind(t) ==
    /\ pc[t] = "get_find"
    /\ FindLogger(t, arg[t].name)
    /\ UNCHANGED <<mgr, m_loggers, app, file, now, ops, sent, written, levelSet>>

GetLoggerInsert(t) ==
    /\ pc[t] = "get_insert"
    /\ m_loggers' = [m_loggers EXCEPT ![arg[t].name] = arg[t].lg]
    /\ got' = [got EXCEPT ![t] = @ \cup {arg[t].lg}]
    /\ pc' = [pc EXCEPT ![t] = "idle"]
    /\ UNCHANGED <<mgr, logger, app, file, now, arg, ops, sent, written, levelSet>>

(* LOG_LEVEL(logger, level): when getLevel() <= level, build the event,   *)
(* stamped with time(0); the statement's text is streamed into it.        *)
LogStart(t, l, lvl) ==
    /\ StartCall(t) /\ Count(t)
    /\ l \in Usable(t)
    /\ IF logger[l].level <= lvl
       THEN /\ pc' = [pc EXCEPT ![t] = "log_write"]
            /\ arg' = [arg EXCEPT ![t] = [@ EXCEPT !.lg = l, !.lvl = lvl,
                                                  !.ev = Event(t)]]
       ELSE UNCHANGED <<pc, arg>>
    /\ UNCHANGED <<mgr, m_loggers, logger, app, file, now, got, sent, written, levelSet>>

(* ~LogEventWrap: lock s_log_mutex, event->getLogger()->log(level, event). *)
LogWrite(t) ==
    LET st == LoggerLog([app |-> app, file |-> file, sent |-> sent,
                         written |-> written], arg[t].lg, arg[t].lvl, arg[t].ev)
    IN /\ pc[t] = "log_write"
       /\ app' = st.app /\ file' = st.file
       /\ sent' = st.sent /\ written' = st.written
       /\ pc' = [pc EXCEPT ![t] = "idle"]
       /\ UNCHANGED <<mgr, m_loggers, logger, now, arg, ops, got, levelSet>>

(* Logger::setLevel and LogAppender::setLevel.                            *)
SetLevel(t, l, lvl) ==
    /\ StartCall(t) /\ Count(t) /\ l \in Usable(t)
    /\ logger' = [logger EXCEPT ![l].level = lvl]
    /\ UNCHANGED <<mgr, m_loggers, app, file, now, pc, arg, got, sent, written, levelSet>>

AppenderSetLevel(t, a, lvl) ==
    /\ StartCall(t) /\ Count(t)
    /\ app' = [app EXCEPT ![a].level = lvl]
    /\ levelSet' = levelSet \cup {a}
    /\ UNCHANGED <<mgr, m_loggers, logger, file, now, pc, arg, got, sent, written>>

(* Logger::addAppender: an appender without a formatter gets the          *)
(* logger's; push_back.  delAppender erases the first occurrence.          *)
AddAppender(t, l, a) ==
    /\ StartCall(t) /\ Count(t) /\ l \in Usable(t)
    /\ app' = IF app[a].fmt = Null
              THEN [app EXCEPT ![a].fmt = logger[l].fmt] ELSE app
    /\ logger' = [logger EXCEPT ![l].apps = Append(@, a)]
    /\ UNCHANGED <<mgr, m_loggers, file, now, pc, arg, got, sent, written, levelSet>>

DelAppender(t, l, a) ==
    /\ StartCall(t) /\ Count(t) /\ l \in Usable(t)
    /\ logger' = [logger EXCEPT ![l].apps =
                    IF a \in Range(@) THEN RemoveAt(@, SelectInSeq(@, LAMBDA x : x = a))
                    ELSE @]
    /\ UNCHANGED <<mgr, m_loggers, app, file, now, pc, arg, got, sent, written, levelSet>>

(***************************************************************************)
(* Logger::setFormatter(string): make LogFormatter(val) and return when   *)
(* isError(); else setFormatter(ptr): m_formatter = val, and every        *)
(* appender of the list without a formatter of its own takes it.          *)
(***************************************************************************)
SetFormatter(t, l, p) ==
    /\ StartCall(t) /\ Count(t) /\ l \in Usable(t)
    /\ \E garbage \in UninitError :
          IF garbage \/ LF!ParseError(p)
          THEN UNCHANGED <<logger, app>>
          ELSE /\ logger' = [logger EXCEPT ![l].fmt = p]
               /\ app' = [a \in Appenders |->
                            IF a \in Range(logger[l].apps) /\ ~app[a].has
                            THEN [app[a] EXCEPT !.fmt = p] ELSE app[a]]
    /\ UNCHANGED <<mgr, m_loggers, file, now, pc, arg, got, sent, written, levelSet>>

(* LogAppender::setFormatter(ptr): m_formatter = val and m_hasFormatter  *)
(* = (val != nullptr).  The formatter is whatever the caller built; its    *)
(* isError() is not looked at.                                             *)
AppenderSetFormatter(t, a, p) ==
    /\ StartCall(t) /\ Count(t)
    /\ app' = [app EXCEPT ![a].fmt = p, ![a].has = TRUE]
    /\ UNCHANGED <<mgr, m_loggers, logger, file, now, pc, arg, got, sent, written, levelSet>>

(* The clock time(0) reads.                                               *)
Tick == /\ now < MaxTime /\ now' = now + 1
        /\ UNCHANGED <<mgr, m_loggers, logger, app, file, pc, arg, ops, got, sent,
                       written, levelSet>>

Finished == /\ \A t \in Threads : pc[t] = "idle" /\ ops[t] = MaxOps
            /\ UNCHANGED vars

(***************************************************************************)
(* Before the first LOG_NAME the manager is not built: no logger exists.  *)
(* The program's FileLogAppenders are built (reopen truncates their       *)
(* files); the StdOutLogAppender stands for the one LoggerManager() will  *)
(* make.  An appender's m_level is never initialised.                     *)
(***************************************************************************)
Init ==
    /\ mgr = "none"
    /\ m_loggers = [n \in Names |-> None]
    /\ logger = [l \in LoggerObjs |-> None]
    /\ \E lv \in [Appenders -> GarbageLevels] :
          app = [a \in Appenders |->
                   [level |-> lv[a], has |-> FALSE, lastTime |-> 0, fmt |-> Null]]
    /\ file = [a \in Files |-> <<>>]
    /\ now = StartTime
    /\ pc = [t \in Threads |-> "idle"]
    /\ arg = [t \in Threads |-> [name |-> "root", lg |-> Root, lvl |-> DEBUG,
                                 ev |-> [id |-> <<t, 0>>, time |-> StartTime]]]
    /\ ops = [t \in Threads |-> 0]
    /\ got = [t \in Threads |-> {}]
    /\ sent = {} /\ written = {} /\ levelSet = {}

Next ==
    \/ \E t \in Threads :
          \/ \E n \in Names : GetLogger(t, n)
          \/ LoggerManager(t)
          \/ MgrWake(t)
          \/ GetLoggerFind(t)
          \/ GetLoggerInsert(t)
          \/ \E l \in LoggerObjs, lvl \in LogLevels :
                \/ LogStart(t, l, lvl)
                \/ SetLevel(t, l, lvl)
          \/ LogWrite(t)
          \/ \E a \in Files :
                \/ \E lvl \in LogLevels : AppenderSetLevel(t, a, lvl)
                \/ \E l \in LoggerObjs : AddAppender(t, l, a) \/ DelAppender(t, l, a)
                \/ \E p \in Patterns : AppenderSetFormatter(t, a, p)
          \/ \E l \in LoggerObjs, p \in Patterns : SetFormatter(t, l, p)
    \/ Tick
    \/ Finished

Spec == Init /\ [][Next]_vars
-----------------------------------------------------------------------------
Events == [id : Threads \X (0..MaxOps), time : StartTime..MaxTime]
Formatter == Patterns \cup {DefaultPattern}

TypeOK ==
    /\ m_loggers \in [Names -> LoggerObjs \cup {None}]
    /\ \A l \in LoggerObjs : logger[l] # None =>
          /\ logger[l].name \in Names /\ logger[l].level \in LogLevels \cup {DEBUG}
          /\ Range(logger[l].apps) \subseteq Appenders
          /\ logger[l].fmt \in Formatter /\ logger[l].root \in {Root, None}
    /\ app \in [Appenders -> [level : LogLevels \cup GarbageLevels, has : BOOLEAN,
                              lastTime : {0} \cup (StartTime..MaxTime),
                              fmt : Formatter \cup {Null}]]
    /\ \A a \in Files : Range(file[a]) \subseteq Events
    /\ now \in StartTime..MaxTime
    /\ mgr \in {"none", "busy", "done"}
    /\ pc \in [Threads -> {"idle", "mgr_ctor", "mgr_wait", "get_find", "get_insert",
                           "log_write"}]
    /\ ops \in [Threads -> 0..MaxOps]
    /\ got \in [Threads -> SUBSET LoggerObjs]
    /\ written \subseteq sent /\ sent \subseteq Appenders \X Events

(* FileLogAppender::log truncates its file when it reopens it, but an     *)
(* event written at or after the time of the last reopen is still in the *)
(* file, though events are written in another order than stamped.         *)
RecentEntriesKept ==
    \A <<a, ev>> \in written :
        a \in Files /\ ev.time >= app[a].lastTime => ev \in Range(file[a])

(* A log file keeps every event written to it (the reopen was meant to    *)
(* open for append: FSUtil::OpenForWrite(..., std::ios::app)).            *)
FileKeepsEntries ==
    \A <<a, ev>> \in written : a \in Files => ev \in Range(file[a])

(* Every getLogger(name) call returns the logger that m_loggers holds for *)
(* that name: a level or appender set through one caller's logger applies *)
(* to every caller's.                                                     *)
OneLoggerPerName ==
    \A t \in Threads : \A l \in got[t] :
        pc[t] = "idle" => m_loggers[logger[l].name] = l

(* An appender whose level nobody set writes every event its logger hands *)
(* it (LogLevel::UNKNOW, 0, is below every level).                         *)
UnsetLevelPassesAll ==
    \A <<a, ev>> \in sent : a \notin levelSet => <<a, ev>> \in written

(* A log file holds its events in the order of their time stamps.         *)
EntriesInTimeOrder ==
    \A a \in Files : IsSorted(file[a], LAMBDA x, y : x.time <= y.time)
====
