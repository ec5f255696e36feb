----------------------------- MODULE DriverLog -----------------------------
(* The driver's own log: one stream for the whole process, switched by two  *)
(* attributes of the Driver object that any connection string or           *)
(* SQLSetConnectAttr may set, in any order.  The log is a value of the      *)
(* record type below; the module that owns the variable applies the         *)
(* operators.  What is written is reduced to where it goes and to the       *)
(* session headers and footers around it.                                   *)
EXTENDS Integers

CONSTANTS
    LogFile,   \* the names of log files, the empty name NoFile left out
    NoFile,    \* the empty name: the log goes to std::clog
    DefaultLog \* INI_DRIVERLOGFILE_DEFAULT

ASSUME LogAssumption == NoFile \notin LogFile /\ DefaultLog \in LogFile

(* enabled and file are the attributes; name is log_file_name.  A stream is *)
(* "none" when default constructed (good, but open on nothing), "open" when *)
(* its file is, "failed" when a write or the opening has failed.  sessions  *)
(* counts, per file, the session headers written less the footers; lost     *)
(* tells that something was written to a stream open on nothing.            *)
LogType ==
    [ enabled  : BOOLEAN,
      file     : LogFile \cup {NoFile},
      name     : LogFile \cup {NoFile},
      stream   : {"none", "open", "failed"},
      sessions : [LogFile -> Int],
      lost     : BOOLEAN ]

-----------------------------------------------------------------------------
\* writeLogSessionStart(getLogStream()): a stream open on nothing loses the
\* header and is left failed, and what follows goes to std::clog.
SessionStart(log) ==
    CASE log.stream = "open" -> [log EXCEPT !.sessions[log.name] = @ + 1]
      [] log.stream = "none" -> [log EXCEPT !.stream = "failed"]
      [] OTHER               -> log

SessionEnd_Fault(log) == log

\* writeLogSessionEnd(getLogStream()), written to an open stream only.
SessionEnd(log) == [log EXCEPT !.sessions[log.name] = @ - 1]

\* The stream assigned for the name of the attribute; opens says whether the
\* operating system opens the file.
Reopened(log, opens) ==
    SessionStart([log EXCEPT
        !.name   = log.file,
        !.stream = IF log.file = NoFile THEN "none"
                   ELSE IF opens THEN "open" ELSE "failed"])

\* Driver::onAttrChange: the attributes have changed.
OnAttrChange(log, opens) ==
    LET isOpen   == log.stream = "open"
        switched == isOpen /\ log.file # log.name
    IN  IF log.enabled
        THEN IF isOpen /\ ~switched THEN log
             ELSE Reopened(IF switched THEN SessionEnd(log) ELSE log, opens)
        ELSE [ (IF isOpen THEN [SessionEnd(log) EXCEPT !.stream = "none"] ELSE log)
               EXCEPT !.name = NoFile ]

\* AttributeContainer::setAttr calls onAttrChange for a new value only.
SetLogEnabled(log, on, opens) ==
    IF log.enabled = on THEN log
    ELSE OnAttrChange([log EXCEPT !.enabled = on], opens)

SetLogFile(log, file, opens) ==
    IF log.file = file THEN log
    ELSE OnAttrChange([log EXCEPT !.file = file], opens)

\* The Driver constructor: the switch silently, then the file.
InitialLog(on, opens) ==
    OnAttrChange(
        [ enabled |-> on, file |-> DefaultLog, name |-> NoFile, stream |-> "none",
          sessions |-> [f \in LogFile |-> 0], lost |-> FALSE ], opens)

\* The LOG macro: what is written to a stream open on nothing is lost.
Message(log) ==
    IF log.enabled /\ log.stream = "none"
    THEN [log EXCEPT !.stream = "failed", !.lost = TRUE]
    ELSE log
=============================================================================
