---------- MODULE BbuMessages ----------
(***************************************************************************)
(* What the receive thread does with the messages CpriStream cuts out:     *)
(* main.c and msg_handler_dispatch decide whether a message counts, and    *)
(* the handlers of msg_handler.c, channel_setup.c, status_query.c,         *)
(* param_query.c, param_config.c, alarm_query.c, loopback.c, reset.c,      *)
(* transparent_msg.c and phased_array_calib.c change the program, command  *)
(* the FPGA through fpga_handler.c and answer.                             *)
(*                                                                         *)
(* A message is a record with its length, its id, the unit it is addressed *)
(* to ("own", "broadcast" or "foreign") and its information elements; each *)
(* of these has an item, a value where one matters, and a form: "good",    *)
(* "bad" (a value out of range), "short" (shorter than the structure it is *)
(* read as) or "broken" (an impossible length, which ends the parse).      *)
(***************************************************************************)
EXTENDS CpriStream, FiniteSetsExt

CONSTANTS
    Configs,          \* contents of the configuration file that are looked at
    RESP_SIZE,        \* what an encoded answer may hold (buffer[2048])
    BEAMS,            \* answers to one query for all beams (16)
    DefaultPeriod     \* g_cpu_stat_period at start (60 s)

VARIABLES
    conf,                   \* the configuration file
    g_cpu_stat_period,
    status_valid,           \* a telemetry frame has been stored in g_fpga_status
    restart,                \* what reset_schedule_action was told to run
    effects,                \* history: what the last message really did
    answer,                 \* history: what it was answered
    confirmed               \* history: the statistics period confirmed last

handlerVars == <<conf, g_cpu_stat_period, status_valid, restart,
                 effects, answer, confirmed>>
vars == <<streamVars, handlerVars>>

NoAnswer   == [sent |-> FALSE, results |-> {}]
Answer(rs) == [sent |-> TRUE, results |-> rs]

(* The state of a process that has just started                             *)
Init ==
    /\ StreamInit
    /\ conf \in Configs
    /\ g_cpu_stat_period = DefaultPeriod
    /\ status_valid = FALSE /\ restart = "no"
    /\ effects = {} /\ answer = NoAnswer /\ confirmed = DefaultPeriod

--------------------
(* Admission                                                                *)

(* g_msg_handlers, and the transparent messages from BBU to PAAU            *)
Registered == {"setup", "heartbeat", "calib", "status", "param_query", "param_config",
               "alarm_query", "handed_on", "loopback", "reset", "transparent"}
msg_id_is_accepted(m) == m.id \in Registered

paau_id_accept(m) == conf.PAAU_ID_CHECK < 2 \/ m.paau \in {"own", "broadcast"}

(* msg_handler_dispatch reaches the handler of message m.                   *)
Dispatch(m, id) ==
    /\ TakeMessage(m)
    /\ msg_id_is_accepted(m) /\ paau_id_accept(m)
    /\ m.id = id
    /\ UNCHANGED <<conf, status_valid>>

(* Information elements up to the first one that ends the parse.            *)
Parsed(m) == {i \in DOMAIN m.ies : \A j \in 1..i : m.ies[j].form # "broken"}
Good(m)   == {i \in Parsed(m) : m.ies[i].form = "good"}
Items(m, I) == {m.ies[i].item : i \in I}

(* A message whose one element the handler of msg_handler.c cannot read.    *)
TooShort(m) == m.ies = <<>> \/ m.ies[1].form \in {"short", "broken"}

(* A message that is dropped: unknown id, or addressed to another unit.     *)
Drop(m) ==
    /\ TakeMessage(m)
    /\ ~(msg_id_is_accepted(m) /\ paau_id_accept(m))
    /\ effects' = {} /\ answer' = NoAnswer
    /\ UNCHANGED <<conf, g_cpu_stat_period, status_valid, restart, confirmed>>

--------------------
(* Handlers                                                                 *)

(* The sets of elements whose command may get through: fpga_send_* encodes  *)
(* one, and the write to the serial port succeeds or not.                   *)
Outcomes(m) == SUBSET Good(m)

(* The same for the handlers that read the first element only               *)
FirstOutcomes(m) == SUBSET (Good(m) \cap {1})

(* channel_setup_handle_config: time, operation mode, beams and CPRI mode,  *)
(* each without looking at the result; then the answer.  A config without   *)
(* payload is refused.  Channel flag and heartbeat are those of BbuLink.    *)
HandleSetup(m) ==
    /\ Dispatch(m, "setup")
    /\ \E done \in Outcomes(m) : effects' = Items(m, done)
    /\ answer' = IF m.ies = <<>> THEN NoAnswer ELSE Answer({<<"setup", "success">>})
    /\ UNCHANGED <<g_cpu_stat_period, restart, confirmed>>

(* heartbeat_handle_bbu refreshes the heartbeat (module BbuLink).           *)
HandleHeartbeat(m) ==
    /\ Dispatch(m, "heartbeat")
    /\ effects' = {} /\ answer' = NoAnswer
    /\ UNCHANGED <<g_cpu_stat_period, restart, confirmed>>

(* Cell configs, log uploads, version messages go to their own modules.     *)
HandOn(m) ==
    /\ Dispatch(m, "handed_on")
    /\ effects' = {} /\ answer' = NoAnswer
    /\ UNCHANGED <<g_cpu_stat_period, restart, confirmed>>

(* Values of status items; without telemetry each has its default.          *)
StatusValue(item) ==
    CASE item = "calib"     -> IF conf.CALIB_QUERY_REPORT_REAL = 0 THEN "ok"
                               ELSE IF status_valid THEN "telemetry" ELSE "unavailable"
      [] item = "all_beams" -> IF status_valid THEN "telemetry" ELSE "disabled"
      [] OTHER              -> IF status_valid THEN "telemetry" ELSE "ok"

AnswerSize(m) == MapThenSumSet(LAMBDA i : IF m.ies[i].item = "all_beams" THEN BEAMS ELSE 1,
                               Parsed(m))

(* status_query_create_response.  An answer that does not fit the encoding  *)
(* buffer is dropped without a word.                                        *)
HandleStatusQuery(m) ==
    /\ Dispatch(m, "status")
    /\ effects' = {}
    /\ answer' = IF AnswerSize(m) > RESP_SIZE THEN NoAnswer
                 ELSE Answer({<<i, StatusValue(i)>> : i \in Items(m, Parsed(m))})
    /\ UNCHANGED <<g_cpu_stat_period, restart, confirmed>>

(* param_query_handle_request: temperatures, powers and delays come from    *)
(* telemetry or are 0; the period is the configured one.                    *)
ParamValue(item) ==
    IF item = "period" THEN g_cpu_stat_period
    ELSE IF status_valid THEN 1 ELSE 0

HandleParamQuery(m) ==
    /\ Dispatch(m, "param_query")
    /\ effects' = {}
    /\ answer' = IF AnswerSize(m) > RESP_SIZE THEN NoAnswer
                 ELSE Answer({<<i, ParamValue(i)>> : i \in Items(m, Good(m))})
    /\ UNCHANGED <<g_cpu_stat_period, restart, confirmed>>

(* The last of the period elements in I gives the value.                    *)
LastPeriod(m, I, old) ==
    LET P == {i \in I : m.ies[i].item = "period"}
    IN  IF P = {} THEN old ELSE m.ies[Max(P)].val

(* Slip of Stored: the period is stored before its range is checked.        *)
StoredUnchecked(m) == {i \in Parsed(m) : m.ies[i].form \in {"good", "bad"}}

(* The elements whose value param_config_set_cpu_period stores              *)
Stored(m) == Good(m)

(* Slip of ConfigResult: success is the answer until something fails.       *)
ConfigResultOptimistic(m, item, done) ==
    IF \E i \in Good(m) : m.ies[i].item = item THEN "success" ELSE "failure"

(* handle_config_ie: an item succeeded when one of its elements did.        *)
ConfigResult(m, item, done) ==
    IF \E i \in done : m.ies[i].item = item THEN "success" ELSE "failure"

(* param_config: the time needs settimeofday, the mode the FPGA; the period *)
(* is only stored.  Every element looked at is answered.                    *)
HandleParamConfig(m) ==
    /\ Dispatch(m, "param_config")
    /\ \E sys \in {o \in Outcomes(m) : "period" \notin Items(m, o)} :
          LET done == sys \cup {i \in Good(m) : m.ies[i].item = "period"}
          IN  /\ effects' = Items(m, done)
              /\ g_cpu_stat_period' = LastPeriod(m, Stored(m), g_cpu_stat_period)
              /\ confirmed' = LastPeriod(m, done, confirmed)
              /\ answer' = Answer({<<item, ConfigResult(m, item, done)>> :
                                      item \in Items(m, Parsed(m)) \cap {"time", "period", "mode"}})
    /\ UNCHANGED restart

(* handle_alarm_query_request: alarms of AlarmManager's table that are      *)
(* active and began within the last 24 hours of the wall clock, else one    *)
(* answer that there is none.                                               *)
HandleAlarmQuery(m) ==
    /\ Dispatch(m, "alarm_query")
    /\ effects' = {}
    /\ IF TooShort(m) THEN answer' = NoAnswer
       ELSE \/ answer' = Answer({<<"alarm", "active">>})
            \/ answer' = Answer({<<"alarm", "not found or already cleared">>})
    /\ UNCHANGED <<g_cpu_stat_period, restart, confirmed>>

(* handle_loopback_request: a request with a value out of range raises an   *)
(* alarm and is refused, a valid one is answered with the result of the     *)
(* command; one that is too short is dropped.                               *)
HandleLoopback(m) ==
    /\ Dispatch(m, "loopback")
    /\ \E done \in FirstOutcomes(m) :
          /\ effects' = Items(m, done)
          /\ answer' = IF TooShort(m) THEN NoAnswer
                       ELSE Answer({<<"loopback", IF done # {} THEN "success" ELSE "failure">>})
    /\ UNCHANGED <<g_cpu_stat_period, restart, confirmed>>

(* reset_schedule_action, as far as the configuration file allows           *)
Scheduled(m) ==
    CASE m.ies[1].item = "soft" /\ conf.RESET_RESTART_SERVICE = 1 -> "service"
      [] m.ies[1].item = "hard" /\ conf.RESET_REBOOT_SYSTEM = 1   -> "system"
      [] OTHER -> restart

(* handle_reset_indication: the command to the FPGA, and only when it went  *)
(* out the restart of the service or the system; an unknown kind raises an  *)
(* alarm.  Never answered.                                                  *)
HandleReset(m) ==
    /\ Dispatch(m, "reset")
    /\ \E done \in FirstOutcomes(m) :
          /\ effects' = Items(m, done)
          /\ restart' = IF 1 \in done THEN Scheduled(m) ELSE restart
    /\ answer' = NoAnswer
    /\ UNCHANGED <<g_cpu_stat_period, confirmed>>

(* transparent_msg_parse refuses a message with one broken element or       *)
(* without content; of several contents the last one counts.                *)
Contents(m) == {i \in DOMAIN m.ies : m.ies[i].item = "content"}
transparent_msg_parse(m) ==
    /\ \A i \in DOMAIN m.ies : m.ies[i].form # "broken"
    /\ Contents(m) # {}

(* transparent_msg_handle: the content, cut at its trailing zeros, is       *)
(* written to the FPGA as it is ("short": nothing is left of it); then it   *)
(* is sent back.                                                            *)
HandleTransparent(m) ==
    /\ Dispatch(m, "transparent")
    /\ IF conf.TRANSPARENT_ENABLE = 1 /\ transparent_msg_parse(m)
       THEN LET content == Good(m) \cap {Max(Contents(m))} IN
            \E done \in SUBSET content :
               /\ effects' = Items(m, done)
               /\ answer' = IF done = content /\ conf.TRANSPARENT_AUTO_REPLY = 1
                            THEN Answer({<<"content", "echo">>}) ELSE NoAnswer
       ELSE effects' = {} /\ answer' = NoAnswer
    /\ UNCHANGED <<g_cpu_stat_period, restart, confirmed>>

(* handle_phased_array_calib_request: the answer tells whether the command  *)
(* was sent, the result comes with later telemetry.                         *)
HandleCalib(m) ==
    /\ Dispatch(m, "calib")
    /\ IF m.ies = <<>>
       THEN effects' = {} /\ answer' = NoAnswer
       ELSE \/ effects' = {"calib"} /\ answer' = Answer({<<"calib", "success">>})
            \/ effects' = {} /\ answer' = Answer({<<"calib", "failure">>})
    /\ UNCHANGED <<g_cpu_stat_period, restart, confirmed>>

--------------------
(* The rest of the program and the world                                    *)

(* The stream's own steps                                                   *)
Receive == /\ \/ \E m \in Messages : BbuSend(m)
              \/ \E n \in 1..RECV_SIZE : TcpRecv(n)
              \/ ParseWait \/ ParseInvalid
           /\ UNCHANGED handlerVars

(* on_tcp_disconnected                                                      *)
LoseConnection ==
    /\ Disconnect
    /\ effects' = {} /\ answer' = NoAnswer
    /\ UNCHANGED <<conf, g_cpu_stat_period, status_valid, restart, confirmed>>

(* fpga_handler_on_status_update: telemetry replaces the last status.       *)
FpgaStatus ==
    /\ status_valid' = TRUE
    /\ UNCHANGED <<streamVars, conf, g_cpu_stat_period, restart, effects, answer,
                   confirmed>>

(* Two seconds after reset_schedule_action systemctl or shutdown ends the   *)
(* process, in an orderly way; a new one starts.                            *)
Restart ==
    /\ restart # "no"
    /\ Disconnect
    /\ g_cpu_stat_period' = DefaultPeriod
    /\ status_valid' = FALSE /\ restart' = "no"
    /\ effects' = {} /\ answer' = NoAnswer /\ confirmed' = DefaultPeriod
    /\ UNCHANGED conf

Handle(m) == \/ HandleSetup(m) \/ HandleHeartbeat(m) \/ HandOn(m)
             \/ HandleStatusQuery(m) \/ HandleParamQuery(m) \/ HandleParamConfig(m)
             \/ HandleAlarmQuery(m) \/ HandleLoopback(m) \/ HandleReset(m)
             \/ HandleTransparent(m) \/ HandleCalib(m) \/ Drop(m)

Next == \/ Receive
        \/ \E m \in Messages \cup {Garbage} : Handle(m)
        \/ LoseConnection \/ FpgaStatus \/ Restart

Spec == Init /\ [][Next]_vars

--------------------
(* A command is answered with success exactly when it took effect, element  *)
(* by element, even when writes to the FPGA fail half-way through a message *)
(* (param_config.c, loopback.c, phased_array_calib.c).                      *)
AnswerTruthful ==
    last.id \in {"param_config", "loopback", "calib"} /\ answer.sent =>
        \A r \in answer.results :
            (r[2] = "success") <=> (\E e \in effects : e = r[1] \/ last.id = "loopback")

(* A query reports the statistics period that was confirmed last, whatever  *)
(* was refused, lost or sent on other connections in between.               *)
QueryReportsConfirmed ==
    last.id = "param_query" =>
        \A r \in answer.results : r[1] = "period" => r[2] = confirmed

(* msg_handler.c, line 226: a setup config is answered with 0 for success.  *)
SetupAnswerTruthful ==
    last.id = "setup" /\ answer.sent => effects = Items(last, Good(last))
====================
