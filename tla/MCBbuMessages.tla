---------- MODULE MCBbuMessages ----------
(***************************************************************************)
(* A catalogue of messages and configuration files for BbuMessages.        *)
(***************************************************************************)
EXTENDS BbuMessages

IE(item, form)     == [item |-> item, form |-> form, val |-> 0]
Period(form, secs) == [item |-> "period", form |-> form, val |-> secs]
Msg(id, paau, ies, len) == [id |-> id, paau |-> paau, ies |-> ies, len |-> len]

MCGarbage == Msg("unknown", "own", <<>>, 0)

MCMessages ==
    { Msg("setup", "own", <<IE("time", "good"), IE("beams", "good")>>, 3),
      Msg("setup", "broadcast", <<>>, 1),
      Msg("heartbeat", "own", <<>>, 1),
      Msg("handed_on", "own", <<>>, 1),
      Msg("status", "own", <<IE("calib", "good"), IE("lo", "good")>>, 2),
      Msg("status", "own", <<IE("all_beams", "good"), IE("all_beams", "good")>>, 2),
      Msg("param_query", "own", <<Period("good", 0), IE("temp", "short")>>, 2),
      Msg("param_config", "own", <<Period("good", 30), IE("mode", "good"), IE("mode", "bad")>>, 3),
      Msg("param_config", "own", <<Period("bad", 4000), IE("time", "good"),
                                   IE("mode", "broken")>>, 3),
      Msg("param_config", "foreign", <<Period("good", 10), IE("time", "short")>>, 2),
      Msg("alarm_query", "own", <<IE("alarm", "good")>>, 2),
      Msg("loopback", "own", <<IE("loopback", "good")>>, 2),
      Msg("loopback", "own", <<IE("loopback", "bad")>>, 2),
      Msg("reset", "own", <<IE("soft", "good")>>, 2),
      Msg("reset", "own", <<IE("hard", "good")>>, 2),
      Msg("transparent", "own", <<IE("content", "good"), IE("target", "good")>>, 5),
      Msg("transparent", "own", <<IE("target", "good")>>, 2),
      Msg("transparent", "own", <<IE("content", "good"), IE("target", "broken")>>, 4),
      Msg("calib", "own", <<IE("calib", "good")>>, 2),
      Msg("unknown", "own", <<>>, 1) }

(* As delivered, and with every switch the other way.                       *)
MCConfigs ==
    { [PAAU_ID_CHECK |-> 1, CALIB_QUERY_REPORT_REAL |-> 1, TRANSPARENT_ENABLE |-> 1,
       TRANSPARENT_AUTO_REPLY |-> 1, RESET_RESTART_SERVICE |-> 1, RESET_REBOOT_SYSTEM |-> 0],
      [PAAU_ID_CHECK |-> 2, CALIB_QUERY_REPORT_REAL |-> 0, TRANSPARENT_ENABLE |-> 0,
       TRANSPARENT_AUTO_REPLY |-> 0, RESET_RESTART_SERVICE |-> 0, RESET_REBOOT_SYSTEM |-> 1] }
====================
