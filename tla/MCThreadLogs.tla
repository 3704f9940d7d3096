---------------------------- MODULE MCThreadLogs ----------------------------
(***************************************************************************)
(* Loads for ThreadLogs.                                                   *)
(***************************************************************************)
EXTENDS ThreadLogs

Plain ==
  [wide |-> {}, debug |-> {}, signals |-> FALSE, messages |-> 3, days |-> 1, failures |-> 0, changes |-> 0, rewrites |-> 0]

(* Wide characters over midnight; writes that stop short, with wide        *)
(* characters, over midnight, and when a signal comes; changes of the      *)
(* level; texts for another file; a signal.                                *)
MCLoads ==
  {[Plain EXCEPT !.wide = {1, 2}, !.days = 2],
   [Plain EXCEPT !.failures = 2, !.messages = 2],
   [Plain EXCEPT !.wide = {1, 2}, !.failures = 1, !.messages = 2],
   [Plain EXCEPT !.days = 2, !.failures = 1, !.messages = 2],
   [Plain EXCEPT !.signals = TRUE, !.wide = {2}, !.failures = 1, !.messages = 2],
   [Plain EXCEPT !.debug = {2, 3}, !.changes = 2],
   [Plain EXCEPT !.rewrites = 3, !.messages = 0],
   [Plain EXCEPT !.signals = TRUE]}

(* Texts of wide characters, and one write that stops short.               *)
WideFailing == {[Plain EXCEPT !.wide = {1, 2}, !.failures = 1, !.messages = 2]}
=============================================================================
