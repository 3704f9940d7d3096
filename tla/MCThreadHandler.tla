---------------------------- MODULE MCThreadHandler ----------------------------
(***************************************************************************)
(* Small instances of ThreadHandler, one for each kind of handler, on      *)
(* Linux and on Windows.                                                   *)
(***************************************************************************)
EXTENDS HandlersWindows

Instance(outcomes, maxOpens, maxSends, maxBytes) ==
  [outcomes |-> outcomes, opens |-> maxOpens, sends |-> maxSends, bytes |-> maxBytes]

OpenOutcome == {"opened", "failed"}

MCHandlers ==
  [Linux   |-> [tcpClient |-> Instance(OpenOutcome \cup {"failedWithoutErrno"}, 2, 3, 3), tcpServer |-> Instance({}, 0, 3, 4),
                udp |-> Instance(OpenOutcome, 2, 2, 1), serial |-> Instance(OpenOutcome, 2, 2, 2)],
   Windows |-> [tcpClient |-> Instance(OpenOutcome \cup {"failedWithoutErrno"}, 2, 2, 2), tcpServer |-> Instance({}, 0, 2, 4),
                udp |-> Instance(OpenOutcome, 2, 2, 1), serial |-> Instance(OpenOutcome, 2, 1, 2)]]

MCStep == (~OnWindows /\ ThreadStep) \/ (OnWindows /\ WindowsStep)

(* The thread runs, time passes, and a connect ends (TCP_SYNCNT).          *)
MCSpec ==
  /\ HandlersSpec
  /\ WF_handlerVars(MCStep) /\ WF_handlerVars(TimePasses) /\ WF_handlerVars(ConnectEnds)
================================================================================
