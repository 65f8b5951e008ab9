---------------------------- MODULE MCChatSession ----------------------------
(***************************************************************************)
(* A small instance of ChatSession, used by some program in any order of   *)
(* calls, or by the REPL.                                                  *)
(***************************************************************************)
EXTENDS Repl

\* The codes send() itself makes, the one a stopped stream may end in, and another.
SomeErrorCodes == {"kParse", "kInvalidArgument", "kBlocked", "kTransport"}
Everywhere == {"encode", "callback", "handler", "observer"}

ByProgram(A) == repl = "none" /\ A /\ UNCHANGED replVars

MCInit == ReplInit \/ (Init /\ repl = "none" /\ g_interrupted = FALSE /\ pressed = FALSE)
MCNext == ByProgram(Next) \/ ReplNext
MCStep == ByProgram(Step) \/ stdout_printer \/ Answer \/ Terminate
MCSpec == MCInit /\ [][MCNext]_<<vars, replVars>>
MCFairSpec == MCSpec /\ WF_<<vars, replVars>>(MCStep)

=============================================================================
