---------------------------------- MODULE Repl ----------------------------------
(***************************************************************************)
(* gemini-cpp chat: the loop of cmd_chat() that reads lines and sends them *)
(* through a ChatSession, beside the handler of SIGINT. The handler may    *)
(* run between any two steps; it sets a flag that the printer of chunks    *)
(* looks at. Lines that change nothing (blank ones, /usage, /history) and  *)
(* what is printed are left out.                                           *)
(***************************************************************************)
EXTENDS ChatSession

VARIABLES
    repl,           \* cmd_chat(): "open", "exited", or "terminated" by an exception
    g_interrupted,  \* the flag
    pressed         \* history: Ctrl-C has been pressed since this line was taken up

replVars == <<repl, g_interrupted, pressed>>

ReplInit ==
    /\ Init
    /\ repl = "open"
    /\ g_interrupted = FALSE
    /\ pressed = FALSE

\* The handler: at the prompt or during a reply.
on_sigint ==
    /\ repl = "open"
    /\ g_interrupted' = TRUE
    /\ pressed' = TRUE
    /\ UNCHANGED <<vars, repl>>

\* /exit, /quit or the end of the input.
Quit ==
    /\ repl = "open"
    /\ at = "idle"
    /\ repl' = "exited"
    /\ UNCHANGED <<vars, g_interrupted, pressed>>

\* /reset
Reset == repl = "open" /\ reset /\ UNCHANGED replVars

\* Mutant of TakeUp: the flag keeps an old Ctrl-C.
TakeUpAsItIs == UNCHANGED g_interrupted
TakeUp == g_interrupted' = FALSE

\* Any other line.
Line ==
    /\ repl = "open"
    /\ TakeUp
    /\ pressed' = FALSE
    /\ send(TRUE)
    /\ UNCHANGED repl

\* The session gives the printer a chunk: it asks to stop if the flag is set.
stdout_printer ==
    /\ repl = "open"
    /\ Chunk
    /\ stopped' = [stopped EXCEPT ![me] = g_interrupted]
    /\ UNCHANGED replVars

\* The rest of send(). Whatever it returns, cmd_chat() goes on with the next line.
Answer ==
    /\ repl = "open"
    /\ \/ Ask \/ GiveUp \/ Fail \/ NoCandidates
       \/ \E calls \in 0..MaxCalls : Reply(calls)
       \/ RunTool \/ FeedBack
    /\ UNCHANGED replVars

\* Nothing in cmd_chat() or main() catches an exception.
Terminate ==
    /\ repl = "open"
    /\ Raise
    /\ repl' = "terminated"
    /\ UNCHANGED <<g_interrupted, pressed>>

ReplNext == on_sigint \/ Quit \/ Reset \/ Line \/ stdout_printer \/ Answer \/ Terminate

ReplSpec == ReplInit /\ [][ReplNext]_<<vars, replVars>>

-----------------------------------------------------------------------------
\* main.cpp:219: "Ctrl-C cancels a reply". A stream is told to stop at the first chunk after
\* a Ctrl-C, in every request of the tool loop that is under way, and never because of one
\* that was pressed before this line: at the prompt, or during an earlier reply.
CutByItsOwnCtrlC ==
    [][repl = "open" /\ Len(shown'[me]) > Len(shown[me]) => stopped'[me] = pressed]_<<vars, replVars>>

=============================================================================
