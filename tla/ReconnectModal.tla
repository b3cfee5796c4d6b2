---------------------------- MODULE ReconnectModal ----------------------------
(***************************************************************************)
(* The admin page's reconnection dialog                                    *)
(* (src/LLMCostControl.Admin.App/Components/Layout/ReconnectModal.razor.js)*)
(* with the Blazor client it calls and is called by, which is external and *)
(* modelled from that use (the comments at lines 26-30 among it).  JS runs *)
(* a handler to its next await: every await is a call of its own, and any  *)
(* number of them may be pending.                                          *)
(***************************************************************************)

CONSTANT
    Calls           \* bound: how many retry() and resume() may be pending at once

VARIABLES
    circuit,        \* "up"; "down": connection lost, the server still has the circuit;
                    \* "kept": only its saved state is left; "gone": nothing is
    reachable,      \* the server answers
    display,        \* the class of the dialog, without "components-reconnect-"
    modalOpen,      \* the dialog is open, and the page behind it inert
    dismissed,      \* history: the user closed it since it was last opened
    listening,      \* retryWhenDocumentBecomesVisible listens to visibilitychange
    visible,        \* document.visibilityState
    calls,          \* the await each pending call is in
    reloading       \* location.reload() has been called

modalVars == <<circuit, reachable, display, modalOpen, dismissed, listening,
               visible, calls, reloading>>
blazorVars == <<circuit, reachable, display>>

Awaits == {"none", "reconnect", "retryResume", "resume"}
\* "show" also stands for "retrying", which differs in the text only.
Displays == {"hide", "show", "failed", "rejected", "paused", "resume-failed"}
ResumeShown == {"paused", "resume-failed"}
Retrying(c) == calls[c] \in {"reconnect", "retryResume"}

\* A page that has just loaded, on a circuit of its own.
ModalInit ==
    /\ visible \in BOOLEAN
    /\ circuit = "up" /\ reachable = TRUE /\ display = "hide"
    /\ modalOpen = FALSE /\ dismissed = FALSE
    /\ listening = FALSE /\ reloading = FALSE
    /\ calls = [c \in Calls |-> "none"]

-------------------------------------------------------------------------------
(* The page's handlers.                                                    *)

\* Mutants: a rejection does not reload, a success does not close, a failure is not
\* listened for.
HandleReconnectStateChanged_NoReload(state) ==
    /\ modalOpen' = (state = "show" \/ (modalOpen /\ state # "hide"))
    /\ dismissed' = (dismissed /\ state \notin {"show", "hide"})
    /\ listening' = (state = "failed" \/ listening)
    /\ reloading' = reloading
HandleReconnectStateChanged_StaysOpen(state) ==
    /\ modalOpen' = (state = "show" \/ modalOpen)
    /\ dismissed' = (dismissed /\ state # "show")
    /\ listening' = (state = "failed" \/ listening)
    /\ reloading' = (state = "rejected" \/ reloading)
HandleReconnectStateChanged_Deaf(state) ==
    /\ modalOpen' = (state = "show" \/ (modalOpen /\ state # "hide"))
    /\ dismissed' = (dismissed /\ state \notin {"show", "hide"})
    /\ listening' = listening
    /\ reloading' = (state = "rejected" \/ reloading)
HandleReconnectStateChanged(state) ==
    /\ modalOpen' = (state = "show" \/ (modalOpen /\ state # "hide"))
    /\ dismissed' = (dismissed /\ state \notin {"show", "hide"})
    /\ listening' = (state = "failed" \/ listening)
    /\ reloading' = (state = "rejected" \/ reloading)

\* To the first await.
Retry(c) ==
    /\ calls[c] = "none"
    /\ calls' = [calls EXCEPT ![c] = "reconnect"]
    /\ listening' = FALSE
    /\ UNCHANGED <<blazorVars, modalOpen, dismissed, reloading>>

Resume(c) ==
    /\ calls[c] = "none"
    /\ calls' = [calls EXCEPT ![c] = "resume"]
    /\ UNCHANGED <<blazorVars, modalOpen, dismissed, listening, reloading>>

\* Being hidden calls the listener too, which does nothing then.
RetryWhenDocumentBecomesVisible ==
    IF ~visible /\ listening
    THEN \E c \in Calls : Retry(c)
    ELSE UNCHANGED <<blazorVars, modalOpen, dismissed, listening, calls, reloading>>

Return(c) == calls' = [calls EXCEPT ![c] = "none"]

\* The circuit is up again: Blazor says so before it resolves the promise.
BackUp ==
    /\ circuit' = "up" /\ display' = "hide"
    /\ HandleReconnectStateChanged("hide")
    /\ UNCHANGED <<reachable, visible>>

ReconnectSucceeds(c) ==
    /\ calls[c] = "reconnect" /\ reachable /\ circuit \in {"up", "down"}
    /\ BackUp /\ Return(c)

\* Mutant: the page is given up without an attempt to resume.
ReconnectRefused_Reloads(c) ==
    /\ calls[c] = "reconnect" /\ reachable /\ circuit \in {"kept", "gone"}
    /\ reloading' = TRUE
    /\ Return(c)
    /\ UNCHANGED <<blazorVars, modalOpen, dismissed, listening, visible>>
ReconnectRefused(c) ==
    /\ calls[c] = "reconnect" /\ reachable /\ circuit \in {"kept", "gone"}
    /\ calls' = [calls EXCEPT ![c] = "retryResume"]
    /\ UNCHANGED <<blazorVars, modalOpen, dismissed, listening, visible, reloading>>

\* Mutant: the listener taken away at the start of the retry is not put back.
RetryThrows_Deaf(c) ==
    /\ Retrying(c) /\ ~reachable
    /\ Return(c)
    /\ UNCHANGED <<blazorVars, modalOpen, dismissed, listening, visible, reloading>>
RetryThrows(c) ==
    /\ Retrying(c) /\ ~reachable
    /\ listening' = TRUE
    /\ Return(c)
    /\ UNCHANGED <<blazorVars, modalOpen, dismissed, visible, reloading>>

\* Of retry() and of resume(): the first also closes the dialog itself.
ResumeSucceeds(c) ==
    /\ calls[c] \in {"retryResume", "resume"} /\ reachable /\ circuit # "gone"
    /\ BackUp /\ Return(c)

ResumeRefused(c) ==
    /\ calls[c] \in {"retryResume", "resume"} /\ reachable /\ circuit = "gone"
    /\ reloading' = TRUE
    /\ Return(c)
    /\ UNCHANGED <<blazorVars, modalOpen, dismissed, listening, visible>>

ResumeThrows(c) ==
    /\ calls[c] = "resume" /\ ~reachable
    /\ display' = IF display = "paused" THEN "resume-failed" ELSE display
    /\ Return(c)
    /\ UNCHANGED <<circuit, reachable, modalOpen, dismissed, listening, visible, reloading>>

-------------------------------------------------------------------------------
(* The user and the browser.                                               *)

ClickRetry(c) ==
    /\ visible /\ modalOpen /\ display = "failed"
    /\ Retry(c) /\ UNCHANGED visible

ClickResume(c) ==
    /\ visible /\ modalOpen /\ display \in ResumeShown
    /\ Resume(c) /\ UNCHANGED visible

\* A modal dialog closes at Escape: nothing here handles its cancel event.
Dismiss ==
    /\ visible /\ modalOpen
    /\ modalOpen' = FALSE /\ dismissed' = TRUE
    /\ UNCHANGED <<blazorVars, listening, visible, calls, reloading>>

VisibilityChange ==
    /\ visible' = ~visible
    /\ RetryWhenDocumentBecomesVisible

\* The server renders the page anew; the document is another one.
Reloaded ==
    /\ reloading /\ reachable
    /\ circuit' = "up" /\ display' = "hide"
    /\ modalOpen' = FALSE /\ dismissed' = FALSE
    /\ listening' = FALSE /\ reloading' = FALSE
    /\ calls' = [c \in Calls |-> "none"]
    /\ UNCHANGED <<reachable, visible>>

-------------------------------------------------------------------------------
(* The server and Blazor's own reconnection, between its events.           *)

Drop ==
    /\ circuit = "up"
    /\ circuit' \in {"down", "gone"} /\ reachable' \in BOOLEAN
    /\ display' = "show"
    /\ HandleReconnectStateChanged("show")
    /\ UNCHANGED <<visible, calls>>

\* The server saves the circuit and lets it go.
Pause ==
    /\ circuit = "up"
    /\ circuit' = "kept" /\ display' = "paused"
    /\ HandleReconnectStateChanged("show")
    /\ UNCHANGED <<reachable, visible, calls>>

Forget ==
    /\ \/ circuit = "down" /\ circuit' \in {"kept", "gone"}
       \/ circuit = "kept" /\ circuit' = "gone"
    /\ UNCHANGED <<reachable, display, modalOpen, dismissed, listening, visible,
                   calls, reloading>>

ReachableChange ==
    /\ circuit # "up"
    /\ reachable' = ~reachable
    /\ UNCHANGED <<circuit, display, modalOpen, dismissed, listening, visible,
                   calls, reloading>>

BlazorReconnects ==
    /\ display = "show" /\ reachable /\ circuit # "gone"
    /\ BackUp /\ UNCHANGED calls

BlazorIsRejected ==
    /\ display = "show" /\ reachable /\ circuit = "gone"
    /\ display' = "rejected"
    /\ HandleReconnectStateChanged("rejected")
    /\ UNCHANGED <<circuit, reachable, visible, calls>>

BlazorGivesUp ==
    /\ display = "show" /\ ~reachable
    /\ display' = "failed"
    /\ HandleReconnectStateChanged("failed")
    /\ UNCHANGED <<circuit, reachable, visible, calls>>
===============================================================================
