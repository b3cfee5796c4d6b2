------------------------------- MODULE AdminPage -------------------------------
(***************************************************************************)
(* The admin page in a browser: its dialog over its menu.                  *)
(***************************************************************************)
EXTENDS ReconnectModal, NavMenu

vars == <<modalVars, navVars>>

Init == ModalInit /\ NavInit

Next ==
    \/ /\ UNCHANGED navVars
       /\ \/ \E c \in Calls :
                  \/ ReconnectSucceeds(c)
                  \/ ReconnectRefused(c)
                  \/ RetryThrows(c)
                  \/ ResumeSucceeds(c)
                  \/ ResumeRefused(c)
                  \/ ResumeThrows(c)
                  \/ ClickRetry(c)
                  \/ ClickResume(c)
          \/ Dismiss
          \/ VisibilityChange
          \/ Drop
          \/ Pause
          \/ Forget
          \/ ReachableChange
          \/ BlazorReconnects
          \/ BlazorIsRejected
          \/ BlazorGivesUp
    \/ /\ UNCHANGED modalVars
       /\ \/ ~modalOpen /\ ClickToggler
          \/ ~modalOpen /\ ClickMenu
          \/ Resize
    \/ Reloaded /\ NavReloaded

Spec == Init /\ [][Next]_vars

\* A promise is settled, Blazor's reconnection ends, the browser loads.  What the
\* user, the server and the network do is not fair.
Answered(c) ==
    /\ UNCHANGED navVars
    /\ \/ ReconnectSucceeds(c) \/ ReconnectRefused(c) \/ RetryThrows(c)
       \/ ResumeSucceeds(c) \/ ResumeRefused(c) \/ ResumeThrows(c)

BlazorEnds ==
    /\ UNCHANGED navVars
    /\ BlazorReconnects \/ BlazorIsRejected \/ BlazorGivesUp

FairSpec ==
    /\ Spec
    /\ \A c \in Calls : WF_vars(Answered(c))
    /\ WF_vars(BlazorEnds)
    /\ WF_vars(Reloaded /\ NavReloaded)

--------------------------------------------------------------------------------
(* Properties.                                                             *)

TypeOK ==
    /\ circuit \in {"up", "down", "kept", "gone"}
    /\ display \in Displays
    /\ {reachable, modalOpen, dismissed, listening, visible, reloading, checked, narrow}
          \subseteq BOOLEAN
    /\ calls \in [Calls -> Awaits]

\* The dialog's class follows the circuit: hidden exactly while it is up, which is
\* only while the server answers; a rejection is on its way to another page.
DisplayFollowsCircuit ==
    /\ (circuit = "up") = (display = "hide")
    /\ circuit = "up" => reachable
    /\ display = "rejected" => reloading

\* While the circuit is not up, something will bring the page back: Blazor's own
\* reconnection, a reload, a retry that runs, the listener that retries when the
\* tab is looked at again, or the Resume button.  In particular a retry that
\* throws puts back the listener it took away (lines 24 and 44), whichever other
\* retries run.
NeverStranded ==
    circuit # "up" =>
       \/ display = "show" \/ reloading \/ listening
       \/ \E c \in Calls : Retrying(c)
       \/ display \in ResumeShown

\* The dialog is open only while the circuit is not up, and then it is, unless the
\* user closed it: however retries, resumptions and Blazor's events overlap, no
\* page that works is left inert under it and no dead one looks alive (lines 13, 15, 39).
DialogMatchesCircuit ==
    /\ modalOpen => circuit # "up"
    /\ circuit # "up" /\ ~dismissed => modalOpen

\* The page is thrown away only when the server has neither the circuit nor its saved
\* state: a retry that is refused tries to resume before it reloads (lines 33-37).
NothingResumableIsDiscarded == reloading => circuit = "gone"

\* What the page keeps true.
PageInvariant ==
    /\ TypeOK
    /\ DisplayFollowsCircuit
    /\ NeverStranded
    /\ DialogMatchesCircuit
    /\ NothingResumableIsDiscarded

\* An entry chosen on a narrow screen takes the menu off the page it leads to; on a
\* wide one it leaves the menu (NavMenu.razor.js:6-8).
EntryUncoversPage ==
    [][~modalOpen /\ ClickMenu => MenuShown' = ~narrow]_vars

\* If in the end the server answers and the user goes on looking away and back, the
\* page comes back by itself, unless the server paused it: then it waits for Resume.
ComesBack ==
    <>[]reachable /\ []<>visible /\ []<>~visible =>
       [](circuit # "up" => <>(circuit = "up" \/ display \in ResumeShown))
================================================================================
