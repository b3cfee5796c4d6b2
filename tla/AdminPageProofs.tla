---------------------------- MODULE AdminPageProofs ----------------------------
(***************************************************************************)
(* What the admin page keeps true, however many calls of retry() and       *)
(* resume() are pending.  PageInvariant is inductive as it stands.         *)
(***************************************************************************)
EXTENDS AdminPage, TLAPS

\* A page that has just loaded is in order.
LEMMA InitPage == Init => PageInvariant
BY DEF Init, ModalInit, NavInit, PageInvariant, TypeOK, DisplayFollowsCircuit, NeverStranded,
       DialogMatchesCircuit, NothingResumableIsDiscarded, Awaits, Displays

\* What is pending after one call has changed its await.
LEMMA CallsAfter ==
    ASSUME calls \in [Calls -> Awaits], NEW c \in Calls, NEW a \in Awaits,
           calls' = [calls EXCEPT ![c] = a]
    PROVE  /\ calls' \in [Calls -> Awaits]
           /\ calls'[c] = a
           /\ \A d \in Calls \ {c} : calls'[d] = calls[d]
OBVIOUS

\* The handler of Blazor's events leaves Booleans behind.
LEMMA HandlerTypes ==
    ASSUME TypeOK, NEW state, HandleReconnectStateChanged(state)
    PROVE  {modalOpen', dismissed', listening', reloading'} \subseteq BOOLEAN
BY DEF TypeOK, HandleReconnectStateChanged

\* A circuit that is up again leaves the page in order.
LEMMA BackUpIsInOrder ==
    ASSUME PageInvariant, BackUp, reachable, circuit # "gone",
           calls' \in [Calls -> Awaits], UNCHANGED navVars
    PROVE  PageInvariant'
<1>1. {modalOpen', dismissed', listening', reloading'} \subseteq BOOLEAN
  BY HandlerTypes DEF BackUp, PageInvariant
<1>2. modalOpen' = FALSE /\ reloading' = reloading
  BY DEF BackUp, HandleReconnectStateChanged, PageInvariant, TypeOK
<1> QED
  BY <1>1, <1>2 DEF PageInvariant, TypeOK, DisplayFollowsCircuit, NeverStranded,
       DialogMatchesCircuit, NothingResumableIsDiscarded, BackUp, Displays, navVars

\* A step of the menu, or none.
LEMMA MenuKeepsPage ==
    ASSUME PageInvariant, UNCHANGED modalVars, {checked', narrow'} \subseteq BOOLEAN
    PROVE  PageInvariant'
BY DEF PageInvariant, TypeOK, DisplayFollowsCircuit, NeverStranded, DialogMatchesCircuit,
       NothingResumableIsDiscarded, modalVars, Retrying, Awaits, Displays

\* retry() starts: it takes the listener away, and is itself under way.
LEMMA RetryKeepsPage ==
    ASSUME PageInvariant, NEW c \in Calls, Retry(c), visible' \in BOOLEAN, UNCHANGED navVars
    PROVE  PageInvariant'
<1>1. /\ calls' \in [Calls -> Awaits]
      /\ Retrying(c)'
  BY CallsAfter DEF PageInvariant, TypeOK, Retry, Awaits, Retrying
<1> QED
  BY <1>1 DEF PageInvariant, TypeOK, DisplayFollowsCircuit, NeverStranded, DialogMatchesCircuit,
       NothingResumableIsDiscarded, Retry, blazorVars, navVars, Displays

\* A call takes its next step.
LEMMA AnswerKeepsPage ==
    ASSUME PageInvariant, NEW c \in Calls, UNCHANGED navVars,
           \/ ReconnectSucceeds(c) \/ ReconnectRefused(c) \/ RetryThrows(c)
           \/ ResumeSucceeds(c) \/ ResumeRefused(c) \/ ResumeThrows(c)
    PROVE  PageInvariant'
<1> USE DEF PageInvariant, TypeOK, DisplayFollowsCircuit, NeverStranded, DialogMatchesCircuit,
       NothingResumableIsDiscarded, blazorVars, navVars, Displays
<1>1. /\ calls' \in [Calls -> Awaits]
      /\ \A d \in Calls \ {c} : calls'[d] = calls[d]
  BY CallsAfter DEF ReconnectSucceeds, ReconnectRefused, RetryThrows, ResumeSucceeds,
       ResumeRefused, ResumeThrows, Return, Awaits
<1>2. CASE ReconnectSucceeds(c)
  BY <1>1, <1>2, BackUpIsInOrder DEF ReconnectSucceeds
<1>3. CASE ReconnectRefused(c)
  <2>1. Retrying(c)'
    BY <1>3, CallsAfter DEF ReconnectRefused, Awaits, Retrying
  <2> QED  BY <1>1, <1>3, <2>1 DEF ReconnectRefused
<1>4. CASE RetryThrows(c)
  BY <1>1, <1>4 DEF RetryThrows
<1>5. CASE ResumeSucceeds(c)
  BY <1>1, <1>5, BackUpIsInOrder DEF ResumeSucceeds
<1>6. CASE ResumeRefused(c)
  BY <1>1, <1>6 DEF ResumeRefused
<1>7. CASE ResumeThrows(c)
  <2>1. \A d \in Calls : Retrying(d) => Retrying(d)'
    BY <1>1, <1>7 DEF ResumeThrows, Retrying
  <2> QED  BY <1>1, <1>7, <2>1 DEF ResumeThrows, ResumeShown
<1> QED  BY <1>2, <1>3, <1>4, <1>5, <1>6, <1>7

\* Every step keeps the page in order.
LEMMA NextKeepsPage ==
    ASSUME PageInvariant, [Next]_vars
    PROVE  PageInvariant'
<1> USE DEF PageInvariant, TypeOK, DisplayFollowsCircuit, NeverStranded, DialogMatchesCircuit,
       NothingResumableIsDiscarded, Displays
<1>1. ASSUME NEW c \in Calls, UNCHANGED navVars,
             \/ ReconnectSucceeds(c) \/ ReconnectRefused(c) \/ RetryThrows(c)
             \/ ResumeSucceeds(c) \/ ResumeRefused(c) \/ ResumeThrows(c)
      PROVE  PageInvariant'
  BY <1>1, AnswerKeepsPage
<1>2. ASSUME NEW c \in Calls, UNCHANGED navVars, ClickRetry(c)
      PROVE  PageInvariant'
  BY <1>2, RetryKeepsPage DEF ClickRetry
<1>3. ASSUME NEW c \in Calls, UNCHANGED navVars, ClickResume(c)
      PROVE  PageInvariant'
  <2>1. /\ calls' \in [Calls -> Awaits]
        /\ \A d \in Calls : Retrying(d) => Retrying(d)'
    BY <1>3, CallsAfter DEF ClickResume, Resume, Retrying, Awaits
  <2> QED  BY <1>3, <2>1 DEF ClickResume, Resume, blazorVars, navVars
<1>4. CASE UNCHANGED navVars /\ VisibilityChange
  <2>1. CASE ~visible /\ listening
    BY <1>4, <2>1, RetryKeepsPage DEF VisibilityChange, RetryWhenDocumentBecomesVisible
  <2>2. CASE ~(~visible /\ listening)
    BY <1>4, <2>2 DEF VisibilityChange, RetryWhenDocumentBecomesVisible, blazorVars, navVars,
         Retrying
  <2> QED  BY <2>1, <2>2
<1>5. CASE UNCHANGED navVars /\ Dismiss
  BY <1>5 DEF Dismiss, blazorVars, navVars, Retrying
<1>6. CASE UNCHANGED navVars /\ Drop
  BY <1>6, HandlerTypes DEF Drop, HandleReconnectStateChanged, navVars
<1>7. CASE UNCHANGED navVars /\ Pause
  BY <1>7, HandlerTypes DEF Pause, HandleReconnectStateChanged, navVars, ResumeShown
<1>8. CASE UNCHANGED navVars /\ (Forget \/ ReachableChange)
  BY <1>8 DEF Forget, ReachableChange, navVars, Retrying
<1>9. CASE UNCHANGED navVars /\ BlazorReconnects
  BY <1>9, BackUpIsInOrder DEF BlazorReconnects
<1>10. CASE UNCHANGED navVars /\ (BlazorIsRejected \/ BlazorGivesUp)
  BY <1>10, HandlerTypes DEF BlazorIsRejected, BlazorGivesUp, HandleReconnectStateChanged, navVars
<1>11. CASE /\ UNCHANGED modalVars
            /\ \/ ~modalOpen /\ ClickToggler
               \/ ~modalOpen /\ ClickMenu
               \/ Resize
  <2>1. {checked', narrow'} \subseteq BOOLEAN
    BY <1>11 DEF ClickToggler, ClickMenu, Toggle, Resize
  <2> QED  BY <1>11, <2>1, MenuKeepsPage
<1>12. CASE Reloaded /\ NavReloaded
  BY <1>12 DEF Reloaded, NavReloaded, Awaits
<1>13. CASE UNCHANGED vars
  BY <1>13, MenuKeepsPage DEF vars, navVars, modalVars
<1> HIDE DEF PageInvariant, TypeOK, DisplayFollowsCircuit, NeverStranded,
       DialogMatchesCircuit, NothingResumableIsDiscarded, Displays
<1> QED
  BY <1>1, <1>2, <1>3, <1>4, <1>5, <1>6, <1>7, <1>8, <1>9, <1>10, <1>11, <1>12, <1>13
  DEF Next

--------------------------------------------------------------------------------

\* Whatever the calls that are pending, the page is in order: its state is well typed and
\* the dialog's class follows the circuit.
THEOREM PageInvariantHolds == Spec => []PageInvariant
<1>1. PageInvariant /\ [Next]_vars => PageInvariant'
  BY NextKeepsPage
<1> QED  BY InitPage, <1>1, PTL DEF Spec

\* A page whose circuit is not up always has something that will bring it back (lines 23-46).
THEOREM PageIsNeverStranded == Spec => []NeverStranded
<1>1. PageInvariant => NeverStranded
  BY DEF PageInvariant
<1> QED  BY PageInvariantHolds, <1>1, PTL

\* The dialog covers the page exactly while the circuit is not up, unless the user closed
\* it (lines 12-15).
THEOREM DialogCoversADeadPage == Spec => []DialogMatchesCircuit
<1>1. PageInvariant => DialogMatchesCircuit
  BY DEF PageInvariant
<1> QED  BY PageInvariantHolds, <1>1, PTL

\* Only a page whose circuit cannot be resumed is reloaded (lines 32-37 and 51-53).
THEOREM OnlyTheGoneAreReloaded == Spec => []NothingResumableIsDiscarded
<1>1. PageInvariant => NothingResumableIsDiscarded
  BY DEF PageInvariant
<1> QED  BY PageInvariantHolds, <1>1, PTL

\* The script's click on the checkbox covers the page with no menu: where an entry could be
\* chosen, it takes a narrow screen's menu away and leaves a wide screen's (NavMenu.razor.js:6-8).
THEOREM EntriesUncoverThePage == Spec => EntryUncoversPage
<1>1. PageInvariant /\ [Next]_vars => [~modalOpen /\ ClickMenu => MenuShown' = ~narrow]_vars
  BY DEF PageInvariant, TypeOK, ClickMenu, Toggle, MenuShown
<1> QED  BY <1>1, PageInvariantHolds, PTL DEF Spec, EntryUncoversPage
================================================================================
