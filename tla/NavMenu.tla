-------------------------------- MODULE NavMenu --------------------------------
(***************************************************************************)
(* The admin page's navigation menu                                        *)
(* (src/LLMCostControl.Admin.App/Components/Layout/NavMenu.razor.js): a    *)
(* checkbox opens it on a narrow screen, a wide one always shows it and no *)
(* checkbox, and the script turns any click in the menu into one on the    *)
(* checkbox.                                                               *)
(***************************************************************************)

VARIABLES
    checked,        \* the checkbox .navbar-toggler
    narrow          \* the viewport is below 641px

navVars == <<checked, narrow>>

NavInit == checked = FALSE /\ narrow \in BOOLEAN

MenuShown == ~narrow \/ checked

\* Mutant: a click in the menu always opens it.
Toggle_Opens == checked' = TRUE
Toggle == checked' = ~checked

\* The user clicks the checkbox, or anywhere in the menu.
ClickToggler == narrow /\ Toggle /\ UNCHANGED narrow
ClickMenu == MenuShown /\ Toggle /\ UNCHANGED narrow

Resize == narrow' = ~narrow /\ UNCHANGED checked

\* A browser may put a checkbox back as it was when it reloads a page.
NavReloaded == checked' \in {FALSE, checked} /\ UNCHANGED narrow
================================================================================
