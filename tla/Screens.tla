------------------------------- MODULE Screens -------------------------------
(***************************************************************************)
(* The two programs that put a battle on a screen of their own, the mobile *)
(* app and the React page, against one server: the player uses the one or  *)
(* the other.  The terminal app (Tui) can get the answers of a battle that *)
(* was left in the next one, and has a run of its own.                     *)
(***************************************************************************)
EXTENDS Mobile, Page

VARIABLE program   \* "phone" or "page"

screensVars == <<mobileVars, pageVars, program>>

ScreensInit == MobileInit /\ PageInit /\ program \in {"phone", "page"}

OnPhone == program = "phone" /\ MobileNext /\ UNCHANGED pageVars

OnPage == program = "page" /\ PageNext /\ UNCHANGED <<phone, call>>

ScreensNext == (OnPhone \/ OnPage) /\ UNCHANGED program

ScreensSpec == ScreensInit /\ [][ScreensNext]_screensVars /\ MobileFairness /\ PageFairness
=============================================================================
