---------------------------- MODULE KioskScreens ----------------------------
(* What is on the screens of a kiosk and of its administrator. *)
EXTENDS KioskPage, PinPanel, PinDialog, AuditPanel

(* Nothing on a screen is out of date: neither the code nor a name on the      *)
(* kiosk's, nor is a PIN that the administrator reads out somebody else's, and *)
(* the pages of the audit leave nothing out (KioskPage.tsx, KioskPinPanel.tsx, *)
(* TerminalPinDialog.tsx, TerminalAuditPanel.tsx).                             *)
ScreenCurrent == CodeOnScreenCurrent /\ NoStrangerShown /\ OneTimePinsKept /\ PagesComplete
=============================================================================
