------------------------------- MODULE MCKiosk -------------------------------
(* The parts of the kiosk for TLC, each alone in a part of one state graph:  *)
(* the server's terminals, its audit chain, its budgets, the page, the PIN    *)
(* form, and the administrator's PIN dialog and view of the audit.           *)
EXTENDS Terminals, AuditChain, Admission, KioskScreens

VARIABLE part

vars ==
    <<server, audit, admission, kioskPage, pinPanel, pinDialog, auditPanel, part>>

Parts == {"server", "audit", "budgets", "limiter", "page", "panel", "dialog", "view"}

MCInit ==
    /\ part \in Parts
    /\ TerminalsInit /\ AuditInit /\ AdmissionInit /\ KioskInit /\ PanelInit
    /\ DialogInit /\ AuditPanelInit

Server ==
    part = "server" /\ TerminalsNext
    /\ UNCHANGED <<audit, admission, kioskPage, pinPanel, pinDialog, auditPanel>>
Audit ==
    part = "audit" /\ AuditNext
    /\ UNCHANGED <<server, admission, kioskPage, pinPanel, pinDialog, auditPanel>>
Budgets ==
    part = "budgets" /\ BudgetsNext
    /\ UNCHANGED <<server, audit, kioskPage, pinPanel, pinDialog, auditPanel>>
Limiter ==
    part = "limiter" /\ LimiterNext
    /\ UNCHANGED <<server, audit, kioskPage, pinPanel, pinDialog, auditPanel>>
Page ==
    part = "page" /\ KioskNext
    /\ UNCHANGED <<server, audit, admission, pinPanel, pinDialog, auditPanel>>
Form ==
    part = "panel" /\ PanelNext
    /\ UNCHANGED <<server, audit, admission, kioskPage, pinDialog, auditPanel>>
Dialog ==
    part = "dialog" /\ DialogNext
    /\ UNCHANGED <<server, audit, admission, kioskPage, pinPanel, auditPanel>>
View ==
    part = "view" /\ AuditPanelNext
    /\ UNCHANGED <<server, audit, admission, kioskPage, pinPanel, pinDialog>>

MCNext ==
    /\ Server \/ Audit \/ Budgets \/ Limiter \/ Page \/ Form \/ Dialog \/ View
    /\ UNCHANGED part

MCSpec == MCInit /\ [][MCNext]_vars /\ KioskFairness
=============================================================================
