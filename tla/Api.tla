-------------------------------- MODULE Api --------------------------------
(***************************************************************************)
(* The HTTP interface between the web client (api/client.ts, api/solo.ts)   *)
(* and the controllers, as far as the client's cache depends on it: whom    *)
(* the server admits to a call in each operating mode, the facts the answer *)
(* is computed from, the facts the call changes and the event that tells    *)
(* of it.  A fact is named by its table; a call about somebody else's       *)
(* entries changes nothing that its caller is shown as his own.             *)
(***************************************************************************)
EXTENDS TLC

Roles == {"Employee", "Manager", "HRAdmin"}

Everybody == Roles
Leaders == {"Manager", "HRAdmin"}
Hr == {"HRAdmin"}
Nobody == {}

\* The owner of a Solo installation is an HRAdmin (requireOwner).
Call(team, solo, reads, writes, event) ==
    [roles |-> [Team |-> team, Solo |-> IF solo THEN Hr ELSE Nobody],
     reads |-> reads, writes |-> writes, event |-> event]

Read(team, solo, facts) == Call(team, solo, facts, {}, "none")
Write(team, solo, facts, event) == Call(team, solo, {}, facts, event)

\* What an area of the API serves in Team mode, in both modes, and in Solo
TeamRead(team, facts) == Read(team, FALSE, facts)
TeamWrite(team, facts, event) == Write(team, FALSE, facts, event)
OwnerRead(facts) == Read(Nobody, TRUE, facts)
OwnerWrite(facts, event) == Write(Nobody, TRUE, facts, event)

Calls(names, call) == [n \in names |-> call]

-----------------------------------------------------------------------------
(* The areas that Solo mode serves as well *)

AuthCalls ==
    Calls({"me"}, Read(Everybody, TRUE, {"employees"}))
    @@ Calls({"updatePreferences", "password"}, Write(Everybody, TRUE, {}, "none"))
    @@ Calls({"profile"}, OwnerWrite({"employees"}, "none"))

InstallationCalls ==
    Calls({"installation"}, Read(Everybody, TRUE, {"settings"}))
    @@ Calls({"modePreview"}, Read(Hr, TRUE, {"settings"}))
    @@ Calls({"mode"}, Write(Hr, TRUE, {"settings"}, "none"))
    @@ Calls({"settings", "completeSetup"}, OwnerWrite({"settings"}, "none"))
    @@ Calls({"hints", "summary"}, OwnerRead({"settings", "days", "entries"}))
    @@ Calls({"days"}, OwnerRead({"days"}))
    @@ Calls({"saveDay", "cancelDay"}, OwnerWrite({"days"}, "none"))
    @@ Calls({"installationEvents"}, OwnerRead({"settings", "days"}))
    @@ Calls({"dayAudit"}, OwnerRead({"days"}))

TimeEntryCalls ==
    Calls({"timeEntries"}, Read(Everybody, TRUE, {"entries"}))
    @@ Calls({"dailyBlockOption"}, Read(Everybody, TRUE, {"employees", "schedules", "settings"}))
    @@ Calls({"clockIn", "clockOut", "dailyBlock", "splitTimeEntry", "updateTimeEntry",
              "bookProjectRange"},
             Write(Everybody, TRUE, {"entries"}, "time-entry"))
    @@ Calls({"manual", "correct", "void", "switchProject"},
             OwnerWrite({"entries"}, "time-entry"))
    @@ Calls({"audit"}, OwnerRead({"entries"}))

ProjectCalls ==
    Calls({"projects"}, Read(Everybody, TRUE, {"projects", "assignments", "entries", "customers"}))
    @@ Calls({"bookableProjects"},
             Read(Everybody, TRUE, {"projects", "assignments", "customers"}))
    @@ Calls({"projectAssignments"}, Read(Leaders, TRUE, {"assignments"}))
    @@ Calls({"projectReport"}, Read(Leaders, TRUE, {"projects", "entries", "employees"}))
    @@ Calls({"saveProject", "deleteProject", "saveOrder", "deleteOrder"},
             Write(Leaders, TRUE, {"projects"}, "project:changed"))
    @@ Calls({"assignProject", "unassignProject"},
             Write(Leaders, TRUE, {"assignments"}, "project:changed"))

CustomerCalls ==
    Calls({"customers"}, OwnerRead({"customers", "projects"}))
    @@ Calls({"saveCustomer", "deleteCustomer"}, OwnerWrite({"customers"}, "none"))

SoloReportCalls ==
    Calls({"soloReport"}, OwnerRead({"entries", "projects", "customers"}))

-----------------------------------------------------------------------------
(* The areas of a team *)

EmployeeCalls ==
    Calls({"employees"}, TeamRead(Everybody, {"employees", "schedules"}))
    @@ Calls({"employeeDirectory"}, TeamRead(Everybody, {"employees"}))
    @@ Calls({"createEmployee", "updateEmployee", "deactivateEmployee", "reactivateEmployee"},
             TeamWrite(Hr, {"employees"}, "none"))
    @@ Calls({"setEmployeePassword"}, TeamWrite(Hr, {}, "none"))

ScheduleCalls ==
    Calls({"workSchedules"}, TeamRead(Everybody, {"schedules", "employees"}))
    @@ Calls({"createWorkSchedule", "updateWorkSchedule", "deleteWorkSchedule"},
             TeamWrite(Hr, {"schedules"}, "none"))
    @@ Calls({"assignSchedule", "bulkAssignSchedule"}, TeamWrite(Hr, {"employees"}, "none"))

RequestCalls ==
    Calls({"listRequests", "getRequest", "getRequestEvents"}, TeamRead(Everybody, {"requests"}))
    @@ Calls({"createRequest", "createVacationRequest", "substituteAccept", "substituteDecline"},
             TeamWrite(Everybody, {"requests"}, "request:transitioned"))
    @@ Calls({"managerApprove", "managerReject", "returnRequest", "bulkApproveRequests",
              "bulkRejectRequests"},
             TeamWrite(Leaders, {"requests"}, "request:transitioned"))
    @@ Calls({"hrConfirm", "hrReject"}, TeamWrite(Hr, {"requests"}, "request:transitioned"))

AbsenceCalls ==
    Calls({"absences"}, TeamRead(Everybody, {"absences"}))
    @@ Calls({"createAbsence", "deleteAbsence"}, TeamWrite(Everybody, {"absences"}, "none"))

AttachmentCalls ==
    Calls({"listAttachments"}, TeamRead(Everybody, {"attachments"}))
    @@ Calls({"deleteAttachment"}, TeamWrite(Everybody, {"attachments"}, "none"))

AccountCalls ==
    Calls({"account"}, TeamRead(Everybody, {"entries", "absences", "requests", "employees"}))
    @@ Calls({"vacationBalance"}, TeamRead(Everybody, {"requests"}))
    @@ Calls({"violations"}, TeamRead(Everybody, {"entries", "schedules", "employees"}))

ReportCalls ==
    Calls({"workingTimeReportEmployees"}, TeamRead(Hr, {"employees"}))
    @@ Calls({"workingTimeReport"}, TeamRead(Hr, {"entries", "employees"}))

TerminalCalls ==
    Calls({"terminals"}, TeamRead(Hr, {"terminals"}))
    @@ Calls({"createTerminal", "updateTerminal", "deactivateTerminal",
              "deleteTerminalPermanently", "revokeTerminalDevice"},
             TeamWrite(Hr, {"terminals"}, "none"))
    @@ Calls({"createTerminalPairing"}, TeamWrite(Hr, {}, "none"))
    @@ Calls({"terminalAuditEvents", "terminalCredentials"}, TeamRead(Hr, {}))
    @@ Calls({"resetTerminalPin", "disableTerminalPin", "unlockTerminalPin"},
             TeamWrite(Hr, {}, "none"))
    @@ Calls({"bookAtTerminal"}, TeamWrite(Everybody, {"entries"}, "time-entry"))

-----------------------------------------------------------------------------

Server ==
    AuthCalls @@ InstallationCalls @@ TimeEntryCalls @@ ProjectCalls @@ CustomerCalls
    @@ SoloReportCalls @@ EmployeeCalls @@ ScheduleCalls @@ RequestCalls @@ AbsenceCalls
    @@ AttachmentCalls @@ AccountCalls @@ ReportCalls @@ TerminalCalls

\* JwtAuthGuard, RolesGuard, SoloAccessGuard and the checks of the services
Admitted(name, user) == user.role \in Server[name].roles[user.mode]

\* Whether the answer to one call depends on what the other one changes
Concerns(write, read) == Server[write].writes \cap Server[read].reads # {}
=============================================================================
