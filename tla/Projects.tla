------------------------------ MODULE Projects ------------------------------
(***************************************************************************)
(* What time is booked on: customers, projects with a plan, service orders *)
(* with plans of their own, the assignments of employees, and the bookings *)
(* that refer to them (apps/api/src/app/projects, customers; the target    *)
(* checks of apps/api/src/app/time-entries).                               *)
(*                                                                         *)
(* Every write waits for the advisory lock 7261500 and is one step.  A     *)
(* booking first chooses its target outside the lock (BeginBooking) and is *)
(* checked again inside it (CommitBooking).                                *)
(*                                                                         *)
(* A definition whose name ends in _Fault is a plausible mistake in the    *)
(* definition below it; nothing uses it.                                   *)
(***************************************************************************)
EXTENDS Integers, FiniteSets, FiniteSetsExt

CONSTANTS
    CustomerIds, ProjectIds, OrderIds,  \* rows that may come to exist
    Staff,       \* employees
    Owner,       \* the owner of the installation in Solo
    NoRef,       \* NULL, for a customer or an order
    Plans,       \* hours that may be planned
    MaxBookings  \* bound: kinds of bookings in the table

ASSUME ProjectsAssumption ==
    /\ Owner \in Staff
    /\ NoRef \notin CustomerIds \cup OrderIds
    /\ IsFiniteSet(OrderIds)
    /\ Plans \subseteq Nat /\ MaxBookings \in Nat

VARIABLES
    customers,  \* the Customer table: absent, active or archived
    projects,   \* the Project table
    orders,     \* the ServiceOrder table
    assigned,   \* the ProjectAssignment table
    bookings,   \* what the TimeEntry table says of projects: entries, stopped or running
    booking,    \* the target of a booking that waits for the lock
    solo        \* the installation is in Solo

targets == <<customers, projects, orders, assigned, bookings, booking, solo>>

-----------------------------------------------------------------------------
(* Tables *)

NoPlan == -1
Gone == [state |-> "absent"]
NoBooking == [emp |-> NoRef]

Project == [state: {"active", "archived"}, plan: Plans \cup {NoPlan},
            customer: CustomerIds \cup {NoRef}]
Order == [state: {"active", "archived"}, plan: Plans \cup {NoPlan}, project: ProjectIds]
Target == [emp: Staff, project: ProjectIds, order: OrderIds \cup {NoRef}]

\* `customer` is whose time it was when it was booked; no column, but history.
Booking == [emp: Staff, project: ProjectIds, order: OrderIds \cup {NoRef},
            customer: CustomerIds \cup {NoRef}, running: BOOLEAN]

State(active) == IF active THEN "active" ELSE "archived"
Exists(row) == row # Gone
OrdersOf(p) == {o \in OrderIds : Exists(orders[o]) /\ orders[o].project = p}
ActiveOrders(p) == {o \in OrdersOf(p) : orders[o].state = "active"}
BookingsOn(p) == {b \in bookings : b.project = p}
Running(B) == {b \in B : b.running}
CustomerActive(k) == k # NoRef => customers[k] = "active"

SumPlanHours(S) == MapThenSumSet(LAMBDA o : IF orders[o].plan = NoPlan THEN 0 ELSE orders[o].plan, S)

\* The candidate is compared alone: the other orders are not added up.
OrderPlanFits_Fault(p, others, hours) ==
    projects[p].plan = NoPlan \/ hours <= projects[p].plan

\* assertOrderPlanFits
OrderPlanFits(p, others, hours) ==
    projects[p].plan = NoPlan
      \/ SumPlanHours(others) + (IF hours = NoPlan THEN 0 ELSE hours) <= projects[p].plan

-----------------------------------------------------------------------------
(* Projects; in Solo only the owner comes through mutate *)

\* mutate: a manager, and in Solo the owner
MayManage(a) == a \in Staff /\ (solo => a = Owner)

CreateProject(a, p, row) ==
    /\ MayManage(a) /\ ~Exists(projects[p])
    /\ row.customer # NoRef => customers[row.customer] = "active"
    /\ projects' = [projects EXCEPT ![p] = row]
    /\ assigned' = IF solo THEN assigned \cup {<<a, p>>} ELSE assigned
    /\ UNCHANGED <<customers, orders, bookings, booking, solo>>

\* Only a running timer holds a project to its customer.
CustomerMayChange_Fault(p) == Running(BookingsOn(p)) = {}

CustomerMayChange(p) == BookingsOn(p) = {}

UpdateProject(a, p, row) ==
    /\ MayManage(a) /\ Exists(projects[p])
    /\ row.plan # NoPlan => SumPlanHours(OrdersOf(p)) <= row.plan
    /\ row.customer # projects[p].customer =>
         /\ row.customer # NoRef => customers[row.customer] = "active"
         /\ CustomerMayChange(p)
    /\ projects[p].state = "active" /\ row.state = "archived" => Running(BookingsOn(p)) = {}
    /\ projects' = [projects EXCEPT ![p] = row]
    /\ UNCHANGED <<customers, orders, assigned, bookings, booking, solo>>

\* Orders and assignments go with their project.
RemoveProject(a, p) ==
    /\ MayManage(a) /\ Exists(projects[p])
    /\ BookingsOn(p) = {}
    /\ projects' = [projects EXCEPT ![p] = Gone]
    /\ orders' = [o \in OrderIds |-> IF o \in OrdersOf(p) THEN Gone ELSE orders[o]]
    /\ assigned' = {pair \in assigned : pair[2] # p}
    /\ UNCHANGED <<customers, bookings, booking, solo>>

-----------------------------------------------------------------------------
(* Service orders *)

CreateServiceOrder(a, o, row) ==
    /\ MayManage(a) /\ Exists(projects[row.project]) /\ ~Exists(orders[o])
    /\ OrderPlanFits(row.project, OrdersOf(row.project), row.plan)
    /\ orders' = [orders EXCEPT ![o] = row]
    /\ UNCHANGED <<customers, projects, assigned, bookings, booking, solo>>

UpdateServiceOrder(a, o, row) ==
    LET p == row.project
    IN /\ MayManage(a) /\ o \in OrdersOf(p)
       /\ OrderPlanFits(p, OrdersOf(p) \ {o}, row.plan)
       /\ row.state = "archived" => ~\E b \in Running(bookings) : b.order = o
       /\ orders' = [orders EXCEPT ![o] = row]
       /\ UNCHANGED <<customers, projects, assigned, bookings, booking, solo>>

RemoveServiceOrder(a, o) ==
    /\ MayManage(a) /\ Exists(orders[o])
    /\ ~\E b \in bookings : b.order = o
    /\ orders' = [orders EXCEPT ![o] = Gone]
    /\ UNCHANGED <<customers, projects, assigned, bookings, booking, solo>>

-----------------------------------------------------------------------------
(* Assignments *)

Assign(a, e, p) ==
    /\ MayManage(a) /\ Exists(projects[p])
    /\ solo => e = a
    /\ assigned' = assigned \cup {<<e, p>>}
    /\ UNCHANGED <<customers, projects, orders, bookings, booking, solo>>

Unassign(a, e, p) ==
    /\ MayManage(a) /\ Exists(projects[p]) /\ ~solo
    /\ assigned' = assigned \ {<<e, p>>}
    /\ UNCHANGED <<customers, projects, orders, bookings, booking, solo>>

\* changeMode: a new owner is assigned to all that is active.
ChangeOperatingMode ==
    /\ Running(bookings) = {}
    /\ solo' = ~solo
    /\ assigned' = IF solo THEN assigned
                   ELSE assigned \cup {<<Owner, p>> : p \in
                          {q \in ProjectIds : projects[q].state = "active"
                                                /\ CustomerActive(projects[q].customer)}}
    /\ UNCHANGED <<customers, projects, orders, bookings, booking>>

-----------------------------------------------------------------------------
(* Customers, who exist for the owner in Solo alone *)

SaveCustomer(k, state) ==
    /\ solo
    /\ customers[k] = "active" /\ state = "archived" =>
         ~\E b \in Running(bookings) : projects[b.project].customer = k
    /\ customers' = [customers EXCEPT ![k] = state]
    /\ UNCHANGED <<projects, orders, assigned, bookings, booking, solo>>

RemoveCustomer(k) ==
    /\ solo /\ customers[k] # "absent"
    /\ ~\E p \in ProjectIds : Exists(projects[p]) /\ projects[p].customer = k
    /\ customers' = [customers EXCEPT ![k] = "absent"]
    /\ UNCHANGED <<projects, orders, assigned, bookings, booking, solo>>

-----------------------------------------------------------------------------
(* Bookings *)

\* The list forgets that customers are archived, too.
Offered_Fault(e) ==
    {t \in [emp: {e}, project: ProjectIds, order: OrderIds \cup {NoRef}] :
       /\ projects[t.project].state = "active" /\ <<e, t.project>> \in assigned
       /\ IF t.order = NoRef THEN ActiveOrders(t.project) = {}
          ELSE t.order \in ActiveOrders(t.project)}

\* listBookable, and the choice the booking form makes from it
Offered(e) ==
    {t \in [emp: {e}, project: ProjectIds, order: OrderIds \cup {NoRef}] :
       /\ projects[t.project].state = "active" /\ <<e, t.project>> \in assigned
       /\ CustomerActive(projects[t.project].customer)
       /\ IF t.order = NoRef THEN ActiveOrders(t.project) = {}
          ELSE t.order \in ActiveOrders(t.project)}

\* assertBookable
ProjectBookable(e, p) ==
    /\ Exists(projects[p]) /\ projects[p].state = "active"
    /\ CustomerActive(projects[p].customer)
    /\ <<e, p>> \in assigned

\* resolveServiceOrder
OrderBookable(p, o) ==
    IF o = NoRef THEN ActiveOrders(p) = {}
    ELSE o \in OrdersOf(p) /\ orders[o].state = "active"

\* resolveBookingTarget, before the transaction
BeginBooking(t) ==
    /\ booking = NoBooking
    /\ ProjectBookable(t.emp, t.project) /\ OrderBookable(t.project, t.order)
    /\ booking' = t
    /\ UNCHANGED <<customers, projects, orders, assigned, bookings, solo>>

\* The target was checked when it was chosen.
StillBookable_Fault(t) == Exists(projects[t.project])

\* assertTargetStillBookable, inside it; the assignment is not looked up again
StillBookable(t) ==
    /\ Exists(projects[t.project]) /\ projects[t.project].state = "active"
    /\ CustomerActive(projects[t.project].customer)
    /\ OrderBookable(t.project, t.order)

CommitBooking(running) ==
    /\ booking # NoBooking /\ StillBookable(booking)
    /\ solo => booking.emp = Owner
    /\ running => Running({b \in bookings : b.emp = booking.emp}) = {}
    /\ bookings' = bookings \cup
         {[emp |-> booking.emp, project |-> booking.project, order |-> booking.order,
           customer |-> projects[booking.project].customer, running |-> running]}
    /\ Cardinality(bookings') <= MaxBookings
    /\ booking' = NoBooking
    /\ UNCHANGED <<customers, projects, orders, assigned, solo>>

AbandonBooking ==
    /\ booking # NoBooking /\ booking' = NoBooking
    /\ UNCHANGED <<customers, projects, orders, assigned, bookings, solo>>

StopTimer(b) ==
    /\ b.running
    /\ bookings' = (bookings \ {b}) \cup {[b EXCEPT !.running = FALSE]}
    /\ UNCHANGED <<customers, projects, orders, assigned, booking, solo>>

-----------------------------------------------------------------------------

TargetsInit ==
    /\ customers = [k \in CustomerIds |-> "absent"]
    /\ projects = [p \in ProjectIds |-> Gone]
    /\ orders = [o \in OrderIds |-> Gone]
    /\ assigned = {} /\ bookings = {} /\ booking = NoBooking
    /\ solo \in BOOLEAN

TargetsNext ==
    \/ \E a \in Staff :
         \/ \E p \in ProjectIds :
              \/ \E row \in Project : CreateProject(a, p, row) \/ UpdateProject(a, p, row)
              \/ RemoveProject(a, p)
              \/ \E e \in Staff : Assign(a, e, p) \/ Unassign(a, e, p)
         \/ \E o \in OrderIds :
              \/ \E row \in Order : CreateServiceOrder(a, o, row) \/ UpdateServiceOrder(a, o, row)
              \/ RemoveServiceOrder(a, o)
    \/ ChangeOperatingMode
    \/ \E k \in CustomerIds :
         RemoveCustomer(k) \/ \E state \in {"active", "archived"} : SaveCustomer(k, state)
    \/ \E t \in Target : BeginBooking(t)
    \/ \E running \in BOOLEAN : CommitBooking(running)
    \/ AbandonBooking
    \/ \E b \in bookings : StopTimer(b)

TargetsSpec == TargetsInit /\ [][TargetsNext]_targets

-----------------------------------------------------------------------------
(* Properties *)

TargetsTypeOK ==
    /\ customers \in [CustomerIds -> {"absent", "active", "archived"}]
    /\ projects \in [ProjectIds -> Project \cup {Gone}]
    /\ orders \in [OrderIds -> Order \cup {Gone}]
    /\ assigned \subseteq Staff \X ProjectIds
    /\ bookings \subseteq Booking
    /\ booking \in Target \cup {NoBooking}
    /\ solo \in BOOLEAN

\* "The sum of the service-order planHours must not exceed this (service-enforced)"
PlansFit ==
    \A p \in ProjectIds : Exists(projects[p]) /\ projects[p].plan # NoPlan =>
        SumPlanHours(OrdersOf(p)) <= projects[p].plan

\* Booked time keeps what it was booked on: project and order exist and belong
\* together, and the time is still the customer's whose it was.
BookingsKeepTarget ==
    \A b \in bookings :
        /\ Exists(projects[b.project]) /\ projects[b.project].customer = b.customer
        /\ b.order # NoRef => b.order \in OrdersOf(b.project)

\* A timer runs on nothing that is archived.
TimersOnActiveTargets ==
    \A b \in Running(bookings) :
        /\ projects[b.project].state = "active" /\ CustomerActive(projects[b.project].customer)
        /\ b.order # NoRef => orders[b.order].state = "active"

\* What the form offers the server takes, and nothing else.
OffersAreKept ==
    \A e \in Staff : Offered(e) =
        {t \in Target : t.emp = e /\ ProjectBookable(e, t.project) /\ OrderBookable(t.project, t.order)}

\* Whatever a customer, project or order goes through, the plans add up, booked
\* time keeps its target, no timer is left on something archived, and the form
\* offers what the server accepts (projects.service.ts, customers.service.ts).
ProjectBooksSound ==
    PlansFit /\ BookingsKeepTarget /\ TimersOnActiveTargets /\ OffersAreKept
=============================================================================
