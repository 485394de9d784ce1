----------------------------- MODULE KioskPage -----------------------------
(***************************************************************************)
(* The page a tablet shows (apps/web/src/routes/KioskPage.tsx): pairing,   *)
(* the timers that refresh the displayed code, and the device token in the *)
(* browser's storage (api/terminal-device.ts).  The server is reduced to   *)
(* what the page can tell: reachable or not, and which device it knows.    *)
(*                                                                         *)
(* A step of the page is an event handler followed by the effects of what  *)
(* it changed (React).  Requests are answered in any order.               *)
(*                                                                         *)
(* A definition whose name ends in _Fault is a plausible mistake in the    *)
(* definition below it; nothing else uses it.                              *)
(***************************************************************************)
EXTENDS Integers, FiniteSets

CONSTANTS
    Tokens,       \* device tokens, in the order in which they are given out
    NoToken,      \* none
    MaxInFlight,  \* bound: refreshes with one token in flight
    MaxOutages    \* bound: disturbances

ASSUME KioskAssumption ==
    /\ IsFiniteSet(Tokens) /\ NoToken \notin Tokens
    /\ MaxInFlight \in Nat \ {0} /\ MaxOutages \in Nat

VARIABLES
    known,     \* the device the server knows, given out tokens, revoked or not
    reach,     \* the server answers
    outages,   \* how often it did not, or was busy, or the page was offline or reloaded
    stored,    \* the token in localStorage
    page,      \* the state of the component
    flight     \* refreshes in flight, by token, and the pairing

kioskPage == <<known, reach, outages, stored, page, flight>>

\* `gen` tells a state from the one before it; the terminal of a state without a
\* challenge does not allow QR.
NoState == [gen |-> 2, fresh |-> FALSE, qr |-> FALSE]
NoImage == 2

Blank(token, online) ==
    [token |-> token, online |-> online, state |-> NoState, error |-> "none",
     image |-> NoImage,      \* qrDataUrl: the code of which state is on screen
     drawing |-> NoImage,    \* the state whose code is being drawn
     refreshTimer |-> FALSE, retryTimer |-> FALSE]

-----------------------------------------------------------------------------
(* Effects *)

\* State's effect: the timer is for the state that was received.
RefreshTimer(old, new) ==
    IF old.state.gen = new.state.gen /\ old.online = new.online /\ old.token = new.token
    THEN new.refreshTimer
    ELSE new.state # NoState /\ new.online

\* Error's effect depends on the message.
RetryTimer(old, new) ==
    IF old.error = new.error /\ old.online = new.online /\ old.token = new.token
    THEN new.retryTimer
    ELSE new.error # "none" /\ new.online /\ new.token # NoToken

Drawable(p) == p.state.fresh /\ p.state.qr /\ p.online

\* A drawing that was begun is shown when it is done.
Drawing_Fault(old, new) == IF Drawable(new) THEN new.state.gen ELSE old.drawing

\* The effect of the code: its cleanup cancels the drawing of the last one.
Drawing(old, new) == IF Drawable(new) THEN new.state.gen ELSE NoImage

Image(old, new) ==
    IF ~Drawable(new) THEN [new EXCEPT !.image = NoImage, !.drawing = Drawing(old, new)]
    ELSE [new EXCEPT !.drawing = Drawing(old, new)]

AfterImage(old, new) ==
    IF old.state = new.state /\ old.online = new.online THEN new ELSE Image(old, new)

Effects(old, new) ==
    [AfterImage(old, new) EXCEPT !.refreshTimer = RefreshTimer(old, new),
                                 !.retryTimer = RetryTimer(old, new)]

\* `refresh` is another function for another token or connection, and is called.
RefreshAgain(old, new) ==
    (old.token # new.token \/ old.online # new.online)
        /\ new.token # NoToken /\ new.online

Sent(token) == [flight EXCEPT !.refresh[token] = @ + 1]
Answered(token) == [flight EXCEPT !.refresh[token] = @ - 1]

\* The effects of a change, with f the requests in flight after its handler
React(new, f) ==
    /\ page' = Effects(page, new)
    /\ flight' = IF RefreshAgain(page, new)
                 THEN [f EXCEPT !.refresh[new.token] = @ + 1] ELSE f
    /\ \A t \in Tokens : flight'.refresh[t] <= MaxInFlight

-----------------------------------------------------------------------------
(* The server and the network *)

\* pair at the server revokes the device before.
Given == known.given
Accepts(t) == known.device = t /\ ~known.revoked

RevokeKiosk ==
    /\ known.device # NoToken /\ ~known.revoked
    /\ known' = [known EXCEPT !.revoked = TRUE]
    /\ UNCHANGED <<reach, outages, stored, page, flight>>

ServerDown ==
    /\ reach /\ outages < MaxOutages
    /\ reach' = FALSE /\ outages' = outages + 1
    /\ UNCHANGED <<known, stored, page, flight>>

ServerUp ==
    /\ ~reach /\ reach' = TRUE
    /\ UNCHANGED <<known, outages, stored, page, flight>>

GoOffline ==
    /\ page.online /\ outages < MaxOutages
    /\ outages' = outages + 1
    /\ React([page EXCEPT !.online = FALSE, !.image = NoImage], flight)
    /\ UNCHANGED <<known, reach, stored>>

GoOnline ==
    /\ ~page.online
    /\ React([page EXCEPT !.online = TRUE], flight)
    /\ UNCHANGED <<known, reach, outages, stored>>

\* Time passes: the code on screen expires.
Expire ==
    /\ page.state.fresh
    /\ React([page EXCEPT !.state.fresh = FALSE], flight)
    /\ UNCHANGED <<known, reach, outages, stored>>

-----------------------------------------------------------------------------
(* refresh *)

Timers(p) == p.refreshTimer \/ p.retryTimer

\* The timer of the state, or that of the error
TimerFires ==
    /\ \/ page.refreshTimer /\ page' = [page EXCEPT !.refreshTimer = FALSE]
       \/ page.retryTimer /\ page' = [page EXCEPT !.retryTimer = FALSE]
    /\ page.token # NoToken /\ page.online
    /\ flight.refresh[page.token] < MaxInFlight
    /\ flight' = Sent(page.token)
    /\ UNCHANGED <<known, reach, outages, stored>>

\* A timer that has nothing to do
TimerIdle ==
    /\ Timers(page) /\ (page.token = NoToken \/ ~page.online)
    /\ page' = [page EXCEPT !.refreshTimer = FALSE, !.retryTimer = FALSE, !.image = NoImage]
    /\ UNCHANGED <<known, reach, outages, stored, flight>>

\* The button that is shown with an error
PressRetry ==
    /\ page.error # "none" /\ page.online /\ page.token # NoToken
    /\ flight.refresh[page.token] < MaxInFlight
    /\ flight' = Sent(page.token)
    /\ UNCHANGED <<known, reach, outages, stored, page>>

NextGen == IF page.state.gen = 0 THEN 1 ELSE 0

\* The answer to a refresh with token t is shown, whatever the token is now.
RefreshSucceeds(t) ==
    /\ flight.refresh[t] > 0 /\ reach /\ Accepts(t)
    /\ \E qr \in BOOLEAN :
           React([page EXCEPT !.state = [gen |-> NextGen, fresh |-> qr, qr |-> qr],
                               !.error = "none"], Answered(t))
    /\ UNCHANGED <<known, reach, outages, stored>>

\* A device that was revoked forgets its token.
Forgotten_Fault(t) == stored

Forgotten(t) == IF reach /\ ~Accepts(t) THEN NoToken ELSE stored

Why(t) == IF ~reach THEN "unreachable" ELSE IF Accepts(t) THEN "limited" ELSE "revoked"

\* The limits of the server let a kiosk through in the end.
RefreshFails(t) ==
    LET failed == [page EXCEPT !.error = Why(t), !.image = NoImage]
    IN  /\ flight.refresh[t] > 0
        /\ IF Why(t) = "limited" THEN outages < MaxOutages /\ outages' = outages + 1
                                 ELSE UNCHANGED outages
        /\ stored' = Forgotten(t)
        /\ React(IF stored' = NoToken
                  THEN [failed EXCEPT !.token = NoToken, !.state = NoState]
                  ELSE failed, Answered(t))
        /\ UNCHANGED <<known, reach>>

Draw ==
    /\ page.drawing # NoImage
    /\ page' = [page EXCEPT !.image = page.drawing, !.drawing = NoImage]
    /\ UNCHANGED <<known, reach, outages, stored, flight>>

DrawFails ==
    /\ page.drawing # NoImage
    /\ outages < MaxOutages /\ outages' = outages + 1
    /\ React([page EXCEPT !.image = NoImage, !.drawing = NoImage, !.error = "image"], flight)
    /\ UNCHANGED <<known, reach, stored>>

-----------------------------------------------------------------------------
(* pair *)

PressPair ==
    /\ page.token = NoToken /\ page.online /\ ~flight.pairing
    /\ React([page EXCEPT !.error = "none"], [flight EXCEPT !.pairing = TRUE])
    /\ UNCHANGED <<known, reach, outages, stored>>

PairSucceeds(t) ==
    /\ flight.pairing /\ reach /\ t \notin Given
    /\ known' = [device |-> t, revoked |-> FALSE, given |-> Given \cup {t}]
    /\ stored' = t
    /\ React([page EXCEPT !.token = t], [flight EXCEPT !.pairing = FALSE])
    /\ UNCHANGED <<reach, outages>>

\* Refused; or the device was paired and the answer lost.
PairFails ==
    /\ flight.pairing
    /\ known' \in {known} \cup
           {[device |-> t, revoked |-> FALSE, given |-> Given \cup {t}] : t \in Tokens \ Given}
    /\ React([page EXCEPT !.error = IF reach THEN "refused" ELSE "unreachable"],
              [flight EXCEPT !.pairing = FALSE])
    /\ UNCHANGED <<reach, outages, stored>>

\* The page is loaded again: only the stored token is left.
NothingInFlight == [refresh |-> [t \in Tokens |-> 0], pairing |-> FALSE]

Loaded(token, online) ==
    /\ page' = Blank(token, online)
    /\ flight' = IF token # NoToken /\ online
                 THEN [NothingInFlight EXCEPT !.refresh[token] = 1] ELSE NothingInFlight

Reload ==
    /\ outages < MaxOutages /\ outages' = outages + 1
    /\ Loaded(stored, page.online)
    /\ UNCHANGED <<known, reach, stored>>

-----------------------------------------------------------------------------
(* The system *)

KioskInit ==
    /\ known = [device |-> NoToken, revoked |-> FALSE, given |-> {}]
    /\ reach = TRUE /\ outages = 0
    /\ stored = NoToken
    /\ page = Blank(NoToken, TRUE)
    /\ flight = NothingInFlight

RefreshAnswered == \E t \in Tokens : RefreshSucceeds(t) \/ RefreshFails(t)

KioskNext ==
    \/ RevokeKiosk \/ ServerDown \/ ServerUp \/ GoOffline \/ GoOnline \/ Expire
    \/ TimerFires \/ TimerIdle \/ PressRetry \/ RefreshAnswered \/ Draw \/ DrawFails
    \/ PressPair \/ PairFails \/ Reload
    \/ \E t \in Tokens : PairSucceeds(t)

KioskSpec == KioskInit /\ [][KioskNext]_kioskPage

\* Browsers fire their timers and answer or fail every request.  Nobody has to
\* press a button, and nothing comes back by itself.
KioskFairness ==
    /\ WF_kioskPage(TimerFires) /\ WF_kioskPage(TimerIdle)
    /\ WF_kioskPage(RefreshAnswered) /\ WF_kioskPage(Draw)

-----------------------------------------------------------------------------
(* Properties *)

OnScreen == page.image # NoImage /\ page.token # NoToken

(* A code on screen is that of the state last received, or will be replaced  *)
(* by it, and has not expired; offline there is none (KioskPage.tsx:214):    *)
(* an image that was being drawn when its state ended does not appear.       *)
CodeOnScreenCurrent ==
    OnScreen => /\ Drawable(page)
                /\ page.drawing # NoImage \/ page.image = page.state.gen

(* A kiosk that shows a code and no error when its device is revoked, and    *)
(* that stays connected, finds out and forgets its token                     *)
(* (terminal-device.ts:144): while all is well there is always a timer or a  *)
(* request to find out by.                                                   *)
RevocationNoticed ==
    (OnScreen /\ page.error = "none" /\ known.revoked) ~>
        (stored = NoToken \/ ~reach \/ ~page.online \/ ~known.revoked)
=============================================================================
