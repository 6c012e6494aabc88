--------------------------- MODULE SessionScreen ---------------------------
(***************************************************************************)
(* The panel and the sensor during a fingerprint session: the calls of     *)
(* Session.cpp that light the panel for the sensor (setFodHbm), report     *)
(* touches (mUdfpsHandler) and run the vendor HAL.  The binder thread and  *)
(* the HAL's thread share them without a lock; the handler's worker is     *)
(* present through its promise, UdfpsTouch, which UdfpsHandler is proved   *)
(* to implement.  The lockout itself is in SessionLockout: here a failed   *)
(* attempt may or may not turn out to be a lockout.  The list of enrolled  *)
(* fingers is put together from single messages in a static vector.  All   *)
(* sessions share the panel, the device and that vector; each has a user,  *)
(* a callback and a handler of its own, and a notification may still run   *)
(* in a session that has been replaced.  A call on the binder thread lifts *)
(* the finger and darkens the panel in one step: between the two the other *)
(* threads can only do the same.                                           *)
(***************************************************************************)
EXTENDS SequencesExt, Naturals

CONSTANTS
    Users,          \* the users for whom sessions are created
    Fingers,        \* the fingers that may be enrolled
    Nobody,         \* finger 0, which the HAL lists when there is none
    MaxSessions,    \* bound on the number of sessions created
    MaxListed       \* bound on the length of the static vector

ASSUME ScreenAssumption ==
    IsFiniteSet(Fingers) /\ Nobody \notin Fingers /\ MaxSessions \in Nat /\ MaxListed \in Nat

VARIABLES
    sessions,       \* sessions created so far; the last is mSession
    mClosed,        \* also TRUE while there is no session
    mIsAod,
    touch, told,    \* mUdfpsHandler of mSession, see UdfpsTouch; the sensor is shared
    hbm,            \* the panel's high-brightness node: TRUE = "1"
    device,         \* what the vendor HAL is doing (external)
    binder,         \* where the binder thread is inside a call
    hal,            \* where the HAL's thread is inside notify ...
    stale,          \* ... and whether that is in a session that has been replaced
    group,          \* mUserId of mSession, which is the HAL's active group
    owner,          \* the user for whom the HAL is doing what it does (external)
    templates,      \* the fingers that the HAL knows of each user (external)
    work,           \* those that its enumeration or removal has still to report
    found,          \* the finger of the message in notify, and whether it is the last
    enrollments,    \* the static vector of notify
    torn,           \* since the vector was empty part of an enumeration was lost, or
                    \* the user changed in the middle of one
    excuse,         \* why the panel may be at odds with the operation
    waiting         \* the last operation that the framework asked for, until it gets
                    \* the callback that ends it; "refused": the HAL took none of it

touchVars == <<touch, told>>
fingerVars == <<owner, templates, work, found, enrollments, torn>>
halVars == <<hal, stale>>
sessionVars == <<sessions, mClosed, mIsAod, group>>
vars == <<sessionVars, touchVars, hbm, device, binder, halVars, fingerVars, excuse, waiting>>

Touch == INSTANCE UdfpsTouch

\* A message has passed the check of Fingerprint::notify ...
Messages == {"error", "acquired", "progress", "enrolled", "matched", "failed", "removed",
             "enumerated"}

\* ... or is being handled: what remains is onFingerUp and setFodHbm(false),
\* and the callback after them if it is a lockout.
Endings == {"up", "dark", "lockUp", "lockDark", "lockTell"}

TypeOK ==
    /\ sessions \in 0 .. MaxSessions
    /\ mClosed \in BOOLEAN /\ mIsAod \in BOOLEAN
    /\ touch \in Touch!Touches /\ told \in BOOLEAN /\ hbm \in BOOLEAN
    /\ device \in {"idle", "auth", "enroll", "enumerate", "remove"}
    /\ group \in Users /\ owner \in Users /\ templates \in [Users -> SUBSET Fingers]
    /\ work \subseteq templates[owner] \cup {Nobody}
    /\ found \in [fids: SUBSET (Fingers \cup {Nobody}), last: BOOLEAN]
    /\ enrollments \in Seq(Fingers \cup {Nobody}) /\ Len(enrollments) <= MaxListed
    /\ torn \in BOOLEAN
    /\ binder \in {"idle", "light", "closing"}
    /\ hal \in Messages \cup Endings \cup {"idle"} /\ stale \in BOOLEAN
    /\ excuse \in {"none", "error", "late", "client", "overtaken", "lockout", "replaced"}
    /\ waiting \in {"none", "refused", "auth", "enroll", "enumerate", "remove"}

\* No message about a finger is in notify.
NoMessage == [fids |-> {}, last |-> FALSE]

Init ==
    /\ sessions = 0 /\ mClosed = TRUE /\ mIsAod = FALSE
    /\ Touch!TouchInit /\ hbm = FALSE
    /\ device = "idle" /\ binder = "idle" /\ hal = "idle" /\ stale = FALSE
    /\ group \in Users /\ owner = group /\ templates \in [Users -> SUBSET Fingers]
    /\ work = {} /\ found = NoMessage
    /\ enrollments = <<>> /\ torn = FALSE
    /\ excuse = "none" /\ waiting = "none"

\* The operations that need the panel.
Operating == device \in {"auth", "enroll"}

\* The HAL turns to something else: what an enumeration had still to report
\* is lost.
TurnTo(op, fids) ==
    /\ device' = op /\ work' = fids
    /\ torn' = (torn \/ device = "enumerate")
    /\ UNCHANGED <<found, enrollments>>

\* The same for a call of the session, made for its user.
Order(op, fids) == TurnTo(op, fids) /\ owner' = group /\ UNCHANGED templates

\* setFodHbm(false)
Dark(why) == hbm' = FALSE /\ excuse' = IF Operating THEN why ELSE "none"

\* mUdfpsHandler.onFingerUp(); setFodHbm(false)
FingerUpAndDark(why) == Touch!Release /\ Dark(why)

\* The session calls back with the end of an operation of this kind; the
\* framework no longer listens to a session that it has replaced.
Ended(op) == IF waiting = op /\ ~stale THEN "none" ELSE waiting

-----------------------------------------------------------------------------
(* The binder thread *)

\* An enumeration is running, or one of its messages is in notify.
Enumerating == device = "enumerate" \/ hal = "enumerated"

\* Fingerprint::createSession; the CHECK aborts the service when the last
\* session is open, so the framework never calls then.  The new session has a
\* handler of its own and makes its user's group the active one: the HAL goes
\* on with what it was doing or gives it up (external).  A notification that
\* is inside the replaced session stays there; one that was only checked is
\* delivered to the new one.
createSession(userId) ==
    /\ binder = "idle" /\ mClosed /\ sessions < MaxSessions
    /\ sessions' = sessions + 1
    /\ mClosed' = FALSE /\ mIsAod' = FALSE
    /\ touch' = "up"
    /\ group' = userId
    /\ \/ UNCHANGED <<device, work>>
       \/ device' = "idle" /\ work' = {}
    /\ torn' = (torn \/ (device = "enumerate" /\ device' = "idle")
                    \/ (Enumerating /\ userId # group))
    /\ \/ hal \notin Endings /\ UNCHANGED stale
       \/ hal # "idle" /\ stale' = TRUE
    /\ UNCHANGED <<owner, templates, found, enrollments, told, hbm, binder, hal, excuse, waiting>>

\* A client calls a session it has not closed.
ClientCalls == binder = "idle" /\ ~mClosed

\* Calls that ask the HAL, if that, and answer at once.
AnswerAtOnce ==
    /\ ClientCalls
    /\ waiting' = "none"
    /\ UNCHANGED <<fingerVars, sessionVars, touchVars, hbm, device, binder, halVars, excuse>>

generateChallenge == AnswerAtOnce
getAuthenticatorId == AnswerAtOnce
invalidateAuthenticatorId == AnswerAtOnce
detectInteraction == AnswerAtOnce

revokeChallenge ==
    /\ ClientCalls
    /\ FingerUpAndDark("client")
    /\ waiting' = "none"
    /\ UNCHANGED <<fingerVars, sessionVars, device, binder, halVars>>

\* Mutant: an operation that the HAL refuses is not reported.
startOperation_silent(op) ==
    /\ ClientCalls
    /\ \/ Order(op, {}) /\ binder' = "light"
       \/ UNCHANGED <<device, fingerVars, binder>>
    /\ waiting' = op
    /\ UNCHANGED <<sessionVars, touchVars, hbm, halVars, excuse>>

\* enroll and authenticate, up to the return of the HAL's function: an error
\* is reported, success leaves the panel still to be lit.
startOperation(op) ==
    /\ ClientCalls
    /\ \/ Order(op, {}) /\ binder' = "light" /\ waiting' = op
       \/ waiting' = "none" /\ UNCHANGED <<device, fingerVars, binder>>
    /\ UNCHANGED <<sessionVars, touchVars, hbm, halVars, excuse>>

enroll == startOperation("enroll")
authenticate == startOperation("auth")

\* setFodHbm(true); the HAL may have reported the end already.
LightPanel ==
    /\ binder = "light"
    /\ hbm' = TRUE
    /\ excuse' = IF ~Operating THEN "late" ELSE "none"
    /\ binder' = "idle"
    /\ UNCHANGED <<fingerVars, sessionVars, touchVars, device, halVars, waiting>>

\* What the HAL lists for a user.
Enrolled(userId) == IF templates[userId] = {} THEN {Nobody} ELSE templates[userId]

\* The HAL refuses at will, and while it has an operation that needs the
\* panel; the error is only logged.
enumerateEnrollments ==
    /\ ClientCalls
    /\ Len(enrollments) + Cardinality(Enrolled(group)) <= MaxListed
    /\ \/ ~Operating /\ Order("enumerate", Enrolled(group)) /\ waiting' = "enumerate"
       \/ waiting' = "refused" /\ UNCHANGED <<device, fingerVars>>
    /\ UNCHANGED <<sessionVars, touchVars, hbm, binder, halVars, excuse>>

\* One call of the HAL's remove for each finger, of which any may fail.
removeEnrollments ==
    /\ ClientCalls
    /\ \/ /\ ~Operating /\ \E fids \in SUBSET templates[group] \ {{}} : Order("remove", fids)
          /\ waiting' = "remove"
       \/ waiting' = "refused" /\ UNCHANGED <<device, fingerVars>>
    /\ UNCHANGED <<sessionVars, touchVars, hbm, binder, halVars, excuse>>

\* onPointerDown clears mIsAod; onPointerDownWithContext then stores isAod.
onPointerDown(isAod) ==
    /\ ClientCalls
    /\ mIsAod' = isAod
    /\ UNCHANGED <<fingerVars, sessions, mClosed, group, touchVars, hbm, device, binder, halVars,
                   excuse, waiting>>

\* Ignored while a finger is down.
onUiReady ==
    /\ ClientCalls
    /\ Touch!Press(mIsAod)
    /\ UNCHANGED <<fingerVars, sessionVars, hbm, device, binder, halVars, excuse,
                   waiting>>

\* Also onPointerUpWithContext and onPointerCancelWithContext.
onPointerUp ==
    /\ ClientCalls
    /\ Touch!Release
    /\ UNCHANGED <<fingerVars, sessionVars, hbm, device, binder, halVars, excuse,
                   waiting>>

\* The HAL accepts the cancellation and goes idle, or returns an error.
cancel ==
    /\ ClientCalls
    /\ \/ /\ Touch!Release /\ hbm' = FALSE /\ excuse' = "none"
          /\ Order("idle", {}) /\ waiting' = "none"
       \/ FingerUpAndDark("client") /\ UNCHANGED <<device, fingerVars, waiting>>
    /\ UNCHANGED <<sessionVars, binder, halVars>>

\* Mutant: the sensor is not told when the session is closed.
close_fingerStays ==
    /\ ClientCalls
    /\ hbm' = FALSE /\ excuse' = IF Operating THEN "client" ELSE "none"
    /\ mClosed' = TRUE
    /\ binder' = "closing"
    /\ UNCHANGED <<fingerVars, sessions, mIsAod, group, touchVars, device, halVars, waiting>>

\* close, and onClientDeath, which closes a session that is still open.
close ==
    /\ ClientCalls
    /\ FingerUpAndDark("client")
    /\ mClosed' = TRUE
    /\ binder' = "closing"
    /\ UNCHANGED <<fingerVars, sessions, mIsAod, group, device, halVars, waiting>>

\* onSessionClosed
closeTell ==
    /\ binder = "closing"
    /\ waiting' = "none"
    /\ binder' = "idle"
    /\ UNCHANGED <<fingerVars, sessionVars, touchVars, hbm, device, halVars, excuse>>

-----------------------------------------------------------------------------
(* The HAL's thread *)

\* What the vendor HAL may report, given what it is doing, and what it does
\* next (external).
HalMessages ==
    CASE device = "auth" -> {<<"matched", "idle">>, <<"failed", "auth">>,
                             <<"acquired", "auth">>, <<"error", "idle">>}
      [] device = "enroll" -> {<<"progress", "enroll">>, <<"enrolled", "idle">>,
                               <<"acquired", "enroll">>, <<"error", "idle">>}
      [] OTHER -> {<<"error", "idle">>}

\* Fingerprint::notify: a message without an open session is dropped.
notify ==
    /\ hal = "idle"
    /\ \E m \in HalMessages :
         /\ TurnTo(m[2], {})
         /\ hal' = IF mClosed THEN "idle" ELSE m[1]
         /\ IF m[1] = "enrolled"
              THEN \E f \in Fingers \ templates[owner] :
                     templates' = [templates EXCEPT ![owner] = @ \cup {f}]
              ELSE UNCHANGED templates
    /\ UNCHANGED <<owner, stale, sessionVars, touchVars, hbm, binder, excuse, waiting>>

\* The same for the messages about one finger: the HAL has removed it, or
\* lists it.
notifyFinger ==
    /\ hal = "idle"
    /\ \E f \in work :
         /\ work' = work \ {f}
         /\ device' = IF work = {f} THEN "idle" ELSE device
         /\ templates' = IF device = "remove" THEN [templates EXCEPT ![owner] = @ \ {f}]
                                               ELSE templates
         /\ found' = IF mClosed THEN NoMessage ELSE [fids |-> {f}, last |-> work = {f}]
    /\ hal' = IF mClosed THEN "idle" ELSE IF device = "remove" THEN "removed" ELSE "enumerated"
    /\ torn' = (torn \/ (mClosed /\ device = "enumerate"))
    /\ UNCHANGED <<sessionVars, touchVars, hbm, binder, stale, owner, enrollments, excuse, waiting>>

\* notify returns.
Return == hal' = "idle" /\ stale' = FALSE

\* Session::notify for the messages that are only passed on: an error leaves
\* the panel as it is.
notifyOnly ==
    /\ hal \in {"error", "acquired", "progress", "removed"}
    /\ excuse' = IF hal = "error" /\ ~Operating /\ hbm THEN "error" ELSE excuse
    /\ waiting' = CASE hal = "error" -> Ended(waiting)
                    [] hal = "removed" /\ found.last -> Ended("remove")
                    [] OTHER -> waiting
    /\ found' = NoMessage
    /\ Return
    /\ UNCHANGED <<owner, templates, work, enrollments, torn, sessionVars, touchVars, hbm,
                   device, binder>>

\* The vector with the finger of the message.
Listed == enrollments \o SetToSeq(found.fids)

\* The HAL is in the middle of an enumeration for another user.
ForAnother == device = "enumerate" /\ owner # group

\* Mutant: the vector is not emptied when it has been handed out.
notifyEnumerated_keeps ==
    /\ hal = "enumerated"
    /\ enrollments' = Listed
    /\ torn' = IF found.last THEN ForAnother ELSE torn
    /\ waiting' = IF found.last THEN Ended("enumerate") ELSE waiting
    /\ found' = NoMessage
    /\ Return
    /\ UNCHANGED <<owner, templates, work, sessionVars, touchVars, hbm, device, binder,
                   excuse>>

\* ... for a finger that is listed: with the last, the framework gets the list
\* (see EnumerationExact) ...
notifyEnumerated ==
    /\ hal = "enumerated"
    /\ enrollments' = IF found.last THEN <<>> ELSE Listed
    /\ torn' = IF found.last THEN ForAnother ELSE torn
    /\ waiting' = IF found.last THEN Ended("enumerate") ELSE waiting
    /\ found' = NoMessage
    /\ Return
    /\ UNCHANGED <<owner, templates, work, sessionVars, touchVars, hbm, device, binder,
                   excuse>>

\* ... and for those that end an operation, up to the callback; a failed
\* attempt ends it only if checkSensorLockout finds a lockout.
notifyBegin ==
    /\ \/ hal = "enrolled" /\ hal' = "up" /\ waiting' = Ended("enroll") /\ UNCHANGED stale
       \/ hal = "matched" /\ hal' = "up" /\ waiting' = Ended("auth") /\ UNCHANGED stale
       \/ hal = "failed" /\ hal' = "lockUp" /\ UNCHANGED <<waiting, stale>>
       \/ hal = "failed" /\ Return /\ UNCHANGED waiting
    /\ UNCHANGED <<fingerVars, sessionVars, touchVars, hbm, device, binder, excuse>>

\* onFingerUp, after the callback: by now the framework may have started
\* another operation, or replaced the session; the handler of a replaced
\* session still tells the sensor that the finger is up.
notifyFingerUp ==
    /\ \/ hal = "up" /\ hal' = "dark"
       \/ hal = "lockUp" /\ hal' = "lockDark"
    /\ told' = FALSE /\ touch' = IF stale THEN touch ELSE "up"
    /\ UNCHANGED <<fingerVars, sessionVars, stale, hbm, device, binder, excuse, waiting>>

\* Mutant: the end of an operation leaves the panel lit.
notifyDark_staysLit ==
    /\ \/ hal = "dark" /\ Return
       \/ hal = "lockDark" /\ hal' = "lockTell" /\ UNCHANGED stale
    /\ UNCHANGED <<fingerVars, sessionVars, touchVars, hbm, device, binder, excuse, waiting>>

\* setFodHbm(false), on the node that all sessions share.
notifyDark ==
    /\ Dark(IF stale THEN "replaced" ELSE IF hal = "dark" THEN "overtaken" ELSE "lockout")
    /\ \/ hal = "dark" /\ Return
       \/ hal = "lockDark" /\ hal' = "lockTell" /\ UNCHANGED stale
    /\ UNCHANGED <<fingerVars, sessionVars, touchVars, device, binder, waiting>>

\* A lockout is told, though the HAL goes on.  A mode that was read
\* uninitialized darkens the panel and is not told.
notifyLockout ==
    /\ hal = "lockTell"
    /\ waiting' \in {Ended("auth"), waiting}
    /\ Return
    /\ UNCHANGED <<fingerVars, sessionVars, touchVars, hbm, device, binder, excuse>>

-----------------------------------------------------------------------------
\* The worker of mUdfpsHandler answers or gives up a waiting touch.
udfpsWorker ==
    /\ Touch!Resolve
    /\ UNCHANGED <<fingerVars, sessionVars, hbm, device, binder, halVars, excuse,
                   waiting>>

Next ==
    \/ \E u \in Users : createSession(u)
    \/ generateChallenge \/ getAuthenticatorId \/ invalidateAuthenticatorId
    \/ detectInteraction \/ revokeChallenge
    \/ enroll \/ authenticate \/ LightPanel
    \/ enumerateEnrollments \/ removeEnrollments
    \/ \E a \in BOOLEAN : onPointerDown(a)
    \/ onUiReady \/ onPointerUp
    \/ cancel \/ close \/ closeTell
    \/ notify \/ notifyFinger \/ notifyOnly \/ notifyEnumerated \/ notifyBegin
    \/ notifyFingerUp \/ notifyDark \/ notifyLockout
    \/ udfpsWorker

Spec == Init /\ [][Next]_vars

-----------------------------------------------------------------------------
(* Properties *)

\* A closed session leaves nothing on: the panel is dark, the finger is up
\* and the sensor knows it, although the HAL's thread may still be inside a
\* notification and the worker inside a wait (Session.cpp 241-249 against
\* 95, 179 and 368-434).
ClosedIsDark == mClosed => ~hbm /\ touch = "up" /\ ~told

\* The panel is lit exactly during the operations that need it, once both
\* threads are at rest.  It is lit with no operation in two cases only: the
\* operation ended with an error, which notify passes on without darkening
\* (370-375), or it ended before setFodHbm(true) was reached (80, 96).  It is
\* dark during an operation if the client asked for it (revokeChallenge, a
\* cancel that the HAL refuses, close), if the HAL goes on after a lockout, if
\* the end of the operation before, reported to the framework first and
\* darkened afterwards, overtook the start of this one (392-396, 412-415), or
\* if a notification that was still running in a replaced session darkened the
\* panel of this one.
PanelFollowsOperation ==
    binder = "idle" /\ hal = "idle" /\ hbm # Operating => excuse # "none"

\* The list that the framework gets is the list of the fingers of the session's
\* user, each once (finger 0 when there is none), although it is put together
\* in a vector that outlives sessions and neither the user nor the session of
\* a message is looked at.  The exceptions are the enumerations that follow
\* one of which a part was lost, to a session that was closed, to a cancel or
\* to another call, and those in whose middle a session for another user was
\* created (46-47, 112-121, 224-249, 423-432).
EnumerationExact ==
    hal = "enumerated" /\ found.last /\ ~stale /\ ~torn
      => IsInjective(Listed) /\ Range(Listed) = Enrolled(group)

\* The framework, which runs one operation at a time and waits for the
\* callback that ends it, never waits for nothing: what it waits for is what
\* the HAL is doing, or the end of it is being reported.  The exception is an
\* enumeration or a removal that the HAL refuses (115-118, 127-130): the error
\* is logged, no callback comes, and no other code makes up for it.
Answered ==
    hal = "idle" /\ binder # "closing" => waiting \in {"none", "refused", device}

\* The first two together: every variable keeps its type and a closed session
\* leaves nothing on.
ScreenInv == TypeOK /\ ClosedIsDark

=============================================================================
