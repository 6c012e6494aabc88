------------------------ MODULE SessionScreen_proofs ------------------------
(***************************************************************************)
(* Proofs about SessionScreen: a closed session leaves nothing on, the     *)
(* panel follows the operation, the framework never waits for nothing, and *)
(* the list of fingers that it gets is exact; for any fingers and any      *)
(* number of sessions.                                                     *)
(***************************************************************************)
EXTENDS SessionScreen, FiniteSetTheorems, SequenceTheorems, TLAPS

Devices == {"idle", "auth", "enroll", "enumerate", "remove"}
Excuses == {"none", "error", "late", "client", "overtaken", "lockout", "replaced"}
Waits == {"none", "refused", "auth", "enroll", "enumerate", "remove"}
Places == Messages \cup Endings \cup {"idle"}

\* The types of what is not about single fingers.
ScalarType ==
    /\ sessions \in 0 .. MaxSessions /\ group \in Users
    /\ mClosed \in BOOLEAN /\ mIsAod \in BOOLEAN
    /\ touch \in Touch!Touches /\ told \in BOOLEAN /\ hbm \in BOOLEAN
    /\ device \in Devices /\ binder \in {"idle", "light", "closing"}
    /\ hal \in Places /\ stale \in BOOLEAN
    /\ excuse \in Excuses /\ waiting \in Waits

\* Only a session that is open lights the panel.
ClosedInv ==
    /\ ClosedIsDark
    /\ binder = "light" => ~mClosed
    /\ binder = "closing" => mClosed

\* The panel is at odds with the operation only while one of the threads is
\* about to put that right.
PanelInv ==
    excuse = "none"
      => /\ Operating /\ ~hbm => binder = "light"
         /\ hbm /\ ~Operating
              => binder = "light" \/ hal \in {"error", "enrolled", "matched", "up", "dark"}

\* The HAL reports fingers only in the operations that are about them, and an
\* enumeration has always something left to report.
WorkInv ==
    /\ work # {} => device \in {"enumerate", "remove"}
    /\ device = "enumerate" => work # {}

\* Nobody waits for a session that is closed; in an open one the operation
\* waited for is under way, or the message that ends it is in its notify.
AnswerInv ==
    /\ mClosed /\ binder # "closing" => waiting = "none"
    /\ hal = "idle" => stale = FALSE
    /\ \/ binder = "closing" \/ waiting \in {"none", "refused", device}
       \/ stale = FALSE /\ hal = "error"
       \/ stale = FALSE /\ hal = "enrolled" /\ waiting = "enroll"
       \/ stale = FALSE /\ hal = "matched" /\ waiting = "auth"
       \/ stale = FALSE /\ hal = "removed" /\ found.last /\ waiting = "remove"
       \/ stale = FALSE /\ hal = "enumerated" /\ found.last /\ waiting = "enumerate"

-----------------------------------------------------------------------------
(* What the messages are *)

\* What the HAL may report: the end of the operation that it is doing, or
\* something in the middle of it.
LEMMA MessageKinds ==
    ASSUME NEW m \in HalMessages
    PROVE  /\ m[1] \in {"error", "acquired", "progress", "enrolled", "matched", "failed"}
           /\ m[2] \in Devices
           /\ m[2] = device \/ m[2] = "idle"
           /\ m[2] # device => m[1] = "error" \/ (device = "auth" /\ m[1] = "matched")
                                              \/ (device = "enroll" /\ m[1] = "enrolled")
           /\ m[2] # "enumerate" /\ m[2] # "remove"
    BY DEF HalMessages, Devices

-----------------------------------------------------------------------------
(* Types *)

\* Every step keeps the types of what is not about single fingers.
LEMMA ScalarStep == ScalarType /\ [Next]_vars => ScalarType'
<1> SUFFICES ASSUME ScalarType, [Next]_vars PROVE ScalarType'
    OBVIOUS
<1> USE ScreenAssumption
<1>1. ASSUME NEW u \in Users, createSession(u) PROVE ScalarType'
  <2>1. mClosed' \in BOOLEAN /\ mIsAod' \in BOOLEAN /\ stale' \in BOOLEAN
      BY <1>1, Zenon DEF createSession, ScalarType
  <2> QED BY <1>1, <2>1 DEF createSession, ScalarType, sessionVars, halVars, Touch!Touches, Devices
<1>2. CASE AnswerAtOnce
    BY <1>2 DEF AnswerAtOnce, ScalarType, sessionVars, halVars, touchVars, Waits
<1>3. ASSUME NEW why \in Excuses, FingerUpAndDark(why)
      PROVE  /\ touch' \in Touch!Touches /\ told' \in BOOLEAN /\ hbm' \in BOOLEAN
             /\ excuse' \in Excuses
  <2>1. told' \in BOOLEAN /\ hbm' \in BOOLEAN
      BY <1>3, Zenon DEF FingerUpAndDark, Dark, Touch!Release
  <2> QED BY <1>3, <2>1 DEF FingerUpAndDark, Dark, Touch!Release, Touch!Touches, Excuses
<1>4. CASE revokeChallenge
    BY <1>3, <1>4 DEF revokeChallenge, ScalarType, sessionVars, halVars, Excuses, Waits
<1>5. ASSUME NEW op \in {"auth", "enroll"}, startOperation(op) PROVE ScalarType'
    BY <1>5
    DEF startOperation, Order, TurnTo, ScalarType, sessionVars, halVars, touchVars, Devices, Waits
<1>6. CASE LightPanel
  <2>1. hbm' \in BOOLEAN
      BY <1>6, Zenon DEF LightPanel
  <2> QED BY <1>6, <2>1 DEF LightPanel, ScalarType, sessionVars, halVars, touchVars, Excuses
<1>7. CASE enumerateEnrollments \/ removeEnrollments
    BY <1>7
    DEF enumerateEnrollments, removeEnrollments, Order, TurnTo, ScalarType, sessionVars, halVars,
        touchVars, Devices, Waits
<1>8. ASSUME NEW a \in BOOLEAN, onPointerDown(a) PROVE ScalarType'
    BY <1>8 DEF onPointerDown, ScalarType, sessionVars, halVars, touchVars
<1>9. CASE onUiReady
  <2>1. told' \in BOOLEAN
      BY <1>9, Zenon DEF onUiReady, Touch!Press
  <2> QED BY <1>9, <2>1 DEF onUiReady, ScalarType, sessionVars, halVars, Touch!Press, Touch!Touches
<1>10. CASE onPointerUp
  <2>1. told' \in BOOLEAN
      BY <1>10, Zenon DEF onPointerUp, Touch!Release
  <2> QED BY <1>10, <2>1
      DEF onPointerUp, ScalarType, sessionVars, halVars, Touch!Release, Touch!Touches
<1>11. CASE cancel
  <2>1. told' \in BOOLEAN /\ hbm' \in BOOLEAN
      BY <1>11, Zenon DEF cancel, FingerUpAndDark, Dark, Touch!Release
  <2> QED BY <1>11, <2>1
      DEF cancel, Order, TurnTo, FingerUpAndDark, Dark, ScalarType, sessionVars, halVars,
          Touch!Release, Touch!Touches, Devices, Waits, Excuses
<1>12. CASE close
  <2>1. mClosed' \in BOOLEAN
      BY <1>12, Zenon DEF close
  <2> QED BY <1>3, <1>12, <2>1 DEF close, ScalarType, sessionVars, halVars, Excuses
<1>13. CASE closeTell
    BY <1>13 DEF closeTell, ScalarType, sessionVars, halVars, touchVars, Waits
<1>14. CASE notify
  <2>1. PICK m \in HalMessages : TurnTo(m[2], {}) /\ hal' = IF mClosed THEN "idle" ELSE m[1]
      BY <1>14 DEF notify
  <2>2. device' \in Devices /\ hal' \in Places
      BY <2>1, MessageKinds DEF TurnTo, Places, Messages
  <2> QED BY <1>14, <2>2 DEF notify, ScalarType, sessionVars, halVars, touchVars
<1>15. CASE notifyFinger
  <2>1. device' \in Devices
      BY <1>15 DEF notifyFinger, ScalarType, Devices
  <2> QED BY <1>15, <2>1
      DEF notifyFinger, ScalarType, sessionVars, halVars, touchVars, Places, Messages
<1>16. CASE notifyOnly \/ notifyEnumerated \/ notifyBegin \/ notifyLockout
  <2>1. stale' \in BOOLEAN
      BY <1>16, Zenon DEF notifyOnly, notifyEnumerated, notifyBegin, notifyLockout, Return,
         ScalarType
  <2>2. waiting' \in Waits
      BY <1>16 DEF notifyOnly, notifyEnumerated, notifyBegin, notifyLockout, ScalarType, Waits,
         Ended
  <2>3. hal' \in Places
      BY <1>16 DEF notifyOnly, notifyEnumerated, notifyBegin, notifyLockout, Return, Places, Endings
  <2>4. excuse' \in Excuses
      BY <1>16
      DEF notifyOnly, notifyEnumerated, notifyBegin, notifyLockout, ScalarType, sessionVars,
          halVars, Excuses
  <2>5. UNCHANGED <<sessionVars, touchVars, hbm, device, binder>>
      BY <1>16, Zenon DEF notifyOnly, notifyEnumerated, notifyBegin, notifyLockout
  <2> QED BY <2>1, <2>2, <2>3, <2>4, <2>5 DEF ScalarType, sessionVars, touchVars
<1>17. CASE notifyFingerUp
  <2>1. told' \in BOOLEAN
      BY <1>17, Zenon DEF notifyFingerUp
  <2> QED BY <1>17, <2>1
      DEF notifyFingerUp, ScalarType, sessionVars, Touch!Touches, Places, Endings
<1>18. CASE notifyDark
  <2>1. hbm' \in BOOLEAN
      BY <1>18, Zenon DEF notifyDark, Dark
  <2>2. stale' \in BOOLEAN
      BY <1>18, Zenon DEF notifyDark, Return, ScalarType
  <2> QED BY <1>18, <2>1, <2>2
      DEF notifyDark, Dark, Return, ScalarType, sessionVars, touchVars, Excuses, Places, Endings
<1>21. CASE udfpsWorker
  <2>1. told' \in BOOLEAN
      BY <1>21, Zenon DEF udfpsWorker, Touch!Resolve, Touch!Lit, Touch!Abandon
  <2> QED BY <1>21, <2>1
      DEF udfpsWorker, ScalarType, sessionVars, halVars, Touch!Resolve, Touch!Lit, Touch!Abandon,
          Touch!Touches
<1>22. CASE UNCHANGED vars
    BY <1>22 DEF vars, ScalarType, sessionVars, halVars, touchVars
<1>23. CASE generateChallenge \/ getAuthenticatorId \/ invalidateAuthenticatorId
            \/ detectInteraction
    BY <1>2, <1>23
    DEF generateChallenge, getAuthenticatorId, invalidateAuthenticatorId, detectInteraction
<1>24. CASE enroll \/ authenticate
    BY <1>5, <1>24 DEF enroll, authenticate
<1> QED BY <1>1, <1>4, <1>6, <1>7, <1>8, <1>9, <1>10, <1>11, <1>12, <1>13, <1>14, <1>15, <1>16,
           <1>17, <1>18, <1>21, <1>22, <1>23, <1>24 DEF Next

-----------------------------------------------------------------------------
(* A closed session, and the panel *)

\* The calls that only ask the HAL and answer.
AtOnce ==
    generateChallenge \/ getAuthenticatorId \/ invalidateAuthenticatorId \/ detectInteraction

\* Every step leaves a closed session dark.
LEMMA ClosedStep == ScalarType /\ ClosedInv /\ [Next]_vars => ClosedInv'
<1> SUFFICES ASSUME ScalarType, ClosedInv, [Next]_vars PROVE ClosedInv'
    OBVIOUS
<1> USE DEF ClosedInv, ClosedIsDark, sessionVars
<1>1. CASE \E u \in Users : createSession(u)
    BY <1>1 DEF createSession
<1>2. CASE AtOnce
    BY <1>2 DEF AtOnce, generateChallenge, getAuthenticatorId, invalidateAuthenticatorId,
       detectInteraction, AnswerAtOnce, touchVars
<1>3. CASE revokeChallenge
    BY <1>3 DEF revokeChallenge, FingerUpAndDark, Dark, Touch!Release
<1>4. CASE enroll \/ authenticate
    BY <1>4 DEF enroll, authenticate, startOperation, ClientCalls, touchVars
<1>5. CASE LightPanel
    BY <1>5 DEF LightPanel, touchVars
<1>6. CASE enumerateEnrollments \/ removeEnrollments
    BY <1>6 DEF enumerateEnrollments, removeEnrollments, touchVars
<1>7. CASE \E a \in BOOLEAN : onPointerDown(a)
    BY <1>7 DEF onPointerDown, touchVars
<1>8. CASE onUiReady \/ onPointerUp
    BY <1>8 DEF onUiReady, onPointerUp, ClientCalls, Touch!Press, Touch!Release
<1>9. CASE cancel \/ close
    BY <1>9 DEF cancel, close, ClientCalls, FingerUpAndDark, Dark, Touch!Release
<1>10. CASE closeTell
    BY <1>10 DEF closeTell, touchVars
<1>11. CASE \/ notify \/ notifyFinger \/ notifyOnly \/ notifyEnumerated \/ notifyBegin
            \/ notifyLockout
  <2>1. UNCHANGED <<sessionVars, touchVars, hbm, binder>>
      BY <1>11, Zenon DEF notify, notifyFinger, notifyOnly, notifyEnumerated, notifyBegin,
         notifyLockout
  <2> QED BY <2>1 DEF touchVars
<1>12. CASE notifyFingerUp \/ notifyDark
    BY <1>12 DEF notifyFingerUp, notifyDark, Dark, touchVars
<1>13. CASE udfpsWorker
    BY <1>13 DEF udfpsWorker, Touch!Resolve, Touch!Lit, Touch!Abandon
<1>14. CASE UNCHANGED vars
    BY <1>14 DEF vars, touchVars
<1> QED BY <1>1, <1>2, <1>3, <1>4, <1>5, <1>6, <1>7, <1>8, <1>9, <1>10, <1>11, <1>12, <1>13,
           <1>14 DEF Next, AtOnce

\* Every step keeps the panel with the operation, or excused, or about to be
\* put right.
LEMMA PanelStep == ScalarType /\ ClosedInv /\ WorkInv /\ PanelInv /\ [Next]_vars => PanelInv'
<1> SUFFICES ASSUME ScalarType, ClosedInv, WorkInv, PanelInv, [Next]_vars PROVE PanelInv'
    OBVIOUS
<1> USE DEF PanelInv, Operating, halVars
<1>1. ASSUME UNCHANGED <<hbm, device, excuse, binder, hal>> PROVE PanelInv'
    BY <1>1
<1>2. CASE \E u \in Users : createSession(u)
    BY <1>2 DEF createSession, ClosedInv, ClosedIsDark
<1>3. CASE AtOnce
    BY <1>1, <1>3 DEF AtOnce, generateChallenge, getAuthenticatorId, invalidateAuthenticatorId,
       detectInteraction, AnswerAtOnce
<1>4. ASSUME NEW why, why # "none", Dark(why), UNCHANGED device PROVE PanelInv'
  <2>1. hbm' = FALSE /\ (excuse' = "none" => ~Operating')
      BY <1>4 DEF Dark
  <2> QED BY <2>1
<1>5. CASE revokeChallenge \/ close
    BY <1>4, <1>5 DEF revokeChallenge, close, FingerUpAndDark
<1>19. CASE notifyDark
  <2>1. PICK why \in {"replaced", "overtaken", "lockout"} : Dark(why)
      BY <1>19 DEF notifyDark
  <2> QED BY <1>4, <1>19, <2>1 DEF notifyDark
<1>20. CASE notifyFingerUp \/ notifyLockout
    BY <1>20 DEF notifyFingerUp, notifyLockout, Return
<1>6. ASSUME NEW op, startOperation(op) PROVE PanelInv'
    BY <1>6 DEF startOperation, Order, TurnTo
<1>7. CASE enroll \/ authenticate
    BY <1>6, <1>7 DEF enroll, authenticate
<1>8. CASE LightPanel
    BY <1>8 DEF LightPanel, ScalarType
<1>9. CASE enumerateEnrollments \/ removeEnrollments
    BY <1>9 DEF enumerateEnrollments, removeEnrollments, Order, TurnTo
<1>10. CASE \E a \in BOOLEAN : onPointerDown(a)
    BY <1>1, <1>10 DEF onPointerDown
<1>11. CASE onUiReady \/ onPointerUp \/ udfpsWorker
    BY <1>1, <1>11 DEF onUiReady, onPointerUp, udfpsWorker
<1>12. CASE cancel
  <2>1. CASE ~hbm' /\ device' = "idle"
      BY <2>1
  <2>2. CASE FingerUpAndDark("client") /\ UNCHANGED device
      BY <1>4, <2>2 DEF FingerUpAndDark
  <2> QED BY <1>12, <2>1, <2>2 DEF cancel, Order, TurnTo
<1>13. CASE closeTell
    BY <1>13 DEF closeTell, ClosedInv, ClosedIsDark, ScalarType
<1>14. CASE notify
  <2>1. PICK m \in HalMessages : TurnTo(m[2], {}) /\ hal' = IF mClosed THEN "idle" ELSE m[1]
      BY <1>14 DEF notify
  <2>2. UNCHANGED <<hbm, binder, excuse>> /\ hal = "idle"
      BY <1>14 DEF notify
  <2>3. CASE m[2] = device
      BY <2>1, <2>2, <2>3 DEF TurnTo
  <2>4. CASE m[2] # device
    <3>1. device' = "idle" /\ (mClosed \/ hal' \in {"error", "enrolled", "matched"})
        BY <2>1, <2>4, MessageKinds DEF TurnTo
    <3> QED BY <2>2, <3>1 DEF ClosedInv, ClosedIsDark, ScalarType
  <2> QED BY <2>3, <2>4
<1>15. CASE notifyFinger
  <2>1. /\ UNCHANGED <<hbm, binder, excuse>> /\ hal = "idle"
        /\ device' \in {"idle", device} /\ device \in {"enumerate", "remove"}
      BY <1>15 DEF notifyFinger, WorkInv
  <2> QED BY <2>1
<1>16. CASE notifyOnly
    BY <1>16 DEF notifyOnly, Return, ScalarType
<1>17. CASE notifyEnumerated \/ notifyBegin
    BY <1>17 DEF notifyEnumerated, notifyBegin, Return
<1>18. CASE UNCHANGED vars
    BY <1>1, <1>18 DEF vars
<1> QED BY <1>2, <1>3, <1>5, <1>7, <1>8, <1>9, <1>10, <1>11, <1>12, <1>13, <1>14, <1>15, <1>16,
           <1>17, <1>18, <1>19, <1>20 DEF Next, AtOnce

-----------------------------------------------------------------------------
(* Answers *)

\* What the HAL has still to report belongs to what it is doing.
LEMMA WorkStep == ScalarType /\ WorkInv /\ [Next]_vars => WorkInv'
<1> SUFFICES ASSUME ScalarType, WorkInv, [Next]_vars PROVE WorkInv'
    OBVIOUS
<1> USE DEF WorkInv
<1>1. ASSUME UNCHANGED <<device, work>> PROVE WorkInv'
    BY <1>1
<1>14. CASE \E u \in Users : createSession(u)
    BY <1>14 DEF createSession
<1>2. CASE AtOnce \/ revokeChallenge \/ LightPanel
    BY <1>1, <1>2 DEF AtOnce, generateChallenge, getAuthenticatorId,
       invalidateAuthenticatorId, detectInteraction, AnswerAtOnce, revokeChallenge, LightPanel,
       fingerVars
<1>3. ASSUME NEW op \in {"idle", "auth", "enroll"}, TurnTo(op, {}) PROVE WorkInv'
    BY <1>3 DEF TurnTo
<1>4. CASE enroll \/ authenticate
    BY <1>1, <1>3, <1>4 DEF enroll, authenticate, startOperation, Order, fingerVars
<1>5. CASE enumerateEnrollments
  <2>1. Enrolled(group) # {}
      BY DEF Enrolled
  <2> QED BY <1>1, <1>5, <2>1 DEF enumerateEnrollments, Order, TurnTo, fingerVars
<1>6. CASE removeEnrollments
    BY <1>1, <1>6 DEF removeEnrollments, Order, TurnTo, fingerVars
<1>7. CASE \E a \in BOOLEAN : onPointerDown(a)
    BY <1>1, <1>7 DEF onPointerDown, fingerVars
<1>8. CASE onUiReady \/ onPointerUp \/ udfpsWorker \/ close \/ closeTell
    BY <1>1, <1>8 DEF onUiReady, onPointerUp, udfpsWorker, close, closeTell, fingerVars
<1>9. CASE cancel
    BY <1>1, <1>3, <1>9 DEF cancel, Order, fingerVars
<1>10. CASE notify
  <2>1. PICK m \in HalMessages : TurnTo(m[2], {})
      BY <1>10 DEF notify
  <2>2. m[2] \in {"idle", "auth", "enroll"}
      BY MessageKinds DEF Devices
  <2> QED BY <1>3, <2>1, <2>2
<1>11. CASE notifyFinger
  <2>1. PICK f \in work : /\ work' = work \ {f}
                          /\ device' = IF work = {f} THEN "idle" ELSE device
      BY <1>11 DEF notifyFinger
  <2>2. CASE work = {f}
      BY <2>1, <2>2
  <2>3. CASE work # {f}
      BY <2>1, <2>3
  <2> QED BY <2>2, <2>3
<1>12. CASE \/ notifyOnly \/ notifyEnumerated \/ notifyBegin \/ notifyFingerUp \/ notifyDark
            \/ notifyLockout
    BY <1>1, <1>12 DEF notifyOnly, notifyEnumerated, notifyBegin, notifyFingerUp, notifyDark,
       notifyLockout, fingerVars
<1>13. CASE UNCHANGED vars
    BY <1>1, <1>13 DEF vars, fingerVars
<1> QED BY <1>2, <1>4, <1>5, <1>6, <1>7, <1>8, <1>9, <1>10, <1>11, <1>12, <1>13, <1>14
        DEF Next, AtOnce

\* Every step keeps what the framework waits for under way.
LEMMA AnswerStep ==
    ScalarType /\ ClosedInv /\ WorkInv /\ AnswerInv /\ [Next]_vars => AnswerInv'
<1> SUFFICES ASSUME ScalarType, ClosedInv, WorkInv, AnswerInv, [Next]_vars PROVE AnswerInv'
    OBVIOUS
<1> USE DEF AnswerInv, sessionVars, halVars
<1>1. ASSUME UNCHANGED <<mClosed, binder, waiting, device, hal, stale, found>> PROVE AnswerInv'
    BY <1>1
<1>2. CASE \E u \in Users : createSession(u)
    BY <1>2 DEF createSession, fingerVars
<1>3. CASE AtOnce \/ revokeChallenge
    BY <1>3 DEF AtOnce, generateChallenge, getAuthenticatorId, invalidateAuthenticatorId,
       detectInteraction, AnswerAtOnce, revokeChallenge
<1>4. CASE enroll \/ authenticate
    BY <1>4 DEF enroll, authenticate, startOperation, ClientCalls, Order, TurnTo
<1>5. CASE LightPanel
    BY <1>5 DEF LightPanel, ClosedInv, fingerVars
<1>6. CASE enumerateEnrollments
    BY <1>6 DEF enumerateEnrollments, ClientCalls, Order, TurnTo
<1>7. CASE removeEnrollments
    BY <1>7 DEF removeEnrollments, ClientCalls, Order, TurnTo
<1>8. CASE \E a \in BOOLEAN : onPointerDown(a)
    BY <1>1, <1>8 DEF onPointerDown, fingerVars
<1>9. CASE onUiReady \/ onPointerUp \/ udfpsWorker
    BY <1>1, <1>9 DEF onUiReady, onPointerUp, udfpsWorker, fingerVars
<1>10. CASE cancel
    BY <1>1, <1>10 DEF cancel, ClientCalls, Order, TurnTo, fingerVars
<1>11. CASE close \/ closeTell
    BY <1>11 DEF close, closeTell
<1>12. CASE notify
  <2>1. PICK m \in HalMessages : TurnTo(m[2], {}) /\ hal' = IF mClosed THEN "idle" ELSE m[1]
      BY <1>12 DEF notify
  <2>2. UNCHANGED <<mClosed, binder, waiting, stale, found>> /\ hal = "idle"
      BY <1>12, <2>1 DEF notify, TurnTo
  <2>3. /\ m[2] = device \/ m[2] = "idle"
        /\ m[2] # device => m[1] = "error" \/ (device = "auth" /\ m[1] = "matched")
                                           \/ (device = "enroll" /\ m[1] = "enrolled")
      BY MessageKinds
  <2> QED BY <2>1, <2>2, <2>3 DEF TurnTo
<1>13. CASE notifyFinger
  <2>1. PICK f \in work :
          /\ device' = IF work = {f} THEN "idle" ELSE device
          /\ found' = IF mClosed THEN NoMessage ELSE [fids |-> {f}, last |-> work = {f}]
      BY <1>13 DEF notifyFinger
  <2>2. /\ UNCHANGED <<mClosed, binder, waiting, stale>> /\ hal = "idle"
        /\ hal' = IF mClosed THEN "idle" ELSE IF device = "remove" THEN "removed" ELSE "enumerated"
        /\ device \in {"enumerate", "remove"}
      BY <1>13 DEF notifyFinger, WorkInv
  <2>3. CASE mClosed
      BY <2>2, <2>3
  <2>4. CASE ~mClosed /\ work = {f}
    <3>1. found'.last
        BY <2>1, <2>4
    <3> QED BY <2>1, <2>2, <2>4, <3>1
  <2>5. CASE ~mClosed /\ work # {f}
      BY <2>1, <2>2, <2>5
  <2> QED BY <2>3, <2>4, <2>5
<1>14. CASE notifyOnly
    BY <1>14 DEF notifyOnly, Ended, Return, ScalarType
<1>15. CASE notifyEnumerated
    BY <1>15 DEF notifyEnumerated, Ended, Return, ScalarType
<1>16. CASE notifyBegin
    BY <1>16 DEF notifyBegin, Ended, Return, fingerVars, ScalarType
<1>18. CASE notifyFingerUp \/ notifyDark \/ notifyLockout
    BY <1>18 DEF notifyFingerUp, notifyDark, notifyLockout, Ended, Return, fingerVars
<1>17. CASE UNCHANGED vars
    BY <1>1, <1>17 DEF vars, fingerVars
<1> QED BY <1>2, <1>3, <1>4, <1>5, <1>6, <1>7, <1>8, <1>9, <1>10, <1>11, <1>12, <1>13, <1>14,
           <1>15, <1>16, <1>17, <1>18 DEF Next, AtOnce

-----------------------------------------------------------------------------
(* The list of fingers *)

AnyFinger == Fingers \cup {Nobody}
MessageType == [fids: SUBSET AnyFinger, last: BOOLEAN]

ListType ==
    /\ owner \in Users /\ templates \in [Users -> SUBSET Fingers]
    /\ work \subseteq templates[owner] \cup {Nobody}
    /\ found \in MessageType /\ enrollments \in Seq(AnyFinger) /\ torn \in BOOLEAN

\* A finger that is listed is in notify, and more are to come, or none.
Pending == hal = "enumerated" /\ ~found.last
Final == hal = "enumerated" /\ found.last

\* A message of an enumeration is about one finger.
FoundInv == hal = "enumerated" => \E f \in AnyFinger : found.fids = {f}

\* There is room in the vector for what is still to be listed; the last finger
\* empties it.
RoomInv ==
    /\ Len(enrollments) <= MaxListed /\ (Pending => Len(enrollments) < MaxListed)
    /\ device = "enumerate"
         => /\ Len(enrollments) + Cardinality(work) <= MaxListed + 1
            /\ Pending => Len(enrollments) + Cardinality(work) <= MaxListed

ListInv == ListType /\ FoundInv /\ RoomInv

\* One finger makes a list of one.
LEMMA SingleSeq == \A f : SetToSeq({f}) = <<f>>
<1> TAKE f
<1>1. Cardinality({f}) = 1
    BY FS_Singleton
<1>2. <<f>> \in [1 .. 1 -> {f}] /\ IsInjective(<<f>>)
    BY DEF IsInjective
<1>3. \A g \in [1 .. 1 -> {f}] : g = <<f>>
    BY <1>2
<1>4. SetToSeq({f}) = CHOOSE g \in [1 .. 1 -> {f}] : IsInjective(g)
    BY <1>1, Zenon DEF SetToSeq
<1>5. (CHOOSE g \in [1 .. 1 -> {f}] : IsInjective(g)) \in [1 .. 1 -> {f}]
    BY <1>2, Zenon
<1> QED BY <1>3, <1>4, <1>5, Zenon

\* Adding one finger to the vector.
LEMMA ListOne ==
    ASSUME ListType, NEW f \in AnyFinger, found.fids = {f}
    PROVE  /\ Listed = Append(enrollments, f) /\ Listed \in Seq(AnyFinger)
           /\ Len(Listed) = Len(enrollments) + 1
<1>1. Listed = enrollments \o <<f>>
    BY SingleSeq, Zenon DEF Listed
<1>2. enrollments \in Seq(AnyFinger)
    BY DEF ListType
<1>3. enrollments \o <<f>> = Append(enrollments, f)
    BY <1>2
<1> QED BY <1>1, <1>2, <1>3

\* There are finitely many fingers, and always one to be listed.
LEMMA EnrolledType ==
    ASSUME ListType, group \in Users
    PROVE  /\ Enrolled(group) \subseteq templates[group] \cup {Nobody} /\ Enrolled(group) # {}
           /\ IsFiniteSet(work) /\ Cardinality(work) \in Nat
           /\ IsFiniteSet(Enrolled(group)) /\ Cardinality(Enrolled(group)) \in Nat
<1>1. Enrolled(group) \subseteq templates[group] \cup {Nobody} /\ Enrolled(group) # {}
    BY DEF Enrolled
<1>2. IsFiniteSet(AnyFinger)
    BY ScreenAssumption, FS_AddElement DEF AnyFinger
<1>3. work \in SUBSET AnyFinger /\ Enrolled(group) \in SUBSET AnyFinger
  <2>1. templates[group] \subseteq Fingers /\ templates[owner] \subseteq Fingers
      BY DEF ListType
  <2> QED BY <1>1, <2>1 DEF ListType, AnyFinger
<1>4. IsFiniteSet(work) /\ IsFiniteSet(Enrolled(group))
    BY <1>2, <1>3, FS_Subset, Zenon
<1> QED BY <1>1, <1>4, FS_CardinalityType

\* The HAL turns to something that is no enumeration.
LEMMA TurnKeepsList ==
    ASSUME ScalarType, ListInv, NEW op, NEW fids \in SUBSET (templates'[owner'] \cup {Nobody}),
           op # "enumerate", TurnTo(op, fids),
           owner' \in Users, templates' \in [Users -> SUBSET Fingers],
           hal' = hal \/ (hal # "enumerated" /\ hal' # "enumerated")
    PROVE  ListInv'
<1>1. device' = op /\ work' = fids /\ UNCHANGED <<found, enrollments>>
    BY DEF TurnTo
<1>2. torn' \in BOOLEAN
    BY Zenon DEF TurnTo
<1>3. ListType'
    BY <1>1, <1>2 DEF ListInv, ListType
<1>4. FoundInv'
    BY <1>1 DEF ListInv, FoundInv
<1>5. RoomInv'
    BY <1>1 DEF ListInv, RoomInv, Pending
<1> QED BY <1>3, <1>4, <1>5 DEF ListInv

\* A call of the session that is no enumeration.
LEMMA OrderKeepsList ==
    ASSUME ScalarType, ListInv, NEW op, NEW fids \in SUBSET templates[group],
           op # "enumerate", Order(op, fids), UNCHANGED hal
    PROVE  ListInv'
<1>1. TurnTo(op, fids) /\ owner' = group /\ UNCHANGED templates
    BY DEF Order
<1>2. owner' \in Users /\ templates' \in [Users -> SUBSET Fingers]
    BY <1>1 DEF ScalarType, ListInv, ListType
<1>3. fids \in SUBSET (templates'[owner'] \cup {Nobody})
    BY <1>1
<1> QED BY <1>1, <1>2, <1>3, TurnKeepsList

\* Every step keeps the list within its bound, and its fingers fingers.
LEMMA ListStep == ScalarType /\ WorkInv /\ ListInv /\ [Next]_vars => ListInv'
<1> SUFFICES ASSUME ScalarType, WorkInv, ListInv, [Next]_vars PROVE ListInv'
    OBVIOUS
<1>1. ASSUME UNCHANGED <<fingerVars, device>>,
             hal' = hal \/ (hal # "enumerated" /\ hal' # "enumerated")
      PROVE  ListInv'
    BY <1>1 DEF ListInv, ListType, FoundInv, RoomInv, Pending, fingerVars
<1>2. CASE AtOnce \/ revokeChallenge \/ LightPanel
    BY <1>1, <1>2 DEF AtOnce, generateChallenge, getAuthenticatorId, invalidateAuthenticatorId,
       detectInteraction, AnswerAtOnce, revokeChallenge, LightPanel, halVars
<1>3. {} \in SUBSET templates[group]
    OBVIOUS
<1>17. ASSUME NEW u \in Users, createSession(u) PROVE ListInv'
  <2>1. /\ UNCHANGED <<owner, templates, found, enrollments, hal>>
        /\ UNCHANGED <<device, work>> \/ (device' = "idle" /\ work' = {})
      BY <1>17 DEF createSession
  <2>2. torn' \in BOOLEAN
      BY <1>17, Zenon DEF createSession
  <2>3. ListType' /\ FoundInv'
      BY <2>1, <2>2 DEF ListInv, ListType, FoundInv
  <2>4. RoomInv'
      BY <2>1 DEF ListInv, RoomInv, Pending
  <2> QED BY <2>3, <2>4 DEF ListInv
<1>4. ASSUME NEW op \in {"auth", "enroll"}, startOperation(op) PROVE ListInv'
  <2>1. UNCHANGED hal
      BY <1>4 DEF startOperation, halVars
  <2>2. CASE Order(op, {})
      BY <1>3, <2>1, <2>2, OrderKeepsList
  <2>3. CASE UNCHANGED <<device, fingerVars>>
      BY <1>1, <2>1, <2>3
  <2> QED BY <1>4, <2>2, <2>3 DEF startOperation
<1>5. CASE enroll \/ authenticate
    BY <1>4, <1>5 DEF enroll, authenticate
<1>6. CASE enumerateEnrollments
  <2>1. /\ UNCHANGED hal /\ group \in Users
        /\ Len(enrollments) + Cardinality(Enrolled(group)) <= MaxListed
      BY <1>6 DEF enumerateEnrollments, halVars, ScalarType
  <2>2. CASE Order("enumerate", Enrolled(group))
    <3>1. /\ work' = Enrolled(group) /\ owner' = group
          /\ UNCHANGED <<templates, found, enrollments>>
        BY <2>2 DEF Order, TurnTo
    <3>2. torn' \in BOOLEAN
        BY <2>2, Zenon DEF Order, TurnTo
    <3>3. ListType'
        BY <2>1, <3>1, <3>2, EnrolledType DEF ListInv, ListType
    <3>4. FoundInv'
        BY <2>1, <3>1 DEF ListInv, FoundInv
    <3>5. Cardinality(Enrolled(group)) \in Nat /\ Len(enrollments) \in Nat
        BY <2>1, EnrolledType DEF ListInv, ListType
    <3>6. RoomInv'
        BY <2>1, <3>1, <3>5, ScreenAssumption DEF ListInv, RoomInv, Pending
    <3> QED BY <3>3, <3>4, <3>6 DEF ListInv
  <2>3. CASE UNCHANGED <<device, fingerVars>>
      BY <1>1, <2>1, <2>3
  <2> QED BY <1>6, <2>2, <2>3 DEF enumerateEnrollments
<1>7. CASE removeEnrollments
  <2>1. UNCHANGED hal
      BY <1>7 DEF removeEnrollments, halVars
  <2>2. ASSUME NEW fids \in SUBSET templates[group], Order("remove", fids)
        PROVE  ListInv'
      BY <2>1, <2>2, OrderKeepsList
  <2>3. CASE UNCHANGED <<device, fingerVars>>
      BY <1>1, <2>1, <2>3
  <2> QED BY <1>7, <2>2, <2>3 DEF removeEnrollments
<1>8. CASE \E a \in BOOLEAN : onPointerDown(a)
    BY <1>1, <1>8 DEF onPointerDown, halVars
<1>9. CASE onUiReady \/ onPointerUp \/ udfpsWorker \/ close \/ closeTell
    BY <1>1, <1>9 DEF onUiReady, onPointerUp, udfpsWorker, close, closeTell, halVars
<1>10. CASE cancel
  <2>1. UNCHANGED hal
      BY <1>10 DEF cancel, halVars
  <2>2. CASE Order("idle", {})
      BY <1>3, <2>1, <2>2, OrderKeepsList
  <2>3. CASE UNCHANGED <<device, fingerVars>>
      BY <1>1, <2>1, <2>3
  <2> QED BY <1>10, <2>2, <2>3 DEF cancel
<1>11. CASE notify
  <2>1. PICK m \in HalMessages :
          /\ TurnTo(m[2], {}) /\ hal' = IF mClosed THEN "idle" ELSE m[1]
          /\ \/ \E f \in Fingers : templates' = [templates EXCEPT ![owner] = @ \cup {f}]
             \/ UNCHANGED templates
      BY <1>11 DEF notify
  <2>2. hal = "idle" /\ hal' # "enumerated" /\ m[2] # "enumerate"
      BY <1>11, <2>1, MessageKinds DEF notify
  <2>3. owner' \in Users /\ templates' \in [Users -> SUBSET Fingers]
      BY <1>11, <2>1 DEF notify, ListInv, ListType
  <2>4. {} \in SUBSET (templates'[owner'] \cup {Nobody})
      OBVIOUS
  <2> QED BY <2>1, <2>2, <2>3, <2>4, TurnKeepsList
<1>12. CASE notifyFinger
  <2>1. PICK f \in work :
          /\ work' = work \ {f} /\ device' = IF work = {f} THEN "idle" ELSE device
          /\ templates' = IF device = "remove" THEN [templates EXCEPT ![owner] = @ \ {f}]
                                                ELSE templates
          /\ found' = IF mClosed THEN NoMessage ELSE [fids |-> {f}, last |-> work = {f}]
      BY <1>12 DEF notifyFinger
  <2>2. /\ hal = "idle" /\ UNCHANGED <<owner, enrollments>>
        /\ hal' = IF mClosed THEN "idle" ELSE IF device = "remove" THEN "removed" ELSE "enumerated"
        /\ device \in {"enumerate", "remove"}
      BY <1>12 DEF notifyFinger, WorkInv
  <2>3. torn' \in BOOLEAN
      BY <1>12, Zenon DEF notifyFinger
  <2>4. f \in AnyFinger
    <3>1. templates[owner] \subseteq Fingers
        BY DEF ListInv, ListType
    <3> QED BY <2>1, <3>1 DEF ListInv, ListType, AnyFinger
  <2>5. found' \in MessageType /\ (~mClosed => found'.fids = {f} /\ (found'.last <=> work = {f}))
    <3>1. NoMessage \in MessageType
        BY DEF NoMessage, MessageType
    <3>2. (work = {f}) \in BOOLEAN /\ {f} \in SUBSET AnyFinger
        BY <2>4
    <3>3. \A b \in BOOLEAN : [fids |-> {f}, last |-> b] \in MessageType
        BY <2>4 DEF MessageType
    <3>4. [fids |-> {f}, last |-> work = {f}] \in MessageType
        BY <3>2, <3>3, Zenon
    <3> QED BY <2>1, <3>1, <3>4
  <2>6. ListType'
    <3>1. templates' \in [Users -> SUBSET Fingers] /\ owner \in Users
        BY <2>1 DEF ListInv, ListType
    <3>2. work' \subseteq templates'[owner] \cup {Nobody}
      <4>1. work \subseteq templates[owner] \cup {Nobody} /\ owner \in DOMAIN templates
          BY DEF ListInv, ListType
      <4> QED BY <2>1, <4>1
    <3> QED BY <2>2, <2>3, <2>5, <3>1, <3>2 DEF ListInv, ListType
  <2>7. FoundInv'
      BY <2>2, <2>4, <2>5 DEF FoundInv
  <2>8. Cardinality(work') = Cardinality(work) - 1 /\ Cardinality(work) \in Nat
      BY <2>1, EnrolledType, FS_RemoveElement DEF ListInv, ScalarType
  <2>9. Len(enrollments) \in Nat
      BY DEF ListInv, ListType
  <2>10. RoomInv'
    <3>1. Len(enrollments) <= MaxListed
        BY DEF ListInv, RoomInv
    <3>2. CASE device = "enumerate"
      <4>1. Len(enrollments) + Cardinality(work) <= MaxListed + 1
          BY <3>2 DEF ListInv, RoomInv
      <4>2. CASE work = {f}
          BY <2>1, <2>2, <2>5, <3>1, <4>2 DEF RoomInv, Pending
      <4>3. CASE work # {f}
        <5>1. work' # {}
            BY <2>1, <4>3
        <5>2. Cardinality(work') # 0 /\ Cardinality(work') \in Nat
          <6>1. IsFiniteSet(work')
              BY <2>1, EnrolledType, FS_RemoveElement DEF ListInv, ScalarType
          <6> QED BY <5>1, <6>1, FS_EmptySet, FS_CardinalityType
        <5> QED BY <2>1, <2>2, <2>8, <2>9, <3>1, <4>1, <5>2, ScreenAssumption DEF RoomInv, Pending
      <4> QED BY <4>2, <4>3
    <3>3. CASE device = "remove"
        BY <2>1, <2>2, <3>1, <3>3 DEF RoomInv, Pending
    <3> QED BY <2>2, <3>2, <3>3
  <2> QED BY <2>6, <2>7, <2>10 DEF ListInv
<1>13. CASE notifyOnly
  <2>1. /\ UNCHANGED <<owner, templates, work, enrollments, torn, device>> /\ found' = NoMessage
        /\ hal # "enumerated" /\ hal' = "idle"
      BY <1>13 DEF notifyOnly, Return
  <2>2. NoMessage \in MessageType
      BY DEF NoMessage, MessageType
  <2> QED BY <2>1, <2>2 DEF ListInv, ListType, FoundInv, RoomInv, Pending
<1>14. CASE notifyEnumerated
  <2>1. /\ hal = "enumerated" /\ enrollments' = IF found.last THEN <<>> ELSE Listed
        /\ torn' = IF found.last THEN ForAnother ELSE torn
        /\ found' = NoMessage /\ hal' = "idle" /\ UNCHANGED <<owner, templates, work, device>>
      BY <1>14 DEF notifyEnumerated, Return
  <2>2. PICK f \in AnyFinger : found.fids = {f}
      BY <2>1 DEF ListInv, FoundInv
  <2>3. Listed \in Seq(AnyFinger) /\ Len(Listed) = Len(enrollments) + 1
      BY <2>2, ListOne DEF ListInv
  <2>4. NoMessage \in MessageType
      BY DEF NoMessage, MessageType
  <2>5. torn' \in BOOLEAN
      BY <2>1, Zenon DEF ListInv, ListType, ForAnother
  <2>6. enrollments' \in Seq(AnyFinger)
      BY <2>1, <2>3
  <2>7. ListType' /\ FoundInv'
      BY <2>1, <2>4, <2>5, <2>6 DEF ListInv, ListType, FoundInv
  <2>8. Len(enrollments) \in Nat /\ Cardinality(work) \in Nat
      BY EnrolledType DEF ListInv, ListType, ScalarType
  <2>9. CASE found.last
    <3>1. Len(enrollments') = 0
        BY <2>1, <2>9
    <3> QED BY <2>1, <2>7, <2>8, <3>1, ScreenAssumption DEF ListInv, RoomInv, Pending
  <2>10. CASE ~found.last
    <3>1. Len(enrollments') = Len(enrollments) + 1 /\ Pending
        BY <2>1, <2>3, <2>10 DEF Pending
    <3>2. ~Pending'
        BY <2>1 DEF Pending
    <3> QED BY <2>1, <2>7, <2>8, <3>1, <3>2, ScreenAssumption DEF ListInv, RoomInv
  <2> QED BY <2>9, <2>10
<1>15. CASE notifyBegin \/ notifyFingerUp \/ notifyDark \/ notifyLockout
    BY <1>1, <1>15 DEF notifyBegin, notifyFingerUp, notifyDark, notifyLockout, Return
<1>16. CASE UNCHANGED vars
    BY <1>1, <1>16 DEF vars, halVars
<1> QED BY <1>2, <1>5, <1>6, <1>7, <1>8, <1>9, <1>10, <1>11, <1>12, <1>13, <1>14, <1>15,
           <1>16, <1>17
        DEF Next, AtOnce

-----------------------------------------------------------------------------
(* The list is exact *)

\* The list, and the fingers that are still to come, are the enrolled ones,
\* each once.
Spread(list, rest) ==
    IsInjective(list) /\ Range(list) \cap rest = {} /\ Range(list) \cup rest = Enrolled(group)

\* Unless part of an enumeration was lost or the user changed in the middle of
\* it, the vector, the message in notify and what is still to be reported make
\* up the fingers of the session's user; between enumerations the vector is
\* empty.  A new enumeration that starts before the
\* last finger of the one before is in notify has everything to report.
ExactInv ==
    /\ Final /\ device = "enumerate" => work = Enrolled(owner)
    /\ ~torn
         => /\ device = "enumerate" => owner = group
            /\ Final => Spread(enrollments, found.fids)
            /\ Pending => /\ device = "enumerate" /\ found.fids \cap work = {}
                          /\ Spread(enrollments, found.fids \cup work)
            /\ hal # "enumerated" /\ device = "enumerate" => Spread(enrollments, work)
            /\ hal # "enumerated" /\ device # "enumerate" => enrollments = <<>>

\* The empty vector, with every finger still to come.
LEMMA SpreadEmpty == Spread(<<>>, Enrolled(group))
<1>1. IsInjective(<<>>)
    BY DEF IsInjective
<1>2. Range(<<>>) = {}
    BY DEF Range
<1> QED BY <1>1, <1>2 DEF Spread

\* The fingers of a list to which one is added.
LEMMA AppendFinger ==
    ASSUME NEW S, NEW list \in Seq(S), NEW f \in S, f \notin Range(list), IsInjective(list)
    PROVE  IsInjective(Append(list, f)) /\ Range(Append(list, f)) = Range(list) \cup {f}
<1> DEFINE n == Len(list)
           new == Append(list, f)
<1>1. /\ n \in Nat /\ DOMAIN list = 1 .. n /\ DOMAIN new = 1 .. n + 1
      /\ \A k \in 1 .. n : new[k] = list[k] /\ list[k] \in S
      /\ new[n + 1] = f
    OBVIOUS
<1> HIDE DEF new, n
<1>2. \A k \in 1 .. n : list[k] \in Range(list) /\ list[k] # f
    BY <1>1 DEF Range
<1>3. \A k \in 1 .. n + 1 : k \in 1 .. n \/ k = n + 1
    BY <1>1
<1>4. IsInjective(new)
    BY <1>1, <1>2, <1>3 DEF IsInjective
<1>5. Range(new) \subseteq Range(list) \cup {f}
    BY <1>1, <1>2, <1>3 DEF Range
<1>6. Range(list) \subseteq Range(new)
  <2>1. \A k \in 1 .. n : k \in 1 .. n + 1
      BY <1>1
  <2> QED BY <1>1, <2>1 DEF Range
<1>7. f \in Range(new)
  <2>1. n + 1 \in 1 .. n + 1
      BY <1>1
  <2> QED BY <1>1, <2>1 DEF Range
<1>8. IsInjective(new) /\ Range(new) = Range(list) \cup {f}
    BY <1>4, <1>5, <1>6, <1>7
<1> QED BY <1>8 DEF new

\* The finger of the message goes from what is to come into the list.
LEMMA SpreadAppend ==
    ASSUME NEW S, NEW list \in Seq(S), NEW f \in S, NEW rest, f \notin rest,
           Spread(list, {f} \cup rest)
    PROVE  Spread(Append(list, f), rest)
<1>1. /\ IsInjective(list) /\ Range(list) \cap ({f} \cup rest) = {}
      /\ Range(list) \cup ({f} \cup rest) = Enrolled(group)
    BY DEF Spread
<1>2. f \notin Range(list)
    BY <1>1
<1>3. IsInjective(Append(list, f)) /\ Range(Append(list, f)) = Range(list) \cup {f}
    BY <1>1, <1>2, AppendFinger
<1>4. Range(Append(list, f)) \cap rest = {} /\ Range(Append(list, f)) \cup rest = Enrolled(group)
    BY <1>1, <1>3
<1> QED BY <1>3, <1>4 DEF Spread

\* The HAL turns to something that is no enumeration.
LEMMA TurnKeepsExact ==
    ASSUME ExactInv, ListInv, NEW op, NEW fids, op # "enumerate", TurnTo(op, fids),
           UNCHANGED group,
           \/ UNCHANGED <<templates, hal>>
           \/ hal # "enumerated" /\ hal' # "enumerated"
    PROVE  ExactInv'
<1>1. device' = op /\ UNCHANGED <<found, enrollments>> /\ (~torn' => ~torn /\ device # "enumerate")
    BY DEF TurnTo
<1>2. ASSUME ~torn', hal # "enumerated", hal' # "enumerated" PROVE enrollments' = <<>>
    BY <1>1, <1>2 DEF ExactInv
<1>3. CASE hal # "enumerated" /\ hal' # "enumerated"
    BY <1>1, <1>2, <1>3 DEF ExactInv, Final, Pending
<1>4. CASE UNCHANGED <<templates, hal>> /\ hal = "enumerated"
  <2>1. Enrolled(group)' = Enrolled(group)
      BY <1>4 DEF Enrolled
  <2>2. ~torn' => ~Pending
      BY <1>1, <1>4 DEF ExactInv
  <2> QED BY <1>1, <1>4, <2>1, <2>2 DEF ExactInv, Final, Pending, Spread
<1> QED BY <1>3, <1>4

\* Every step keeps the list exact.
LEMMA ExactStep == ScalarType /\ WorkInv /\ ListInv /\ ExactInv /\ [Next]_vars => ExactInv'
<1> SUFFICES ASSUME ScalarType, WorkInv, ListInv, ExactInv, [Next]_vars PROVE ExactInv'
    OBVIOUS
<1>1. ASSUME UNCHANGED <<fingerVars, device, group>>,
             hal' = hal \/ (hal # "enumerated" /\ hal' # "enumerated")
      PROVE  ExactInv'
  <2>1. Enrolled(group)' = Enrolled(group) /\ Enrolled(owner)' = Enrolled(owner)
      BY <1>1 DEF Enrolled, fingerVars
  <2> QED BY <1>1, <2>1 DEF ExactInv, Final, Pending, Spread, fingerVars
<1>2. CASE AtOnce \/ revokeChallenge \/ LightPanel
    BY <1>1, <1>2 DEF AtOnce, generateChallenge, getAuthenticatorId, invalidateAuthenticatorId,
       detectInteraction, AnswerAtOnce, revokeChallenge, LightPanel, halVars, sessionVars
<1>16. ASSUME NEW u \in Users, createSession(u) PROVE ExactInv'
  <2>1. /\ UNCHANGED <<owner, templates, found, enrollments, hal>> /\ group' = u
        /\ UNCHANGED <<device, work>> \/ (device' = "idle" /\ work' = {})
        /\ ~torn' => /\ ~torn /\ ~(device = "enumerate" /\ device' = "idle")
                     /\ ~(Enumerating /\ u # group)
      BY <1>16 DEF createSession
  <2>2. Enrolled(owner)' = Enrolled(owner) /\ (u = group => Enrolled(group)' = Enrolled(group))
      BY <2>1 DEF Enrolled
  <2>3. CASE u = group
      BY <2>1, <2>2, <2>3 DEF ExactInv, Final, Pending, Spread
  <2>4. CASE u # group
    <3>1. ~torn' => ~torn /\ hal # "enumerated" /\ device # "enumerate" /\ device' # "enumerate"
        BY <2>1, <2>4 DEF Enumerating
    <3> QED BY <2>1, <2>2, <3>1 DEF ExactInv, Final, Pending
  <2> QED BY <2>3, <2>4
<1>3. ASSUME NEW op \in {"auth", "enroll"}, startOperation(op) PROVE ExactInv'
  <2>1. UNCHANGED <<hal, group>>
      BY <1>3 DEF startOperation, halVars, sessionVars
  <2>2. CASE Order(op, {})
      BY <2>1, <2>2, TurnKeepsExact DEF Order
  <2>3. CASE UNCHANGED <<device, fingerVars>>
      BY <1>1, <2>1, <2>3
  <2> QED BY <1>3, <2>2, <2>3 DEF startOperation
<1>4. CASE enroll \/ authenticate
    BY <1>3, <1>4 DEF enroll, authenticate
<1>5. CASE enumerateEnrollments
  <2>1. UNCHANGED <<hal, group>>
      BY <1>5 DEF enumerateEnrollments, halVars, sessionVars
  <2>2. CASE Order("enumerate", Enrolled(group))
    <3>1. /\ device' = "enumerate" /\ work' = Enrolled(group) /\ owner' = group
          /\ UNCHANGED <<templates, found, enrollments>>
          /\ ~torn' => ~torn /\ device # "enumerate"
        BY <2>2 DEF Order, TurnTo
    <3>2. Enrolled(group)' = Enrolled(group) /\ Enrolled(owner)' = Enrolled(group)
        BY <2>1, <3>1 DEF Enrolled
    <3>3. ~torn' => ~Pending
        BY <3>1 DEF ExactInv
    <3>4. ~torn' /\ hal # "enumerated" => Spread(enrollments, Enrolled(group))
        BY <3>1, SpreadEmpty DEF ExactInv
    <3> QED BY <2>1, <3>1, <3>2, <3>3, <3>4 DEF ExactInv, Final, Pending, Spread
  <2>3. CASE UNCHANGED <<device, fingerVars>>
      BY <1>1, <2>1, <2>3
  <2> QED BY <1>5, <2>2, <2>3 DEF enumerateEnrollments
<1>6. CASE removeEnrollments
  <2>1. UNCHANGED <<hal, group>>
      BY <1>6 DEF removeEnrollments, halVars, sessionVars
  <2>2. ASSUME NEW fids, Order("remove", fids) PROVE ExactInv'
      BY <2>1, <2>2, TurnKeepsExact DEF Order
  <2>3. CASE UNCHANGED <<device, fingerVars>>
      BY <1>1, <2>1, <2>3
  <2> QED BY <1>6, <2>2, <2>3 DEF removeEnrollments
<1>7. CASE \E a \in BOOLEAN : onPointerDown(a)
    BY <1>1, <1>7 DEF onPointerDown, halVars
<1>8. CASE onUiReady \/ onPointerUp \/ udfpsWorker \/ close \/ closeTell
    BY <1>1, <1>8 DEF onUiReady, onPointerUp, udfpsWorker, close, closeTell, halVars, sessionVars
<1>9. CASE cancel
  <2>1. UNCHANGED <<hal, group>>
      BY <1>9 DEF cancel, halVars, sessionVars
  <2>2. CASE Order("idle", {})
      BY <2>1, <2>2, TurnKeepsExact DEF Order
  <2>3. CASE UNCHANGED <<device, fingerVars>>
      BY <1>1, <2>1, <2>3
  <2> QED BY <1>9, <2>2, <2>3 DEF cancel
<1>10. CASE notify
  <2>1. PICK m \in HalMessages : TurnTo(m[2], {}) /\ hal' = IF mClosed THEN "idle" ELSE m[1]
      BY <1>10 DEF notify
  <2>2. hal # "enumerated" /\ hal' # "enumerated" /\ m[2] # "enumerate" /\ UNCHANGED group
      BY <1>10, <2>1, MessageKinds DEF notify, sessionVars
  <2> QED BY <2>1, <2>2, TurnKeepsExact
<1>11. CASE notifyFinger
  <2>1. PICK f \in work :
          /\ work' = work \ {f} /\ device' = IF work = {f} THEN "idle" ELSE device
          /\ templates' = IF device = "remove" THEN [templates EXCEPT ![owner] = @ \ {f}]
                                                ELSE templates
          /\ found' = IF mClosed THEN NoMessage ELSE [fids |-> {f}, last |-> work = {f}]
      BY <1>11 DEF notifyFinger
  <2>2. /\ hal = "idle" /\ UNCHANGED <<owner, group, enrollments>>
        /\ hal' = IF mClosed THEN "idle" ELSE IF device = "remove" THEN "removed" ELSE "enumerated"
        /\ device \in {"enumerate", "remove"}
        /\ ~torn' => ~torn /\ ~(mClosed /\ device = "enumerate")
      BY <1>11 DEF notifyFinger, WorkInv, sessionVars
  <2>3. CASE device = "remove"
    <3>1. hal' # "enumerated" /\ device' # "enumerate"
        BY <2>1, <2>2, <2>3
    <3>2. ~torn' => enrollments' = <<>>
        BY <2>2, <2>3 DEF ExactInv
    <3> QED BY <3>1, <3>2 DEF ExactInv, Final, Pending
  <2>4. CASE device = "enumerate" /\ mClosed
      BY <2>2, <2>4 DEF ExactInv, Final
  <2>5. CASE device = "enumerate" /\ ~mClosed
    <3>1. found'.fids = {f} /\ (found'.last <=> work = {f}) /\ hal' = "enumerated"
        BY <2>1, <2>2, <2>5
    <3>2. Enrolled(group)' = Enrolled(group) /\ (~torn' => owner' = group')
        BY <2>1, <2>2, <2>5 DEF Enrolled, ExactInv
    <3>3. ~torn' => Spread(enrollments, work)
        BY <2>2, <2>5 DEF ExactInv
    <3>4. CASE work = {f}
      <4>1. device' = "idle" /\ found'.last
          BY <2>1, <3>1, <3>4
      <4> QED BY <2>2, <3>1, <3>2, <3>3, <3>4, <4>1 DEF ExactInv, Final, Pending, Spread
    <3>5. CASE work # {f}
      <4>1. device' = "enumerate" /\ ~found'.last
          BY <2>1, <2>5, <3>1, <3>5
      <4>2. found'.fids \cap work' = {} /\ found'.fids \cup work' = work
          BY <2>1, <3>1
      <4> QED BY <2>2, <3>1, <3>2, <3>3, <4>1, <4>2 DEF ExactInv, Final, Pending, Spread
    <3> QED BY <3>4, <3>5
  <2> QED BY <2>2, <2>3, <2>4, <2>5
<1>12. CASE notifyOnly
  <2>1. /\ UNCHANGED <<owner, group, templates, work, enrollments, torn, device>>
        /\ hal # "enumerated" /\ hal' = "idle"
      BY <1>12 DEF notifyOnly, Return, sessionVars
  <2>2. Enrolled(group)' = Enrolled(group)
      BY <2>1 DEF Enrolled
  <2> QED BY <2>1, <2>2 DEF ExactInv, Final, Pending, Spread
<1>13. CASE notifyEnumerated
  <2>1. /\ hal = "enumerated" /\ enrollments' = IF found.last THEN <<>> ELSE Listed
        /\ torn' = IF found.last THEN ForAnother ELSE torn
        /\ hal' = "idle" /\ UNCHANGED <<owner, group, templates, work, device>>
      BY <1>13 DEF notifyEnumerated, Return, sessionVars
  <2>2. Enrolled(group)' = Enrolled(group)
      BY <2>1 DEF Enrolled
  <2>3. CASE found.last
    <3>1. ~torn' /\ device = "enumerate" => owner = group /\ work = Enrolled(group)
        BY <2>1, <2>3 DEF ExactInv, Final, ForAnother
    <3>2. enrollments' = <<>>
        BY <2>1, <2>3
    <3> QED BY <2>1, <2>2, <3>1, <3>2, SpreadEmpty DEF ExactInv, Final, Pending, Spread
  <2>4. CASE ~found.last
    <3>1. PICK f \in AnyFinger : found.fids = {f}
        BY <2>1 DEF ListInv, FoundInv
    <3>2. enrollments' = Append(enrollments, f) /\ enrollments \in Seq(AnyFinger)
        BY <2>1, <2>4, <3>1, ListOne DEF ListInv, ListType
    <3>3. ASSUME ~torn' PROVE device = "enumerate" /\ Spread(enrollments', work)
      <4>1. ~torn /\ Pending
          BY <2>1, <2>4, <3>3 DEF Pending
      <4>2. device = "enumerate" /\ f \notin work /\ Spread(enrollments, {f} \cup work)
          BY <3>1, <4>1 DEF ExactInv
      <4> QED BY <3>2, <4>2, SpreadAppend
    <3>4. ~torn' => ~torn
        BY <2>1, <2>4
    <3> QED BY <2>1, <2>2, <3>3, <3>4 DEF ExactInv, Final, Pending, Spread
  <2> QED BY <2>3, <2>4
<1>14. CASE notifyBegin \/ notifyFingerUp \/ notifyDark \/ notifyLockout
    BY <1>1, <1>14 DEF notifyBegin, notifyFingerUp, notifyDark, notifyLockout, Return, sessionVars
<1>15. CASE UNCHANGED vars
    BY <1>1, <1>15 DEF vars, halVars, sessionVars
<1> QED BY <1>2, <1>4, <1>5, <1>6, <1>7, <1>8, <1>9, <1>10, <1>11, <1>12, <1>13, <1>14, <1>15, <1>16
        DEF Next, AtOnce

-----------------------------------------------------------------------------
(* The theorems *)

\* The parts of the inductive invariant together.
SessionInv ==
    /\ ScalarType /\ ClosedInv /\ WorkInv /\ PanelInv /\ AnswerInv /\ ListInv /\ ExactInv

\* Before the first session.
LEMMA InitInv == Init => SessionInv
<1> SUFFICES ASSUME Init PROVE SessionInv
    OBVIOUS
<1>1. ScalarType
  <2>1. /\ mClosed \in BOOLEAN /\ mIsAod \in BOOLEAN /\ told \in BOOLEAN /\ hbm \in BOOLEAN
        /\ stale \in BOOLEAN
      BY Zenon DEF Init, Touch!TouchInit
  <2> QED BY <2>1, ScreenAssumption
      DEF Init, ScalarType, Touch!TouchInit, Touch!Touches, Devices, Excuses, Waits, Places
<1>2. ClosedInv /\ PanelInv /\ WorkInv /\ AnswerInv
    BY DEF Init, ClosedInv, ClosedIsDark, Touch!TouchInit, PanelInv, Operating, WorkInv, AnswerInv
<1>3. ListInv
  <2>1. NoMessage \in MessageType
      BY DEF NoMessage, MessageType
  <2>2. torn \in BOOLEAN
      BY Zenon DEF Init
  <2>3. enrollments \in Seq(AnyFinger) /\ Len(enrollments) = 0
      BY DEF Init
  <2> QED BY <2>1, <2>2, <2>3, ScreenAssumption
      DEF Init, ListInv, ListType, FoundInv, RoomInv, Pending
<1>4. ExactInv
    BY DEF Init, ExactInv, Final, Pending
<1> QED BY <1>1, <1>2, <1>3, <1>4 DEF SessionInv

\* All parts hold in every state.
LEMMA SessionSafe == Spec => []SessionInv
<1>1. SessionInv /\ [Next]_vars => SessionInv'
    BY ScalarStep, ClosedStep, WorkStep, PanelStep, AnswerStep, ListStep, ExactStep, Zenon
    DEF SessionInv
<1> QED BY InitInv, <1>1, PTL DEF Spec

\* However calls, notifications and the handler's worker interleave, a closed
\* session has a dark panel and a sensor that knows that the finger is up.
THEOREM ScreenSafe == Spec => []ScreenInv
<1>1. SessionInv => ScreenInv
  <2> SUFFICES ASSUME SessionInv PROVE ScreenInv
      OBVIOUS
  <2>1. ScalarType /\ ListType /\ Len(enrollments) <= MaxListed /\ ClosedIsDark
      BY DEF SessionInv, ListInv, RoomInv, ClosedInv
  <2>2. TypeOK
      BY <2>1 DEF TypeOK, ScalarType, ListType, MessageType, AnyFinger, Devices, Excuses, Waits,
         Places
  <2> QED BY <2>1, <2>2 DEF ScreenInv
<1> QED BY SessionSafe, <1>1, PTL

\* With both threads at rest the panel is lit exactly during an operation that
\* needs it, but for the excuses that the code gives: among them a notification
\* that is still running in a session that was replaced.
THEOREM PanelSafe == Spec => []PanelFollowsOperation
<1>1. SessionInv => PanelFollowsOperation
  <2> SUFFICES ASSUME SessionInv, binder = "idle", hal = "idle", excuse = "none"
               PROVE  hbm = Operating
      BY DEF PanelFollowsOperation
  <2>1. hbm <=> Operating
      BY DEF SessionInv, PanelInv
  <2>2. hbm \in BOOLEAN
      BY DEF SessionInv, ScalarType
  <2> QED BY <2>1, <2>2 DEF Operating
<1> QED BY SessionSafe, <1>1, PTL

\* The framework never waits for an answer that nobody is going to give, but
\* for an enumeration or a removal that the HAL refused.
THEOREM AnswersSafe == Spec => []Answered
<1>1. SessionInv => Answered
    BY DEF SessionInv, AnswerInv, Answered
<1> QED BY SessionSafe, <1>1, PTL

\* The framework gets every finger of the session's user exactly once, whatever
\* the vector held before, unless part of an enumeration was lost or a session
\* for another user was created in the middle of it.
THEOREM EnumerationSafe == Spec => []EnumerationExact
<1>1. SessionInv => EnumerationExact
  <2> SUFFICES ASSUME SessionInv, hal = "enumerated", found.last, ~torn
               PROVE  IsInjective(Listed) /\ Range(Listed) = Enrolled(group)
      BY DEF EnumerationExact
  <2>1. PICK f \in AnyFinger : found.fids = {f}
      BY DEF SessionInv, ListInv, FoundInv
  <2>2. Listed = Append(enrollments, f) /\ enrollments \in Seq(AnyFinger)
      BY <2>1, ListOne DEF SessionInv, ListInv, ListType
  <2>3. Spread(enrollments, {f} \cup {})
      BY <2>1 DEF SessionInv, ExactInv, Final
  <2>4. Spread(Append(enrollments, f), {})
    <3>1. f \notin {}
        OBVIOUS
    <3> QED BY <2>2, <2>3, <3>1, SpreadAppend, Zenon
  <2> QED BY <2>2, <2>4 DEF Spread
<1> QED BY SessionSafe, <1>1, PTL

=============================================================================
