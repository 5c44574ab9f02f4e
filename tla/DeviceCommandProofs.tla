------------------------- MODULE DeviceCommandProofs -------------------------
(***************************************************************************)
(* Theorems about DeviceCommand, for any number of calls and relays and    *)
(* any number of faults.                                                   *)
(***************************************************************************)
EXTENDS DeviceCommand, TLAPS

(***************************************************************************)
(* The inductive invariant.  Progress relates the program counter of a     *)
(* call to its row, its outcome and the relay.                             *)
(***************************************************************************)
BeforeRow == {"idle", "admitted", "refused"}
BeforePublish == BeforeRow \cup {"loading", "simulating"}
Acknowledged == {"acked", "announcing", "done"}

Progress ==
  \A c \in Command :
    /\ pc[c] \in BeforeRow => rows[c] = "none"
    /\ pc[c] \in {"loading", "simulating", "powered"} \cup Waiting =>
         rows[c] \in {"pending", "sent"}
    /\ pc[c] \in Acknowledged => rows[c] = "acked"
    /\ pc[c] \in Acknowledged \cup {"powered"} => outcome[c] = "ok"
    /\ pc[c] \in BeforePublish =>
         outcome[c] = "none" /\ c \notin published /\ c \notin executed
    /\ c \in published \cup executed => rows[c] # "none"

AcksGenuine == \A m \in acks : m.kind = "ok" => m.command \in executed

OkWasExecuted ==
  \A c \in Command : outcome[c] = "ok" \/ rows[c] = "acked" => c \in executed

IInv == TypeOK /\ PendingExact /\ Progress /\ AcksGenuine /\ OkWasExecuted

LEMMA TypeInit == Init => TypeOK
  BY ConstantsAssumption DEF Init, TypeOK, Input, Live, Waiting, Ended, Final

LEMMA TypeStep == TypeOK /\ [Next]_vars => TypeOK'
<1> SUFFICES ASSUME TypeOK, [Next]_vars PROVE TypeOK'
  OBVIOUS
<1> USE ConstantsAssumption DEF TypeOK, Input, Ack, Live, Waiting, Ended,
        Final, OnDevice, LiveOn, Goto, dbVars, deviceVars, busVars
<1>1. ASSUME NEW c \in Command, ReadDevice(c) PROVE TypeOK'
  BY <1>1 DEF ReadDevice
<1>2. ASSUME NEW c \in Command, InsertRow(c) PROVE TypeOK'
  BY <1>2 DEF InsertRow
<1>3. ASSUME NEW c \in Command, NoRoute(c) PROVE TypeOK'
  BY <1>3 DEF NoRoute
<1>4. ASSUME NEW c \in Command, PublishCommand(c) PROVE TypeOK'
  BY <1>4 DEF PublishCommand
<1>5. ASSUME NEW c \in Command, MarkSent(c) PROVE TypeOK'
  BY <1>5 DEF MarkSent
<1>6. ASSUME NEW c \in Command, SimulatorAnswers(c) PROVE TypeOK'
  BY <1>6 DEF SimulatorAnswers
<1>7. ASSUME NEW c \in Command, SimulatorTooLate(c) PROVE TypeOK'
  BY <1>7 DEF SimulatorTooLate
<1>8. ASSUME NEW c \in Command, FinishTimeout(c) PROVE TypeOK'
  BY <1>8 DEF FinishTimeout
<1>9. ASSUME NEW c \in Command, FinishError(c) PROVE TypeOK'
  BY <1>9 DEF FinishError
<1>10. ASSUME NEW c \in Command, SetPower(c) PROVE TypeOK'
  BY <1>10 DEF SetPower
<1>11. ASSUME NEW c \in Command, MarkAcked(c) PROVE TypeOK'
  BY <1>11 DEF MarkAcked
<1>12. ASSUME NEW c \in Command, RereadDevice(c) PROVE TypeOK'
  BY <1>12 DEF RereadDevice
<1>13. ASSUME NEW c \in Command, Announce(c) PROVE TypeOK'
  BY <1>13 DEF Announce
<1>14. ASSUME NEW c \in Command, PubAck(c) PROVE TypeOK'
  BY <1>14 DEF PubAck
<1>15. ASSUME NEW c \in Command, PublishFailed(c) PROVE TypeOK'
  BY <1>15 DEF PublishFailed
<1>16. ASSUME NEW c \in Command, AckTimer(c) PROVE TypeOK'
  BY <1>16 DEF AckTimer
<1>17. ASSUME NEW c \in Command, DatabaseError(c) PROVE TypeOK'
  BY <1>17 DEF DatabaseError
<1>18. ASSUME NEW c \in Command, MarkCommandLost(c) PROVE TypeOK'
  BY <1>18 DEF MarkCommandLost
<1>19. ASSUME NEW c \in Command, RelayExecutes(c) PROVE TypeOK'
  BY <1>19 DEF RelayExecutes
<1>20. ASSUME NEW c \in Command, RelayRefuses(c) PROVE TypeOK'
  BY <1>20 DEF RelayRefuses
<1>21. ASSUME NEW m \in acks, HandleAck(m) PROVE TypeOK'
  BY <1>21 DEF HandleAck
<1>22. ASSUME NEW d \in Device, ChangeAdmissible(d) PROVE TypeOK'
  BY <1>22 DEF ChangeAdmissible
<1>23. CASE Restart
  <2>1. faults' \in 0..MaxFaults
    BY <1>23 DEF Restart
  <2>2. link' \in BOOLEAN
    BY <1>23, Zenon DEF Restart
  <2> QED
    BY <1>23, <2>1, <2>2 DEF Restart
<1>24. CASE LinkDown
  <2>1. faults' \in 0..MaxFaults
    BY <1>24 DEF LinkDown
  <2>2. link' \in BOOLEAN
    BY <1>24, Zenon DEF LinkDown
  <2> QED
    BY <1>24, <2>1, <2>2 DEF LinkDown
<1>25. CASE LinkUp
  BY <1>25 DEF LinkUp
<1>26. CASE UNCHANGED vars
  BY <1>26 DEF vars
<1>27. QED
  BY <1>1, <1>2, <1>3, <1>4, <1>5, <1>6, <1>7, <1>8, <1>9, <1>10, <1>11,
     <1>12, <1>13, <1>14, <1>15, <1>16, <1>17, <1>18, <1>19, <1>20, <1>21,
     <1>22, <1>23, <1>24, <1>25, <1>26
  DEF Next, CallStep

\* Every variable keeps its type, whatever faults happen.
THEOREM TypeCorrect == Spec => []TypeOK
  BY TypeInit, TypeStep, PTL DEF Spec

LEMMA PendingStep == IInv /\ [Next]_vars => PendingExact'
<1> SUFFICES ASSUME IInv, [Next]_vars PROVE PendingExact'
  OBVIOUS
<1> USE DEF IInv, TypeOK, PendingExact, Progress, BeforeRow, BeforePublish,
        Acknowledged, Live, Waiting, Ended, Goto, dbVars, deviceVars, busVars,
        Ack
<1>1. ASSUME NEW c \in Command, ReadDevice(c) PROVE PendingExact'
  BY <1>1 DEF ReadDevice
<1>2. ASSUME NEW c \in Command, InsertRow(c) PROVE PendingExact'
  BY <1>2 DEF InsertRow
<1>3. ASSUME NEW c \in Command, NoRoute(c) PROVE PendingExact'
  BY <1>3 DEF NoRoute
<1>4. ASSUME NEW c \in Command, PublishCommand(c) PROVE PendingExact'
  BY <1>4 DEF PublishCommand
<1>5. ASSUME NEW c \in Command, MarkSent(c) PROVE PendingExact'
  BY <1>5 DEF MarkSent
<1>6. ASSUME NEW c \in Command, SimulatorAnswers(c) PROVE PendingExact'
  BY <1>6 DEF SimulatorAnswers
<1>7. ASSUME NEW c \in Command, SimulatorTooLate(c) PROVE PendingExact'
  BY <1>7 DEF SimulatorTooLate
<1>8. ASSUME NEW c \in Command, FinishTimeout(c) PROVE PendingExact'
  BY <1>8 DEF FinishTimeout
<1>9. ASSUME NEW c \in Command, FinishError(c) PROVE PendingExact'
  BY <1>9 DEF FinishError
<1>10. ASSUME NEW c \in Command, SetPower(c) PROVE PendingExact'
  BY <1>10 DEF SetPower
<1>11. ASSUME NEW c \in Command, MarkAcked(c) PROVE PendingExact'
  BY <1>11 DEF MarkAcked
<1>12. ASSUME NEW c \in Command, RereadDevice(c) PROVE PendingExact'
  BY <1>12 DEF RereadDevice
<1>13. ASSUME NEW c \in Command, Announce(c) PROVE PendingExact'
  BY <1>13 DEF Announce
<1>14. ASSUME NEW c \in Command, PubAck(c) PROVE PendingExact'
  BY <1>14 DEF PubAck
<1>15. ASSUME NEW c \in Command, PublishFailed(c) PROVE PendingExact'
  BY <1>15 DEF PublishFailed
<1>16. ASSUME NEW c \in Command, AckTimer(c) PROVE PendingExact'
  BY <1>16 DEF AckTimer
<1>17. ASSUME NEW c \in Command, DatabaseError(c) PROVE PendingExact'
  BY <1>17 DEF DatabaseError
<1>18. ASSUME NEW c \in Command, MarkCommandLost(c) PROVE PendingExact'
  BY <1>18 DEF MarkCommandLost
<1>19. ASSUME NEW c \in Command, RelayExecutes(c) PROVE PendingExact'
  BY <1>19 DEF RelayExecutes
<1>20. ASSUME NEW c \in Command, RelayRefuses(c) PROVE PendingExact'
  BY <1>20 DEF RelayRefuses
<1>21. ASSUME NEW m \in acks, HandleAck(m) PROVE PendingExact'
  BY <1>21 DEF HandleAck
<1>22. ASSUME NEW d \in Device, ChangeAdmissible(d) PROVE PendingExact'
  BY <1>22 DEF ChangeAdmissible
<1>23. CASE Restart
  BY <1>23 DEF Restart
<1>24. CASE LinkDown
  BY <1>24 DEF LinkDown
<1>25. CASE LinkUp
  BY <1>25 DEF LinkUp
<1>26. CASE UNCHANGED vars
  BY <1>26 DEF vars
<1>27. QED
  BY <1>1, <1>2, <1>3, <1>4, <1>5, <1>6, <1>7, <1>8, <1>9, <1>10, <1>11,
     <1>12, <1>13, <1>14, <1>15, <1>16, <1>17, <1>18, <1>19, <1>20, <1>21,
     <1>22, <1>23, <1>24, <1>25, <1>26
  DEF Next, CallStep


LEMMA ProgressStep == IInv /\ [Next]_vars => Progress'
<1> SUFFICES ASSUME IInv, [Next]_vars PROVE Progress'
  OBVIOUS
<1> USE DEF IInv, TypeOK, PendingExact, Progress, BeforeRow, BeforePublish,
        Acknowledged, Live, Waiting, Ended, Final, Goto, dbVars, deviceVars,
        busVars, Ack
<1>1. ASSUME NEW c \in Command, ReadDevice(c) PROVE Progress'
  BY <1>1 DEF ReadDevice
<1>2. ASSUME NEW c \in Command, InsertRow(c) PROVE Progress'
  BY <1>2 DEF InsertRow
<1>3. ASSUME NEW c \in Command, NoRoute(c) PROVE Progress'
  BY <1>3 DEF NoRoute
<1>4. ASSUME NEW c \in Command, PublishCommand(c) PROVE Progress'
  BY <1>4 DEF PublishCommand
<1>5. ASSUME NEW c \in Command, MarkSent(c) PROVE Progress'
  BY <1>5 DEF MarkSent
<1>6. ASSUME NEW c \in Command, SimulatorAnswers(c) PROVE Progress'
  BY <1>6 DEF SimulatorAnswers
<1>7. ASSUME NEW c \in Command, SimulatorTooLate(c) PROVE Progress'
  BY <1>7 DEF SimulatorTooLate
<1>8. ASSUME NEW c \in Command, FinishTimeout(c) PROVE Progress'
  BY <1>8 DEF FinishTimeout
<1>9. ASSUME NEW c \in Command, FinishError(c) PROVE Progress'
  BY <1>9 DEF FinishError
<1>10. ASSUME NEW c \in Command, SetPower(c) PROVE Progress'
  BY <1>10 DEF SetPower
<1>11. ASSUME NEW c \in Command, MarkAcked(c) PROVE Progress'
  BY <1>11 DEF MarkAcked
<1>12. ASSUME NEW c \in Command, RereadDevice(c) PROVE Progress'
  BY <1>12 DEF RereadDevice
<1>13. ASSUME NEW c \in Command, Announce(c) PROVE Progress'
  BY <1>13 DEF Announce
<1>14. ASSUME NEW c \in Command, PubAck(c) PROVE Progress'
  BY <1>14 DEF PubAck
<1>15. ASSUME NEW c \in Command, PublishFailed(c) PROVE Progress'
  BY <1>15 DEF PublishFailed
<1>16. ASSUME NEW c \in Command, AckTimer(c) PROVE Progress'
  BY <1>16 DEF AckTimer
<1>17. ASSUME NEW c \in Command, DatabaseError(c) PROVE Progress'
  BY <1>17 DEF DatabaseError
<1>18. ASSUME NEW c \in Command, MarkCommandLost(c) PROVE Progress'
  BY <1>18 DEF MarkCommandLost
<1>19. ASSUME NEW c \in Command, RelayExecutes(c) PROVE Progress'
  BY <1>19 DEF RelayExecutes
<1>20. ASSUME NEW c \in Command, RelayRefuses(c) PROVE Progress'
  BY <1>20 DEF RelayRefuses
<1>21. ASSUME NEW m \in acks, HandleAck(m) PROVE Progress'
  BY <1>21 DEF HandleAck
<1>22. ASSUME NEW d \in Device, ChangeAdmissible(d) PROVE Progress'
  BY <1>22 DEF ChangeAdmissible
<1>23. CASE Restart
  BY <1>23 DEF Restart
<1>24. CASE LinkDown
  BY <1>24 DEF LinkDown
<1>25. CASE LinkUp
  BY <1>25 DEF LinkUp
<1>26. CASE UNCHANGED vars
  BY <1>26 DEF vars
<1>27. QED
  BY <1>1, <1>2, <1>3, <1>4, <1>5, <1>6, <1>7, <1>8, <1>9, <1>10, <1>11,
     <1>12, <1>13, <1>14, <1>15, <1>16, <1>17, <1>18, <1>19, <1>20, <1>21,
     <1>22, <1>23, <1>24, <1>25, <1>26
  DEF Next, CallStep


LEMMA GenuineStep ==
  IInv /\ [Next]_vars => AcksGenuine' /\ OkWasExecuted'
<1> SUFFICES ASSUME IInv, [Next]_vars PROVE AcksGenuine' /\ OkWasExecuted'
  OBVIOUS
<1> USE DEF IInv, TypeOK, Progress, AcksGenuine, OkWasExecuted, BeforeRow,
        BeforePublish, Acknowledged, Live, Waiting, Ended, Final, Goto,
        dbVars, deviceVars, busVars, Ack
<1>1. ASSUME NEW c \in Command, ReadDevice(c)
      PROVE AcksGenuine' /\ OkWasExecuted'
  BY <1>1 DEF ReadDevice
<1>2. ASSUME NEW c \in Command, InsertRow(c)
      PROVE AcksGenuine' /\ OkWasExecuted'
  BY <1>2 DEF InsertRow
<1>3. ASSUME NEW c \in Command, NoRoute(c) PROVE AcksGenuine' /\ OkWasExecuted'
  BY <1>3 DEF NoRoute
<1>4. ASSUME NEW c \in Command, PublishCommand(c)
      PROVE AcksGenuine' /\ OkWasExecuted'
  BY <1>4 DEF PublishCommand
<1>5. ASSUME NEW c \in Command, MarkSent(c)
      PROVE AcksGenuine' /\ OkWasExecuted'
  BY <1>5 DEF MarkSent
<1>6. ASSUME NEW c \in Command, SimulatorAnswers(c)
      PROVE AcksGenuine' /\ OkWasExecuted'
  BY <1>6 DEF SimulatorAnswers
<1>7. ASSUME NEW c \in Command, SimulatorTooLate(c)
      PROVE AcksGenuine' /\ OkWasExecuted'
  BY <1>7 DEF SimulatorTooLate
<1>8. ASSUME NEW c \in Command, FinishTimeout(c)
      PROVE AcksGenuine' /\ OkWasExecuted'
  BY <1>8 DEF FinishTimeout
<1>9. ASSUME NEW c \in Command, FinishError(c)
      PROVE AcksGenuine' /\ OkWasExecuted'
  BY <1>9 DEF FinishError
<1>10. ASSUME NEW c \in Command, SetPower(c)
       PROVE AcksGenuine' /\ OkWasExecuted'
  BY <1>10 DEF SetPower
<1>11. ASSUME NEW c \in Command, MarkAcked(c)
       PROVE AcksGenuine' /\ OkWasExecuted'
  BY <1>11 DEF MarkAcked
<1>12. ASSUME NEW c \in Command, RereadDevice(c)
       PROVE AcksGenuine' /\ OkWasExecuted'
  BY <1>12 DEF RereadDevice
<1>13. ASSUME NEW c \in Command, Announce(c)
       PROVE AcksGenuine' /\ OkWasExecuted'
  BY <1>13 DEF Announce
<1>14. ASSUME NEW c \in Command, PubAck(c) PROVE AcksGenuine' /\ OkWasExecuted'
  BY <1>14 DEF PubAck
<1>15. ASSUME NEW c \in Command, PublishFailed(c)
       PROVE AcksGenuine' /\ OkWasExecuted'
  BY <1>15 DEF PublishFailed
<1>16. ASSUME NEW c \in Command, AckTimer(c)
       PROVE AcksGenuine' /\ OkWasExecuted'
  BY <1>16 DEF AckTimer
<1>17. ASSUME NEW c \in Command, DatabaseError(c)
       PROVE AcksGenuine' /\ OkWasExecuted'
  BY <1>17 DEF DatabaseError
<1>18. ASSUME NEW c \in Command, MarkCommandLost(c)
       PROVE AcksGenuine' /\ OkWasExecuted'
  BY <1>18 DEF MarkCommandLost
<1>19. ASSUME NEW c \in Command, RelayExecutes(c)
       PROVE AcksGenuine' /\ OkWasExecuted'
  BY <1>19 DEF RelayExecutes
<1>20. ASSUME NEW c \in Command, RelayRefuses(c)
       PROVE AcksGenuine' /\ OkWasExecuted'
  BY <1>20 DEF RelayRefuses
<1>21. ASSUME NEW m \in acks, HandleAck(m) PROVE AcksGenuine' /\ OkWasExecuted'
  BY <1>21 DEF HandleAck
<1>22. ASSUME NEW d \in Device, ChangeAdmissible(d)
       PROVE AcksGenuine' /\ OkWasExecuted'
  BY <1>22 DEF ChangeAdmissible
<1>23. CASE Restart
  BY <1>23 DEF Restart
<1>24. CASE LinkDown
  BY <1>24 DEF LinkDown
<1>25. CASE LinkUp
  BY <1>25 DEF LinkUp
<1>26. CASE UNCHANGED vars
  BY <1>26 DEF vars
<1>27. QED
  BY <1>1, <1>2, <1>3, <1>4, <1>5, <1>6, <1>7, <1>8, <1>9, <1>10, <1>11,
     <1>12, <1>13, <1>14, <1>15, <1>16, <1>17, <1>18, <1>19, <1>20, <1>21,
     <1>22, <1>23, <1>24, <1>25, <1>26
  DEF Next, CallStep

LEMMA InvInit == Init => IInv
  BY TypeInit
  DEF Init, IInv, PendingExact, Progress, AcksGenuine, OkWasExecuted,
    BeforeRow, BeforePublish, Acknowledged, Waiting, Ack

LEMMA InvStep == IInv /\ [Next]_vars => IInv'
  BY TypeStep, PendingStep, ProgressStep, GenuineStep DEF IInv

LEMMA Invariance == Spec => []IInv
  BY InvInit, InvStep, PTL DEF Spec

\* Every exit path of a call empties the registry of pending acks: what is
\* registered is exactly what a call still waits for.
THEOREM RegistryExact == Spec => []PendingExact
  BY Invariance, PTL DEF IInv

\* No row ever reads "acked" for a command its relay did not carry out.
THEOREM AckedIsGenuine == Spec => []AckedWasExecuted
<1>1. IInv => AckedWasExecuted
  BY DEF IInv, OkWasExecuted, AckedWasExecuted
<1> QED
  BY <1>1, Invariance, PTL

LEMMA VerdictStep ==
  IInv /\ [Next]_vars =>
    \A c \in Command : rows[c] \in Final => rows'[c] = rows[c]
<1> SUFFICES ASSUME IInv, [Next]_vars
             PROVE  \A c \in Command : rows[c] \in Final => rows'[c] = rows[c]
  OBVIOUS
<1> DEFINE Kept == \A c \in Command : rows[c] \in Final => rows'[c] = rows[c]
<1> USE DEF IInv, TypeOK, Progress, BeforeRow, Live, Waiting, Ended, Final,
        Goto, dbVars
<1>1. ASSUME NEW c \in Command, ReadDevice(c) PROVE Kept
  BY <1>1 DEF ReadDevice
<1>2. ASSUME NEW c \in Command, InsertRow(c) PROVE Kept
  BY <1>2 DEF InsertRow
<1>3. ASSUME NEW c \in Command, NoRoute(c) PROVE Kept
  BY <1>3 DEF NoRoute
<1>4. ASSUME NEW c \in Command, PublishCommand(c) PROVE Kept
  BY <1>4 DEF PublishCommand
<1>5. ASSUME NEW c \in Command, MarkSent(c) PROVE Kept
  BY <1>5 DEF MarkSent
<1>6. ASSUME NEW c \in Command, SimulatorAnswers(c) PROVE Kept
  BY <1>6 DEF SimulatorAnswers
<1>7. ASSUME NEW c \in Command, SimulatorTooLate(c) PROVE Kept
  BY <1>7 DEF SimulatorTooLate
<1>8. ASSUME NEW c \in Command, FinishTimeout(c) PROVE Kept
  BY <1>8 DEF FinishTimeout
<1>9. ASSUME NEW c \in Command, FinishError(c) PROVE Kept
  BY <1>9 DEF FinishError
<1>10. ASSUME NEW c \in Command, SetPower(c) PROVE Kept
  BY <1>10 DEF SetPower
<1>11. ASSUME NEW c \in Command, MarkAcked(c) PROVE Kept
  BY <1>11 DEF MarkAcked
<1>12. ASSUME NEW c \in Command, RereadDevice(c) PROVE Kept
  BY <1>12 DEF RereadDevice
<1>13. ASSUME NEW c \in Command, Announce(c) PROVE Kept
  BY <1>13 DEF Announce
<1>14. ASSUME NEW c \in Command, PubAck(c) PROVE Kept
  BY <1>14 DEF PubAck
<1>15. ASSUME NEW c \in Command, PublishFailed(c) PROVE Kept
  BY <1>15 DEF PublishFailed
<1>16. ASSUME NEW c \in Command, AckTimer(c) PROVE Kept
  BY <1>16 DEF AckTimer
<1>17. ASSUME NEW c \in Command, DatabaseError(c) PROVE Kept
  BY <1>17 DEF DatabaseError
<1>18. ASSUME NEW c \in Command, MarkCommandLost(c) PROVE Kept
  BY <1>18 DEF MarkCommandLost
<1>19. ASSUME NEW c \in Command, RelayExecutes(c) PROVE Kept
  BY <1>19 DEF RelayExecutes
<1>20. ASSUME NEW c \in Command, RelayRefuses(c) PROVE Kept
  BY <1>20 DEF RelayRefuses
<1>21. ASSUME NEW m \in acks, HandleAck(m) PROVE Kept
  BY <1>21 DEF HandleAck
<1>22. ASSUME NEW d \in Device, ChangeAdmissible(d) PROVE Kept
  BY <1>22 DEF ChangeAdmissible
<1>23. CASE Restart
  BY <1>23 DEF Restart
<1>24. CASE LinkDown
  BY <1>24 DEF LinkDown
<1>25. CASE LinkUp
  BY <1>25 DEF LinkUp
<1>26. CASE UNCHANGED vars
  BY <1>26 DEF vars
<1>27. QED
  BY <1>1, <1>2, <1>3, <1>4, <1>5, <1>6, <1>7, <1>8, <1>9, <1>10, <1>11,
     <1>12, <1>13, <1>14, <1>15, <1>16, <1>17, <1>18, <1>19, <1>20, <1>21,
     <1>22, <1>23, <1>24, <1>25, <1>26
  DEF Next, CallStep

\* A verdict once written stays: no interleaving of the "sent" update, the
\* timer and the ack revises it.
THEOREM VerdictIsFinal == Spec => VerdictFinal
<1>1. IInv /\ [Next]_vars =>
        [\A c \in Command : rows[c] \in Final => rows'[c] = rows[c]]_rows
  BY VerdictStep
<1> QED
  BY <1>1, Invariance, PTL DEF Spec, VerdictFinal

LEMMA PowerStep ==
  IInv /\ [Next]_vars =>
    \A d \in Device : power'[d] # power[d] =>
      \E c \in executed \cap OnDevice(d) :
        input[c].on = power'[d] /\ rows[c] \notin Final
<1> SUFFICES ASSUME IInv, [Next]_vars, NEW e \in Device, power'[e] # power[e]
             PROVE  \E c \in executed \cap OnDevice(e) :
                      input[c].on = power'[e] /\ rows[c] \notin Final
  OBVIOUS
<1> DEFINE Backed == \E c \in executed \cap OnDevice(e) :
                       input[c].on = power'[e] /\ rows[c] \notin Final
<1> USE DEF dbVars
<1>1. ASSUME NEW c \in Command, ReadDevice(c) PROVE Backed
  BY <1>1 DEF ReadDevice
<1>2. ASSUME NEW c \in Command, InsertRow(c) PROVE Backed
  BY <1>2 DEF InsertRow
<1>3. ASSUME NEW c \in Command, NoRoute(c) PROVE Backed
  BY <1>3 DEF NoRoute
<1>4. ASSUME NEW c \in Command, PublishCommand(c) PROVE Backed
  BY <1>4 DEF PublishCommand
<1>5. ASSUME NEW c \in Command, MarkSent(c) PROVE Backed
  BY <1>5 DEF MarkSent
<1>6. ASSUME NEW c \in Command, SimulatorAnswers(c) PROVE Backed
  BY <1>6 DEF SimulatorAnswers
<1>7. ASSUME NEW c \in Command, SimulatorTooLate(c) PROVE Backed
  BY <1>7 DEF SimulatorTooLate
<1>8. ASSUME NEW c \in Command, FinishTimeout(c) PROVE Backed
  BY <1>8 DEF FinishTimeout
<1>9. ASSUME NEW c \in Command, FinishError(c) PROVE Backed
  BY <1>9 DEF FinishError
<1>10. ASSUME NEW c \in Command, SetPower(c) PROVE Backed
  BY <1>10
  DEF SetPower, IInv, TypeOK, Input, OnDevice, Progress, OkWasExecuted,
    Waiting, Final
<1>11. ASSUME NEW c \in Command, MarkAcked(c) PROVE Backed
  BY <1>11 DEF MarkAcked
<1>12. ASSUME NEW c \in Command, RereadDevice(c) PROVE Backed
  BY <1>12 DEF RereadDevice
<1>13. ASSUME NEW c \in Command, Announce(c) PROVE Backed
  BY <1>13 DEF Announce
<1>14. ASSUME NEW c \in Command, PubAck(c) PROVE Backed
  BY <1>14 DEF PubAck
<1>15. ASSUME NEW c \in Command, PublishFailed(c) PROVE Backed
  BY <1>15 DEF PublishFailed
<1>16. ASSUME NEW c \in Command, AckTimer(c) PROVE Backed
  BY <1>16 DEF AckTimer
<1>17. ASSUME NEW c \in Command, DatabaseError(c) PROVE Backed
  BY <1>17 DEF DatabaseError
<1>18. ASSUME NEW c \in Command, MarkCommandLost(c) PROVE Backed
  BY <1>18 DEF MarkCommandLost
<1>19. ASSUME NEW c \in Command, RelayExecutes(c) PROVE Backed
  BY <1>19 DEF RelayExecutes
<1>20. ASSUME NEW c \in Command, RelayRefuses(c) PROVE Backed
  BY <1>20 DEF RelayRefuses
<1>21. ASSUME NEW m \in acks, HandleAck(m) PROVE Backed
  BY <1>21 DEF HandleAck
<1>22. ASSUME NEW d \in Device, ChangeAdmissible(d) PROVE Backed
  BY <1>22 DEF ChangeAdmissible
<1>23. CASE Restart
  BY <1>23 DEF Restart
<1>24. CASE LinkDown
  BY <1>24 DEF LinkDown
<1>25. CASE LinkUp
  BY <1>25 DEF LinkUp
<1>26. CASE UNCHANGED vars
  BY <1>26 DEF vars
<1>27. QED
  BY <1>1, <1>2, <1>3, <1>4, <1>5, <1>6, <1>7, <1>8, <1>9, <1>10, <1>11,
     <1>12, <1>13, <1>14, <1>15, <1>16, <1>17, <1>18, <1>19, <1>20, <1>21,
     <1>22, <1>23, <1>24, <1>25, <1>26
  DEF Next, CallStep

\* The stored state of a relay only ever becomes one that a running call has
\* made the relay take.
THEOREM PowerIsFromTheRelay == Spec => PowerFollowsAck
<1>1. IInv /\ [Next]_vars =>
        [\A d \in Device : power'[d] # power[d] =>
           \E c \in executed \cap OnDevice(d) :
             input[c].on = power'[d] /\ rows[c] \notin Final]_power
  BY PowerStep
<1> QED
  BY <1>1, Invariance, PTL DEF Spec, PowerFollowsAck

-----------------------------------------------------------------------------
(***************************************************************************)
(* Refinement: DeviceCommand implements CommandLedger.                     *)
(***************************************************************************)
LEMMA LedgerStep == IInv /\ [Next]_vars => [Ledger!Next]_(Ledger!vars)
<1> SUFFICES ASSUME IInv, [Next]_vars PROVE [Ledger!Next]_(Ledger!vars)
  OBVIOUS
<1> DEFINE Simulates == [Ledger!Next]_(Ledger!vars)
<1> USE DEF IInv, TypeOK, Progress, OkWasExecuted, AcksGenuine, BeforeRow,
        BeforePublish, Acknowledged, Live, Waiting, Ended, Final, Goto,
        dbVars, deviceVars, LedgerOf, Ledger!Next, Ledger!vars, Ledger!Open,
        Ledger!CarryOut, Ledger!Close, Ledger!Verdict
<1>1. ASSUME NEW c \in Command, ReadDevice(c) PROVE Simulates
  BY <1>1 DEF ReadDevice
<1>2. ASSUME NEW c \in Command, InsertRow(c) PROVE Simulates
  <2>1. rows[c] = "none"
    BY <1>2 DEF InsertRow
  <2>2. rows' = [rows EXCEPT ![c] = "pending"] /\ executed' = executed
    BY <1>2 DEF InsertRow
  <2>3. Ledger!Open(c)
    BY <2>1, <2>2
  <2> QED
    BY <2>3
<1>3. ASSUME NEW c \in Command, NoRoute(c) PROVE Simulates
  BY <1>3 DEF NoRoute
<1>4. ASSUME NEW c \in Command, PublishCommand(c) PROVE Simulates
  BY <1>4 DEF PublishCommand
<1>5. ASSUME NEW c \in Command, MarkSent(c) PROVE Simulates
  BY <1>5 DEF MarkSent
<1>6. ASSUME NEW c \in Command, SimulatorAnswers(c) PROVE Simulates
  BY <1>6 DEF SimulatorAnswers
<1>7. ASSUME NEW c \in Command, SimulatorTooLate(c) PROVE Simulates
  BY <1>7 DEF SimulatorTooLate
<1>8. ASSUME NEW c \in Command, FinishTimeout(c) PROVE Simulates
  BY ZenonT(40), <1>8 DEF FinishTimeout
<1>9. ASSUME NEW c \in Command, FinishError(c) PROVE Simulates
  BY ZenonT(40), <1>9 DEF FinishError
<1>10. ASSUME NEW c \in Command, SetPower(c) PROVE Simulates
  BY <1>10 DEF SetPower
<1>11. ASSUME NEW c \in Command, MarkAcked(c) PROVE Simulates
  <2>1. rows[c] \in {"pending", "sent"} /\ c \in executed
    BY <1>11 DEF MarkAcked
  <2>2. rows' = [rows EXCEPT ![c] = "acked"] /\ executed' = executed
    BY <1>11 DEF MarkAcked
  <2>3. Ledger!Close(c, "acked")
    BY ZenonT(40), <2>1, <2>2
  <2> QED
    BY <2>3
<1>12. ASSUME NEW c \in Command, RereadDevice(c) PROVE Simulates
  BY <1>12 DEF RereadDevice
<1>13. ASSUME NEW c \in Command, Announce(c) PROVE Simulates
  BY <1>13 DEF Announce
<1>14. ASSUME NEW c \in Command, PubAck(c) PROVE Simulates
  BY <1>14 DEF PubAck
<1>15. ASSUME NEW c \in Command, PublishFailed(c) PROVE Simulates
  BY <1>15 DEF PublishFailed
<1>16. ASSUME NEW c \in Command, AckTimer(c) PROVE Simulates
  BY <1>16 DEF AckTimer
<1>17. ASSUME NEW c \in Command, DatabaseError(c) PROVE Simulates
  BY <1>17 DEF DatabaseError
<1>18. ASSUME NEW c \in Command, MarkCommandLost(c) PROVE Simulates
  BY <1>18 DEF MarkCommandLost
<1>19. ASSUME NEW c \in Command, RelayExecutes(c) PROVE Simulates
  BY <1>19 DEF RelayExecutes
<1>20. ASSUME NEW c \in Command, RelayRefuses(c) PROVE Simulates
  BY <1>20 DEF RelayRefuses
<1>21. ASSUME NEW m \in acks, HandleAck(m) PROVE Simulates
  BY <1>21 DEF HandleAck
<1>22. ASSUME NEW d \in Device, ChangeAdmissible(d) PROVE Simulates
  BY <1>22 DEF ChangeAdmissible
<1>23. CASE Restart
  BY <1>23 DEF Restart
<1>24. CASE LinkDown
  BY <1>24 DEF LinkDown
<1>25. CASE LinkUp
  BY <1>25 DEF LinkUp
<1>26. CASE UNCHANGED vars
  BY <1>26 DEF vars
<1>27. QED
  BY <1>1, <1>2, <1>3, <1>4, <1>5, <1>6, <1>7, <1>8, <1>9, <1>10, <1>11,
     <1>12, <1>13, <1>14, <1>15, <1>16, <1>17, <1>18, <1>19, <1>20, <1>21,
     <1>22, <1>23, <1>24, <1>25, <1>26
  DEF Next, CallStep

\* The service, with its registry, timers and failures, implements the ledger
\* of commands: one verdict each, "acked" only for what was carried out.
THEOREM ImplementsLedger == Spec => LedgerSpec
<1>1. Init => Ledger!Init
  BY DEF Init, Ledger!Init, LedgerOf
<1> QED
  BY <1>1, LedgerStep, Invariance, PTL DEF Spec, LedgerSpec, Ledger!Spec

-----------------------------------------------------------------------------
(***************************************************************************)
(* The stored and the announced state follow the relay.  Two running calls *)
(* of a device are both marked as overlapping; as long as no command was   *)
(* carried out for a call that failed or overlapped, the device is settled *)
(* or one running call is responsible for the difference.                  *)
(***************************************************************************)
OverlapMarked ==
  \A c1, c2 \in Command :
    c1 # c2 /\ input[c1].device = input[c2].device
      /\ {pc[c1], pc[c2]} \subseteq Live => c1 \in overlapped

Tainted(d) ==
  \E c \in executed \cap OnDevice(d) :
    pc[c] \notin Live \cup {"done"} \/ c \in overlapped

Settled(d) ==
  power[d] = relay[d] /\ shown[d] = relay[d] /\ executed \cap LiveOn(d) = {}

InProgress(d) ==
  \E c \in executed \cap OnDevice(d) :
    /\ pc[c] \in Live
    /\ relay[d] = input[c].on
    /\ pc[c] \in {"powered", "acked", "announcing"} => power[d] = input[c].on
    /\ pc[c] = "announcing" => snapshot[c] = input[c].on

Tracked(d) == Tainted(d) \/ Settled(d) \/ InProgress(d)

TInv == OverlapMarked /\ \A d \in Device : Tracked(d)

LEMMA OverlapStep == IInv /\ TInv /\ [Next]_vars => OverlapMarked'
<1> SUFFICES ASSUME IInv, TInv, [Next]_vars PROVE OverlapMarked'
  OBVIOUS
<1> USE DEF IInv, TInv, TypeOK, PendingExact, OverlapMarked, Live, Waiting,
        Ended, Goto, dbVars, deviceVars, busVars, OnDevice, LiveOn, Input
<1>1. ASSUME NEW c \in Command, ReadDevice(c) PROVE OverlapMarked'
  BY <1>1 DEF ReadDevice
<1>2. ASSUME NEW c \in Command, InsertRow(c) PROVE OverlapMarked'
  BY <1>2 DEF InsertRow
<1>3. ASSUME NEW c \in Command, NoRoute(c) PROVE OverlapMarked'
  BY <1>3 DEF NoRoute
<1>4. ASSUME NEW c \in Command, PublishCommand(c) PROVE OverlapMarked'
  BY <1>4 DEF PublishCommand
<1>5. ASSUME NEW c \in Command, MarkSent(c) PROVE OverlapMarked'
  BY <1>5 DEF MarkSent
<1>6. ASSUME NEW c \in Command, SimulatorAnswers(c) PROVE OverlapMarked'
  BY <1>6 DEF SimulatorAnswers
<1>7. ASSUME NEW c \in Command, SimulatorTooLate(c) PROVE OverlapMarked'
  BY <1>7 DEF SimulatorTooLate
<1>8. ASSUME NEW c \in Command, FinishTimeout(c) PROVE OverlapMarked'
  BY <1>8 DEF FinishTimeout
<1>9. ASSUME NEW c \in Command, FinishError(c) PROVE OverlapMarked'
  BY <1>9 DEF FinishError
<1>10. ASSUME NEW c \in Command, SetPower(c) PROVE OverlapMarked'
  BY <1>10 DEF SetPower
<1>11. ASSUME NEW c \in Command, MarkAcked(c) PROVE OverlapMarked'
  BY <1>11 DEF MarkAcked
<1>12. ASSUME NEW c \in Command, RereadDevice(c) PROVE OverlapMarked'
  BY <1>12 DEF RereadDevice
<1>13. ASSUME NEW c \in Command, Announce(c) PROVE OverlapMarked'
  BY <1>13 DEF Announce
<1>14. ASSUME NEW c \in Command, PubAck(c) PROVE OverlapMarked'
  BY <1>14 DEF PubAck
<1>15. ASSUME NEW c \in Command, PublishFailed(c) PROVE OverlapMarked'
  BY <1>15 DEF PublishFailed
<1>16. ASSUME NEW c \in Command, AckTimer(c) PROVE OverlapMarked'
  BY <1>16 DEF AckTimer
<1>17. ASSUME NEW c \in Command, DatabaseError(c) PROVE OverlapMarked'
  BY <1>17 DEF DatabaseError
<1>18. ASSUME NEW c \in Command, MarkCommandLost(c) PROVE OverlapMarked'
  BY <1>18 DEF MarkCommandLost
<1>19. ASSUME NEW c \in Command, RelayExecutes(c) PROVE OverlapMarked'
  BY <1>19 DEF RelayExecutes
<1>20. ASSUME NEW c \in Command, RelayRefuses(c) PROVE OverlapMarked'
  BY <1>20 DEF RelayRefuses
<1>21. ASSUME NEW m \in acks, HandleAck(m) PROVE OverlapMarked'
  BY <1>21 DEF HandleAck
<1>22. ASSUME NEW d \in Device, ChangeAdmissible(d) PROVE OverlapMarked'
  BY <1>22 DEF ChangeAdmissible
<1>23. CASE Restart
  BY <1>23 DEF Restart
<1>24. CASE LinkDown
  BY <1>24 DEF LinkDown
<1>25. CASE LinkUp
  BY <1>25 DEF LinkUp
<1>26. CASE UNCHANGED vars
  BY <1>26 DEF vars
<1>27. QED
  BY <1>1, <1>2, <1>3, <1>4, <1>5, <1>6, <1>7, <1>8, <1>9, <1>10, <1>11,
     <1>12, <1>13, <1>14, <1>15, <1>16, <1>17, <1>18, <1>19, <1>20, <1>21,
     <1>22, <1>23, <1>24, <1>25, <1>26
  DEF Next, CallStep

\* A taint stays: calls that ended stay ended, marks are not removed.
LEMMA TaintStays ==
  ASSUME NEW e, Tainted(e), input' = input, executed \subseteq executed',
         overlapped \subseteq overlapped',
         \A x \in Command : pc[x] \notin Live \cup {"done"} /\ x \in executed
                             => pc'[x] \notin Live \cup {"done"}
  PROVE  Tainted(e)'
  BY DEF Tainted, OnDevice, Live, Waiting

\* A step of a call of another device leaves a device tracked.
LEMMA OtherDevice ==
  ASSUME NEW e, Tracked(e), input' = input,
         executed' \cap OnDevice(e) = executed \cap OnDevice(e),
         overlapped \subseteq overlapped', power'[e] = power[e],
         relay'[e] = relay[e],
         shown'[e] = shown[e],
         \A x \in OnDevice(e) : /\ pc'[x] = pc[x]
                                /\ snapshot'[x] = snapshot[x]
  PROVE  Tracked(e)'
  BY DEF Tracked, Tainted, Settled, InProgress, OnDevice, LiveOn, Live, Waiting

\* An acknowledged call of an untainted device is the only running one.
LEMMA Responsible ==
  ASSUME IInv, TInv, NEW c \in Command, outcome[c] = "ok", pc[c] \in Live,
         ~ Tainted(input[c].device)
  PROVE  LET d == input[c].device IN
         /\ c \in executed /\ c \notin overlapped
         /\ LiveOn(d) = {c}
         /\ relay[d] = input[c].on
         /\ pc[c] \in {"powered", "acked", "announcing"}
              => power[d] = input[c].on
         /\ pc[c] = "announcing" => snapshot[c] = input[c].on
<1> DEFINE d == input[c].device
<1>1. c \in executed /\ c \in OnDevice(d) /\ d \in Device
  BY DEF IInv, TypeOK, OkWasExecuted, OnDevice, Input
<1>2. c \notin overlapped
  BY <1>1 DEF Tainted
<1>3. LiveOn(d) = {c}
  BY <1>1, <1>2 DEF TInv, OverlapMarked, LiveOn, OnDevice
<1>4. Tracked(d)
  BY <1>1 DEF TInv
<1>5. InProgress(d)
  BY <1>1, <1>3, <1>4 DEF Tracked, Settled
<1> QED
  BY <1>1, <1>2, <1>3, <1>5 DEF InProgress, LiveOn

LEMMA TrackStep == IInv /\ TInv /\ [Next]_vars => \A d \in Device : Tracked(d)'
<1> SUFFICES ASSUME IInv, TInv, [Next]_vars, NEW e \in Device PROVE Tracked(e)'
  OBVIOUS
<1> USE DEF IInv, TInv, TypeOK, PendingExact, Progress, OkWasExecuted,
        OverlapMarked, Tracked, Tainted, Settled, InProgress, BeforeRow,
        BeforePublish, Acknowledged, Live, Waiting, Ended, Goto, dbVars,
        deviceVars, busVars, OnDevice, LiveOn, Input
<1>1. ASSUME NEW c \in Command, ReadDevice(c) PROVE Tracked(e)'
  <2>1. CASE input[c].device # e
    <3>1. Tracked(e)
      OBVIOUS
    <3> QED
      BY SMTT(30), <1>1, <2>1, <3>1, OtherDevice DEF ReadDevice
  <2>2. CASE Tainted(e)
    BY <1>1, <2>2, TaintStays DEF ReadDevice
  <2>3. CASE input[c].device = e /\ Settled(e)
    BY <1>1, <2>3 DEF ReadDevice
  <2>4. CASE input[c].device = e /\ InProgress(e)
    <3>1. PICK x \in executed \cap OnDevice(e) :
            /\ pc[x] \in Live
            /\ relay[e] = input[x].on
            /\ pc[x] \in {"powered", "acked", "announcing"}
                 => power[e] = input[x].on
            /\ pc[x] = "announcing" => snapshot[x] = input[x].on
      BY <2>4
    <3>2. x \in LiveOn(e) /\ x # c
      BY <1>1, <3>1 DEF ReadDevice
    <3>3. CASE admissible[e]
      <4>1. x \in overlapped' /\ x \in executed' \cap OnDevice(e)'
        BY <1>1, <2>4, <3>1, <3>2, <3>3 DEF ReadDevice
      <4> QED
        BY <4>1
    <3>4. CASE ~ admissible[e]
      <4>1. /\ pc'[x] = pc[x]
            /\ UNCHANGED <<input, relay, power, snapshot, executed>>
        BY <1>1, <2>4, <3>1, <3>2, <3>4 DEF ReadDevice
      <4>2. InProgress(e)'
        BY <3>1, <4>1
      <4> QED
        BY <4>2
    <3> QED
      BY <3>3, <3>4
  <2> QED
    BY <2>1, <2>2, <2>3, <2>4
<1>2. ASSUME NEW c \in Command, InsertRow(c) PROVE Tracked(e)'
  BY <1>2 DEF InsertRow
<1>3. ASSUME NEW c \in Command, NoRoute(c) PROVE Tracked(e)'
  BY <1>3 DEF NoRoute
<1>4. ASSUME NEW c \in Command, PublishCommand(c) PROVE Tracked(e)'
  BY <1>4 DEF PublishCommand
<1>5. ASSUME NEW c \in Command, MarkSent(c) PROVE Tracked(e)'
  BY <1>5 DEF MarkSent
<1>6. ASSUME NEW c \in Command, SimulatorAnswers(c) PROVE Tracked(e)'
  BY <1>6 DEF SimulatorAnswers
<1>7. ASSUME NEW c \in Command, SimulatorTooLate(c) PROVE Tracked(e)'
  BY <1>7 DEF SimulatorTooLate
<1>8. ASSUME NEW c \in Command, FinishTimeout(c) PROVE Tracked(e)'
  BY <1>8 DEF FinishTimeout
<1>9. ASSUME NEW c \in Command, FinishError(c) PROVE Tracked(e)'
  BY <1>9 DEF FinishError
<1>10. ASSUME NEW c \in Command, SetPower(c) PROVE Tracked(e)'
  <2>1. CASE input[c].device # e
    <3>1. Tracked(e)
      OBVIOUS
    <3> QED
      BY <1>10, <2>1, <3>1, OtherDevice DEF SetPower
  <2>2. CASE Tainted(e)
    BY <1>10, <2>2, TaintStays DEF SetPower
  <2>3. CASE input[c].device = e /\ ~ Tainted(e)
    <3>1. outcome[c] = "ok" /\ pc[c] \in Live
      BY <1>10 DEF SetPower
    <3>2. /\ c \in executed /\ c \notin overlapped
          /\ LiveOn(e) = {c}
          /\ relay[e] = input[c].on
          /\ pc[c] \in {"powered", "acked", "announcing"}
               => power[e] = input[c].on
          /\ pc[c] = "announcing" => snapshot[c] = input[c].on
      BY <2>3, <3>1, Responsible
    <3> QED
      BY <1>10, <2>3, <3>2 DEF SetPower
  <2> QED
    BY <2>1, <2>2, <2>3
<1>11. ASSUME NEW c \in Command, MarkAcked(c) PROVE Tracked(e)'
  BY <1>11 DEF MarkAcked
<1>12. ASSUME NEW c \in Command, RereadDevice(c) PROVE Tracked(e)'
  <2>1. CASE input[c].device # e
    <3>1. Tracked(e)
      OBVIOUS
    <3> QED
      BY <1>12, <2>1, <3>1, OtherDevice DEF RereadDevice
  <2>2. CASE Tainted(e)
    BY <1>12, <2>2, TaintStays DEF RereadDevice
  <2>3. CASE input[c].device = e /\ ~ Tainted(e)
    <3>1. outcome[c] = "ok" /\ pc[c] \in Live
      BY <1>12 DEF RereadDevice
    <3>2. /\ c \in executed /\ c \notin overlapped
          /\ LiveOn(e) = {c}
          /\ relay[e] = input[c].on
          /\ pc[c] \in {"powered", "acked", "announcing"}
               => power[e] = input[c].on
          /\ pc[c] = "announcing" => snapshot[c] = input[c].on
      BY <2>3, <3>1, Responsible
    <3> QED
      BY <1>12, <2>3, <3>2 DEF RereadDevice
  <2> QED
    BY <2>1, <2>2, <2>3
<1>13. ASSUME NEW c \in Command, Announce(c) PROVE Tracked(e)'
  <2>1. CASE input[c].device # e
    <3>1. Tracked(e)
      OBVIOUS
    <3> QED
      BY <1>13, <2>1, <3>1, OtherDevice DEF Announce
  <2>2. CASE Tainted(e)
    BY <1>13, <2>2, TaintStays DEF Announce
  <2>3. CASE input[c].device = e /\ ~ Tainted(e)
    <3>1. outcome[c] = "ok" /\ pc[c] \in Live
      BY <1>13 DEF Announce
    <3>2. /\ c \in executed /\ c \notin overlapped
          /\ LiveOn(e) = {c}
          /\ relay[e] = input[c].on
          /\ pc[c] \in {"powered", "acked", "announcing"}
               => power[e] = input[c].on
          /\ pc[c] = "announcing" => snapshot[c] = input[c].on
      BY <2>3, <3>1, Responsible
    <3> QED
      BY <1>13, <2>3, <3>2 DEF Announce
  <2> QED
    BY <2>1, <2>2, <2>3
<1>14. ASSUME NEW c \in Command, PubAck(c) PROVE Tracked(e)'
  BY <1>14 DEF PubAck
<1>15. ASSUME NEW c \in Command, PublishFailed(c) PROVE Tracked(e)'
  BY SMTT(30), <1>15 DEF PublishFailed
<1>16. ASSUME NEW c \in Command, AckTimer(c) PROVE Tracked(e)'
  BY <1>16 DEF AckTimer
<1>17. ASSUME NEW c \in Command, DatabaseError(c) PROVE Tracked(e)'
  BY <1>17 DEF DatabaseError
<1>18. ASSUME NEW c \in Command, MarkCommandLost(c) PROVE Tracked(e)'
  <2>1. CASE input[c].device # e
    <3>1. Tracked(e)
      OBVIOUS
    <3> QED
      BY <1>18, <2>1, <3>1, OtherDevice DEF MarkCommandLost
  <2>2. CASE Tainted(e)
    BY <1>18, <2>2, TaintStays DEF MarkCommandLost
  <2>3. CASE input[c].device = e /\ ~ Tainted(e)
    <3>1. CASE pc[c] = "marking"
      BY <1>18, <2>3, <3>1 DEF MarkCommandLost
    <3>2. CASE pc[c] = "waiting" /\ c \in executed
      <4>1. pc'[c] \notin Live \cup {"done"}
              /\ c \in executed' \cap OnDevice(e)'
        BY <1>18, <2>3, <3>2 DEF MarkCommandLost
      <4> QED
        BY <4>1
    <3>3. CASE pc[c] = "waiting" /\ c \notin executed
      BY SMTT(30), <1>18, <2>3, <3>3 DEF MarkCommandLost
    <3> QED
      BY <1>18, <3>1, <3>2, <3>3 DEF MarkCommandLost
  <2> QED
    BY <2>1, <2>2, <2>3
<1>19. ASSUME NEW c \in Command, RelayExecutes(c) PROVE Tracked(e)'
  <2>1. CASE input[c].device # e
    <3>1. Tracked(e)
      OBVIOUS
    <3>2. relay'[e] = relay[e]
            /\ executed' \cap OnDevice(e) = executed \cap OnDevice(e)
      BY <1>19, <2>1 DEF RelayExecutes
    <3> QED
      BY <1>19, <3>1, <3>2, OtherDevice DEF RelayExecutes
  <2>2. CASE Tainted(e)
    BY <1>19, <2>2, TaintStays DEF RelayExecutes
  <2>3. CASE input[c].device = e /\ ~ Tainted(e)
    <3>1. c \in executed' \cap OnDevice(e)' /\ pc' = pc
            /\ overlapped' = overlapped
      BY <1>19, <2>3 DEF RelayExecutes
    <3>2. c \notin executed /\ pc[c] # "done"
      BY <1>19 DEF RelayExecutes
    <3>3. CASE pc[c] \notin Live \/ c \in overlapped
      <4>1. Tainted(e)'
        BY <3>1, <3>2, <3>3
      <4> QED
        BY <4>1
    <3>4. CASE pc[c] \in Live /\ c \notin overlapped
      <4>1. pc[c] \notin {"powered", "acked", "announcing"}
        BY <3>2
      <4>2. relay'[e] = input'[c].on
        BY <1>19, <2>3 DEF RelayExecutes
      <4>3. InProgress(e)'
        BY <3>1, <3>4, <4>1, <4>2
      <4> QED
        BY <4>3
    <3> QED
      BY <3>3, <3>4
  <2> QED
    BY <2>1, <2>2, <2>3
<1>20. ASSUME NEW c \in Command, RelayRefuses(c) PROVE Tracked(e)'
  BY <1>20 DEF RelayRefuses
<1>21. ASSUME NEW m \in acks, HandleAck(m) PROVE Tracked(e)'
  BY <1>21 DEF HandleAck
<1>22. ASSUME NEW d \in Device, ChangeAdmissible(d) PROVE Tracked(e)'
  BY <1>22 DEF ChangeAdmissible
<1>23. CASE Restart
  BY <1>23 DEF Restart
<1>24. CASE LinkDown
  BY <1>24 DEF LinkDown
<1>25. CASE LinkUp
  BY <1>25 DEF LinkUp
<1>26. CASE UNCHANGED vars
  BY <1>26 DEF vars
<1>27. QED
  BY <1>1, <1>2, <1>3, <1>4, <1>5, <1>6, <1>7, <1>8, <1>9, <1>10, <1>11,
     <1>12, <1>13, <1>14, <1>15, <1>16, <1>17, <1>18, <1>19, <1>20, <1>21,
     <1>22, <1>23, <1>24, <1>25, <1>26
  DEF Next, CallStep

\* Between calls the stored and the announced state are those of the relay,
\* except where a call that failed or overlapped carried a command out.
THEOREM StateIsTracked == Spec => []StateTracksRelay
<1>1. Init => TInv
  BY DEF Init, TInv, OverlapMarked, Tracked, Settled, LiveOn, Live, Waiting
<1>2. IInv /\ TInv /\ [Next]_vars => TInv'
  BY OverlapStep, TrackStep DEF TInv
<1>3. TInv => StateTracksRelay
  BY DEF TInv, Tracked, Tainted, Settled, InProgress, StateTracksRelay, LiveOn
<1> QED
  BY <1>1, <1>2, <1>3, Invariance, PTL DEF Spec
=============================================================================
