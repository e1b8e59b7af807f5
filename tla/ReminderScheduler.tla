------------------------- MODULE ReminderScheduler -------------------------
(***************************************************************************)
(* Reminders of agents (server/reminder-scheduler.js): each scheduled one  *)
(* has a timer, and a timer that goes off fires every reminder that is due *)
(* by then, one after the other, with an await for the delivery to the     *)
(* owner and one for the save of the state.  Cancelling, other timers and  *)
(* other saves come between; a crash goes back to the last save.           *)
(*                                                                         *)
(* Time is counted in steps; MaxDelay is the longest delay a timer takes   *)
(* (MAX_TIMER_DELAY_MS, 24.8 days).                                        *)
(***************************************************************************)
EXTENDS Naturals, Sequences, FiniteSets, SequencesExt, FiniteSetsExt

CONSTANTS
  Reminders,
  MaxDelay,       \* MAX_TIMER_DELAY_MS
  MaxClock,       \* bound: time
  MaxHitches      \* bound: deliveries that throw and crashes

VARIABLES
  fireAt,         \* the time of each reminder
  status,         \* of each: none, scheduled, fired, canceled
  saved,          \* the statuses a restart loads
  timer,          \* when the timer of each goes off, or NoTimer
  due,            \* of each timer: the reminders its call has still to fire
  at,             \* what that call awaits
  shown,          \* history: how often each has been shown in the chat
  lost,           \* history: how often a crash went back to before a change
  clock, throws, crashes

calls == <<due, at>>
schedulerVars == <<fireAt, status, saved, timer, calls, shown, lost, clock, throws, crashes>>

NoTimer == MaxClock + MaxDelay + 1

SchedulerInit ==
  /\ fireAt \in [Reminders -> 1 .. MaxClock]
  /\ status = [r \in Reminders |-> "none"] /\ saved = status
  /\ timer = [r \in Reminders |-> NoTimer]
  /\ due = [r \in Reminders |-> <<>>] /\ at = [r \in Reminders |-> "idle"]
  /\ shown = [r \in Reminders |-> 0] /\ lost = [r \in Reminders |-> 0]
  /\ clock = 0 /\ throws = 0 /\ crashes = 0

\* scheduleTimer: when the timer of a reminder goes off.
GoesOff(r) == clock + (IF fireAt[r] <= clock THEN 0
                       ELSE IF fireAt[r] - clock > MaxDelay THEN MaxDelay ELSE fireAt[r] - clock)

CreateReminder(r) ==
  /\ status[r] = "none"
  /\ status' = [status EXCEPT ![r] = "scheduled"]
  /\ timer' = [timer EXCEPT ![r] = GoesOff(r)]
  /\ UNCHANGED <<fireAt, saved, calls, shown, lost, clock, throws, crashes>>

\* cancelReminder: one that has fired can be canceled as well.
CancelReminder(r) ==
  /\ status[r] \in {"scheduled", "fired"}
  /\ timer' = [timer EXCEPT ![r] = NoTimer]
  /\ status' = [status EXCEPT ![r] = "canceled"]
  /\ UNCHANGED <<fireAt, saved, calls, shown, lost, clock, throws, crashes>>

-----------------------------------------------------------------------------
(* Firing.                                                                 *)

FiresAnyway(list) == DOMAIN list      \* mutant: the status is not looked at again

\* fireReminder looks at the status again: it may be long since the list was made.
StillScheduled(list) == {k \in DOMAIN list : status[list[k]] = "scheduled"}

\* fireDueReminders from the list on: the first that is still scheduled is
\* marked, shown and given to its owner, without an await before that.
FireFrom(r, list) ==
  IF StillScheduled(list) = {}
  THEN /\ due' = [due EXCEPT ![r] = <<>>] /\ at' = [at EXCEPT ![r] = "idle"]
       /\ UNCHANGED <<status, timer, shown>>
  ELSE \E k \in StillScheduled(list) :
         /\ \A j \in StillScheduled(list) : k <= j
         /\ due' = [due EXCEPT ![r] = SubSeq(list, k, Len(list))]
         /\ at' = [at EXCEPT ![r] = "delivering"]
         /\ status' = [status EXCEPT ![list[k]] = "fired"]
         /\ shown' = [shown EXCEPT ![list[k]] = @ + 1]
         /\ timer' = [timer EXCEPT ![list[k]] = NoTimer, ![r] = NoTimer]

Due == {r \in Reminders : status[r] = "scheduled" /\ fireAt[r] <= clock}
ByTime(set) == {list \in SetToSeqs(set) :
                  \A i, j \in DOMAIN list : i < j => fireAt[list[i]] <= fireAt[list[j]]}

\* A timer goes off, at its time or later.
TimerFires(r) ==
  /\ timer[r] <= clock /\ at[r] = "idle"
  /\ IF Due = {} THEN timer' = [timer EXCEPT ![r] = NoTimer] /\ UNCHANGED <<status, shown, calls>>
     ELSE \E list \in ByTime(Due) : FireFrom(r, list)
  /\ UNCHANGED <<fireAt, saved, lost, clock, throws, crashes>>

Delivered(r) ==
  /\ at[r] = "delivering"
  /\ at' = [at EXCEPT ![r] = "saving"]
  /\ UNCHANGED <<fireAt, status, saved, timer, due, shown, lost, clock, throws, crashes>>

\* persistState is done, and the next of the list is looked at.
SavedOne(r) ==
  /\ at[r] = "saving"
  /\ saved' = status
  /\ FireFrom(r, Tail(due[r]))
  /\ UNCHANGED <<fireAt, lost, clock, throws, crashes>>

\* The delivery throws: the rest of the list waits for its own timers.
DeliveryFails(r) ==
  /\ at[r] = "delivering" /\ throws + crashes < MaxHitches
  /\ throws' = throws + 1
  /\ at' = [at EXCEPT ![r] = "idle"] /\ due' = [due EXCEPT ![r] = <<>>]
  /\ UNCHANGED <<fireAt, status, saved, timer, shown, lost, clock, crashes>>

\* The state is saved by whatever else changes it.
PersistState ==
  /\ saved # status
  /\ saved' = status
  /\ UNCHANGED <<fireAt, status, timer, calls, shown, lost, clock, throws, crashes>>

NoTimers(ofStatus) == [r \in Reminders |-> NoTimer]   \* mutant: start() is not called

\* start: a timer for each that is scheduled, overdue ones at once.
Timers(ofStatus) ==
  [r \in Reminders |-> IF ofStatus[r] = "scheduled" THEN GoesOff(r) ELSE NoTimer]

\* The next process loads the last save and start()s the scheduler.
CrashAndStart ==
  /\ throws + crashes < MaxHitches
  /\ crashes' = crashes + 1
  /\ status' = saved
  /\ timer' = Timers(saved)
  /\ due' = [r \in Reminders |-> <<>>] /\ at' = [r \in Reminders |-> "idle"]
  /\ lost' = [r \in Reminders |-> IF saved[r] # status[r] THEN lost[r] + 1 ELSE lost[r]]
  /\ UNCHANGED <<fireAt, saved, shown, clock, throws>>

Tick ==
  /\ clock < MaxClock
  /\ clock' = clock + 1
  /\ UNCHANGED <<fireAt, status, saved, timer, calls, shown, lost, throws, crashes>>

-----------------------------------------------------------------------------
SchedulerNext ==
  \/ \E r \in Reminders :
       \/ CreateReminder(r) \/ CancelReminder(r)
       \/ TimerFires(r) \/ Delivered(r) \/ SavedOne(r) \/ DeliveryFails(r)
  \/ PersistState \/ CrashAndStart \/ Tick

SchedulerSpec == SchedulerInit /\ [][SchedulerNext]_schedulerVars

\* The clock runs, timers go off, and awaits end.
FairSchedulerSpec ==
  /\ SchedulerSpec /\ WF_schedulerVars(Tick)
  /\ \A r \in Reminders :
       /\ WF_schedulerVars(TimerFires(r)) /\ WF_schedulerVars(Delivered(r))
       /\ WF_schedulerVars(SavedOne(r))

-----------------------------------------------------------------------------
SchedulerTypeOK ==
  /\ fireAt \in [Reminders -> 1 .. MaxClock]
  /\ status \in [Reminders -> {"none", "scheduled", "fired", "canceled"}]
  /\ saved \in [Reminders -> {"none", "scheduled", "fired", "canceled"}]
  /\ timer \in [Reminders -> 0 .. NoTimer]
  /\ due \in [Reminders -> Seq(Reminders)]
  /\ at \in [Reminders -> {"idle", "delivering", "saving"}]
  /\ shown \in [Reminders -> Nat] /\ lost \in [Reminders -> Nat]
  /\ clock \in 0 .. MaxClock /\ throws \in 0 .. MaxHitches /\ crashes \in 0 .. MaxHitches

\* Timers that go off together and lists that overlap show a reminder once; only
\* a crash before the save shows it again.
ShownOnce == \A r \in Reminders : shown[r] <= 1 + lost[r]

\* What makes it so: an unfired one has been shown only by what was lost.
ShownByStatus ==
  \A r \in Reminders :
    shown[r] <= lost[r] + (IF status[r] \in {"fired", "canceled"} THEN 1 ELSE 0)

\* A reminder whose cancelling has been saved is never shown again.
ShowsNoCanceled ==
  \A r \in Reminders : status[r] = "canceled" /\ saved[r] = "canceled" => shown'[r] = shown[r]
CanceledStaysSilent == [][ShowsNoCanceled]_schedulerVars

\* Restarts or not, a reminder no further off than a timer reaches fires or is
\* canceled (or its creation was not saved).  Not so when a delivery throws: the
\* rest of that list, whose timers may have gone off, is forgotten.
NearOnesFire ==
  \A r \in Reminders :
    (status[r] = "scheduled" /\ fireAt[r] <= timer[r] /\ timer[r] # NoTimer)
      ~> (status[r] # "scheduled" \/ throws > 0)
=============================================================================
