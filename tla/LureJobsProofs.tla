----------------------------- MODULE LureJobsProofs -----------------------------
(***************************************************************************)
(* For any orders, keys, commands and faults: every announcement of a job  *)
(* tells the same outcome, a locked stop has a verified lure, and the      *)
(* poller does not rest on an open job.                                    *)
(*                                                                         *)
(* A row changes hands three times: a command writes it, a tick reads it   *)
(* as open, a later part of that tick as closed. Followed says that what a *)
(* tick carries is still so when it gets there, and Stories that an        *)
(* outcome, once told, can no longer change.                               *)
(***************************************************************************)
EXTENDS LureJobs, FiniteSetTheorems, TLAPS

USE LureJobsAssumption DEF LureJobsAssumption

Places == {"idle", "asked", "replied", "over"}

LureTypes ==
    /\ server \in [Commands -> Open \union Outcomes \union {"none", "purged"}]
    /\ row \in [Commands -> Open \union Terminal \union {"none"}]
    /\ cmd \in [Commands -> [pc : Places, order : Orders \union {NoOrder}, job : 0..MaxCommands]]
    /\ told \in [Commands -> SUBSET Terminal]
    /\ sends \in [Commands -> Nat] /\ faults \in Nat
    /\ notified \subseteq Commands

\* A row is of a job the server took from a command, whose order no longer changes.
Given ==
    /\ \A j \in Commands : server[j] # "none" => cmd[j].pc # "idle"
    /\ \A j \in Commands : row[j] # "none" => server[j] # "none"
    /\ \A c \in Commands : cmd[c].pc = "replied" =>
          cmd[c].job \in Commands /\ server[cmd[c].job] # "none"

\* What a tick is about to poll is open, what it is about to announce is closed
\* and not yet marked.
Followed == todo \subseteq OpenRows /\ news \subseteq Unnotified

\* An outcome that was told is the row's, for good; each further message cost a
\* fault, and the last one stands for the mark.
Stories ==
    \A j \in Commands :
        /\ told[j] # {} => row[j] \in Terminal /\ told[j] = {row[j]}
        /\ sends[j] <= faults + 1
        /\ j \notin notified => sends[j] <= faults

\* From the tick that chose the idle interval to its end, a job that is recorded
\* sets the event.
Resting == phase # "awake" /\ delay = "idle" /\ ~wake /\ ~blind => OpenRows = {}

LureInv == LureTypes /\ Given /\ Followed /\ Stories /\ LockedWasVerified /\ Resting

LEMMA InitLure == Init => LureInv
<1> SUFFICES ASSUME Init PROVE LureInv
  OBVIOUS
<1>1. LureTypes
  BY DEF Init, LureTypes, Places, Open, Outcomes, Terminal
<1>2. Given /\ Followed
  BY DEF Init, Given, Followed
<1>3. Stories
  BY DEF Init, Stories
<1>4. LockedWasVerified /\ Resting
  BY DEF Init, LockedWasVerified, Resting
<1> QED
  BY <1>1, <1>2, <1>3, <1>4 DEF LureInv

-------------------------------------------------------------------------------
\* What a step must not disturb, part by part.

LEMMA StoriesStay ==
    ASSUME LureInv, UNCHANGED <<row, notified, told, sends>>, faults' \in {faults, faults + 1}
    PROVE  Stories'
<1>1. \A j \in Commands : sends[j] \in Nat /\ faults \in Nat
  BY DEF LureInv, LureTypes
<1> QED
  BY <1>1 DEF LureInv, Stories

LEMMA LocksStay ==
    ASSUME LureInv, UNCHANGED row, lock' \subseteq lock, lock' \subseteq kept',
           \A j \in Commands : row[j] = "verified" => cmd'[j].order = cmd[j].order
    PROVE  LockedWasVerified'
BY DEF LureInv, LockedWasVerified, Key

\* Steps of the poller that leave the rows, the marks and the commands alone.
LEMMA QuietLure ==
    ASSUME LureInv,
           UNCHANGED <<server, row, notified, lock, kept, cmd, told, sends>>,
           faults' \in {faults, faults + 1},
           todo' \subseteq OpenRows, news' \subseteq Unnotified,
           Resting'
    PROVE  LureInv'
<1>1. LureTypes' /\ Given'
  BY DEF LureInv, LureTypes, Given
<1>2. Followed'
  BY DEF Followed, OpenRows, Unnotified
<1>3. Stories' /\ LockedWasVerified'
  BY StoriesStay, LocksStay DEF LureInv, LockedWasVerified
<1> QED
  BY <1>1, <1>2, <1>3 DEF LureInv

-------------------------------------------------------------------------------
\* The server, and the end of a lock.
LEMMA ServerLure ==
    ASSUME LureInv, NEW j \in Commands, ServerWorks(j) \/ ServerPurges(j)
    PROVE  LureInv'
<1> USE DEF db, loop, obs
<1>1. /\ UNCHANGED <<row, notified, lock, kept, cmd, told, sends, faults>>
      /\ UNCHANGED <<todo, news, phase, delay, wake, blind>>
  BY DEF ServerWorks, ServerPurges
<1>2. PICK s \in Open \union Outcomes \union {"purged"} : server' = [server EXCEPT ![j] = s]
  BY DEF ServerWorks, ServerPurges, Open
<1>3. server[j] # "none" /\ s # "none"
  BY DEF ServerWorks, ServerPurges, Open, Outcomes
<1>4. LureTypes'
  BY <1>1, <1>2 DEF LureInv, LureTypes
<1>5. \A i \in Commands : server'[i] # "none" <=> server[i] # "none"
  BY <1>2, <1>3 DEF LureInv, LureTypes
<1>6. Given'
  BY <1>1, <1>5 DEF LureInv, Given
<1>7. Followed' /\ Resting'
  BY <1>1 DEF LureInv, Followed, Resting, OpenRows, Unnotified
<1>8. Stories' /\ LockedWasVerified'
  BY <1>1, StoriesStay, LocksStay DEF LureInv, LockedWasVerified
<1> QED
  BY <1>4, <1>6, <1>7, <1>8 DEF LureInv

LEMMA ExpiryLure ==
    ASSUME LureInv, NEW k \in Keys, LockExpires(k)
    PROVE  LureInv'
<1> USE DEF loop
<1>1. /\ UNCHANGED <<server, row, notified, cmd, told, sends, faults>>
      /\ UNCHANGED <<todo, news, phase, delay, wake, blind>>
      /\ lock' = lock \ {k} /\ kept' = kept \ {k}
  BY DEF LockExpires
<1>2. LureTypes' /\ Given'
  BY <1>1 DEF LureInv, LureTypes, Given
<1>3. Followed' /\ Resting'
  BY <1>1 DEF LureInv, Followed, Resting, OpenRows, Unnotified
<1>4. Stories'
  BY <1>1, StoriesStay
<1>5. LockedWasVerified'
  BY <1>1, LocksStay DEF LureInv, LockedWasVerified
<1> QED
  BY <1>2, <1>3, <1>4, <1>5 DEF LureInv

-------------------------------------------------------------------------------
\* A command: only one that has not begun takes an order, and only the server makes
\* a job of it.
LEMMA AskLure ==
    ASSUME LureInv, NEW c \in Commands, NEW o \in Orders, Ask(c, o)
    PROVE  LureInv'
<1> USE DEF db, loop
<1>1. /\ UNCHANGED <<server, row, notified, lock, kept, told, sends, faults>>
      /\ UNCHANGED <<todo, news, phase, delay, wake, blind>>
      /\ cmd[c].pc = "idle"
      /\ cmd' = [cmd EXCEPT ![c].pc = "asked", ![c].order = o]
  BY DEF Ask
<1>2. LureTypes'
  BY <1>1 DEF LureInv, LureTypes, Places
<1>3. /\ \A i \in Commands : i # c => cmd'[i] = cmd[i]
      /\ cmd'[c].pc = "asked"
  BY <1>1 DEF LureInv, LureTypes
<1>4. Given'
  BY <1>1, <1>3 DEF LureInv, Given
<1>5. Followed' /\ Resting'
  BY <1>1 DEF LureInv, Followed, Resting, OpenRows, Unnotified
<1>6. row[c] = "none"
  BY <1>1 DEF LureInv, Given
<1>7. LockedWasVerified'
  BY <1>1, <1>3, <1>6, LocksStay DEF LureInv, LockedWasVerified
<1>8. Stories'
  BY <1>1, StoriesStay
<1> QED
  BY <1>2, <1>4, <1>5, <1>7, <1>8 DEF LureInv

\* The server answers with a job it knows.
LEMMA AcceptGives ==
    ASSUME LureInv, NEW c \in Commands, NEW pc \in Places, Accept(c, pc)
    PROVE  \E job \in Commands :
              /\ cmd' = [cmd EXCEPT ![c].pc = pc, ![c].job = job]
              /\ UNCHANGED server \/ server' = [server EXCEPT ![c] = "queued"]
              /\ server'[job] # "none"
<1>1. CASE SameOrder(c) = {}
  <2>1. /\ server' = [server EXCEPT ![c] = "queued"]
        /\ cmd' = [cmd EXCEPT ![c].pc = pc, ![c].job = c]
    BY <1>1 DEF Accept
  <2>2. server'[c] # "none"
    BY <2>1 DEF LureInv, LureTypes
  <2> QED
    BY <2>1, <2>2
<1>2. CASE SameOrder(c) # {}
  <2>1. PICK j \in SameOrder(c) : cmd' = [cmd EXCEPT ![c].pc = pc, ![c].job = j]
    BY <1>2 DEF Accept
  <2>2. UNCHANGED server /\ j \in Commands /\ server[j] # "none"
    BY <1>2, <2>1 DEF Accept, SameOrder, Open
  <2> QED
    BY <2>1, <2>2
<1> QED
  BY <1>1, <1>2

LEMMA SubmitLure ==
    ASSUME LureInv, NEW c \in Commands, Submitted(c) \/ SubmitFails(c)
    PROVE  LureInv'
<1> USE DEF db, loop, obs
<1>1. /\ UNCHANGED <<row, notified, lock, kept, told, sends, faults>>
      /\ UNCHANGED <<todo, news, phase, delay, wake, blind>>
      /\ cmd[c].pc = "asked"
  BY DEF Submitted, SubmitFails
<1>2. \/ cmd' = [cmd EXCEPT ![c].pc = "over"] /\ UNCHANGED server
      \/ Accept(c, "over") \/ Accept(c, "replied")
  BY DEF Submitted, SubmitFails
<1>3. PICK pc \in {"over", "replied"}, job \in 0..MaxCommands :
        /\ cmd' = [cmd EXCEPT ![c].pc = pc, ![c].job = job]
        /\ UNCHANGED server \/ server' = [server EXCEPT ![c] = "queued"]
        /\ pc = "replied" => job \in Commands /\ server'[job] # "none"
  <2>1. CASE cmd' = [cmd EXCEPT ![c].pc = "over"] /\ UNCHANGED server
    <3>1. cmd[c].job \in 0..MaxCommands
      BY DEF LureInv, LureTypes
    <3>2. cmd' = [cmd EXCEPT ![c].pc = "over", ![c].job = cmd[c].job]
      BY <2>1 DEF LureInv, LureTypes
    <3> QED
      BY <2>1, <3>1, <3>2
  <2>2. ASSUME NEW pc \in {"over", "replied"}, Accept(c, pc)
        PROVE  \E job \in 0..MaxCommands :
                  /\ cmd' = [cmd EXCEPT ![c].pc = pc, ![c].job = job]
                  /\ UNCHANGED server \/ server' = [server EXCEPT ![c] = "queued"]
                  /\ pc = "replied" => job \in Commands /\ server'[job] # "none"
    <3>1. pc \in Places
      BY DEF Places
    <3>2. PICK job \in Commands :
            /\ cmd' = [cmd EXCEPT ![c].pc = pc, ![c].job = job]
            /\ UNCHANGED server \/ server' = [server EXCEPT ![c] = "queued"]
            /\ server'[job] # "none"
      BY <2>2, <3>1, AcceptGives
    <3>3. job \in 0..MaxCommands
      BY DEF Commands
    <3> QED
      BY <3>2, <3>3
  <2>3. QED
    BY <1>2, <2>1, <2>2
<1>4. LureTypes'
  <2>1. cmd' \in [Commands -> [pc : Places, order : Orders \union {NoOrder}, job : 0..MaxCommands]]
    <3>1. pc \in Places /\ cmd[c] \in [pc : Places, order : Orders \union {NoOrder}, job : 0..MaxCommands]
      BY DEF LureInv, LureTypes, Places
    <3> DEFINE first == [cmd EXCEPT ![c].pc = pc]
    <3>2. first \in [Commands -> [pc : Places, order : Orders \union {NoOrder}, job : 0..MaxCommands]]
      BY <3>1 DEF LureInv, LureTypes
    <3>3. cmd' = [first EXCEPT ![c].job = job]
      BY <1>3 DEF LureInv, LureTypes
    <3> HIDE DEF first
    <3> QED
      BY <3>2, <3>3
  <2>2. server' \in [Commands -> Open \union Outcomes \union {"none", "purged"}]
    BY <1>3 DEF LureInv, LureTypes, Open
  <2> QED
    BY <1>1, <2>1, <2>2 DEF LureInv, LureTypes
<1>5. /\ \A i \in Commands : i # c => cmd'[i] = cmd[i]
      /\ cmd'[c].pc = pc /\ cmd'[c].job = job /\ cmd'[c].order = cmd[c].order
  BY <1>3 DEF LureInv, LureTypes
<1>6. /\ \A i \in Commands : server[i] # "none" => server'[i] # "none"
      /\ \A i \in Commands : i # c => server'[i] = server[i]
  BY <1>3 DEF LureInv, LureTypes
<1>7. Given'
  BY <1>1, <1>3, <1>5, <1>6 DEF LureInv, Given
<1>8. Followed' /\ Resting'
  BY <1>1 DEF LureInv, Followed, Resting, OpenRows, Unnotified
<1>9. LockedWasVerified'
  BY <1>1, <1>5, LocksStay DEF LureInv, LockedWasVerified
<1>10. Stories'
  BY <1>1, StoriesStay
<1> QED
  BY <1>4, <1>7, <1>8, <1>9, <1>10 DEF LureInv

\* The first row of a job stays, and the poller is woken for it.
LEMMA RecordLure ==
    ASSUME LureInv, NEW c \in Commands, Recorded(c)
    PROVE  LureInv'
<1> USE DEF loop, obs
<1>1. /\ UNCHANGED <<server, lock, kept, told, sends, faults>>
      /\ UNCHANGED <<todo, news, phase, delay, blind>>
      /\ cmd[c].pc = "replied" /\ wake' = TRUE
      /\ cmd' = [cmd EXCEPT ![c].pc = "over"]
      /\ notified' = notified
  BY DEF Recorded, Record
<1>2. PICK j \in Commands : j = cmd[c].job /\ server[j] # "none"
  BY <1>1 DEF LureInv, Given
<1>3. \/ row[j] = "none" /\ row' = [row EXCEPT ![j] = "queued"]
      \/ row' = row
  BY <1>2 DEF Recorded, Record
<1>4. /\ \A i \in Commands : cmd'[i].order = cmd[i].order /\ cmd'[i].job = cmd[i].job
      /\ \A i \in Commands : cmd'[i].pc = "replied" => cmd[i].pc = "replied"
      /\ \A i \in Commands : cmd'[i].pc = "idle" => cmd[i].pc = "idle"
  BY <1>1 DEF LureInv, LureTypes
<1>5. LureTypes'
  <2>1. cmd' \in [Commands -> [pc : Places, order : Orders \union {NoOrder}, job : 0..MaxCommands]]
    BY <1>1 DEF LureInv, LureTypes, Places
  <2>2. row' \in [Commands -> Open \union Terminal \union {"none"}]
    BY <1>3 DEF LureInv, LureTypes, Open
  <2> QED
    BY <1>1, <2>1, <2>2 DEF LureInv, LureTypes
<1>6. /\ \A i \in Commands : row[i] # "none" => row'[i] = row[i]
      /\ \A i \in Commands : row'[i] # "none" => row[i] # "none" \/ i = j
  BY <1>3 DEF LureInv, LureTypes
<1>7. Given'
  BY <1>1, <1>2, <1>4, <1>6 DEF LureInv, Given
<1>8. Followed'
  BY <1>1, <1>6 DEF LureInv, Followed, OpenRows, Unnotified, Open, Terminal, Outcomes
<1>9. Resting'
  BY <1>1 DEF Resting
<1>10. Stories'
  BY <1>1, <1>6 DEF LureInv, Stories, Terminal, Outcomes
<1>11. LockedWasVerified'
  BY <1>1, <1>4, <1>6 DEF LureInv, LockedWasVerified, Key
<1> QED
  BY <1>5, <1>7, <1>8, <1>9, <1>10, <1>11 DEF LureInv

LEMMA RecordFailsLure ==
    ASSUME LureInv, NEW c \in Commands, RecordFails(c)
    PROVE  LureInv'
<1> USE DEF db, loop, obs
<1>1. /\ UNCHANGED <<server, row, notified, lock, kept, told, sends>>
      /\ UNCHANGED <<todo, news, phase, delay, blind>>
      /\ faults' = faults + 1
      /\ wake' \in {wake, wake \/ cmd[c].job # c}
      /\ cmd' = [cmd EXCEPT ![c].pc = "over"]
  BY DEF RecordFails, Fault
<1>2. /\ \A i \in Commands : cmd'[i].order = cmd[i].order /\ cmd'[i].job = cmd[i].job
      /\ \A i \in Commands : cmd'[i].pc = "replied" => cmd[i].pc = "replied"
      /\ \A i \in Commands : cmd'[i].pc = "idle" => cmd[i].pc = "idle"
  BY <1>1 DEF LureInv, LureTypes
<1>3. LureTypes'
  BY <1>1 DEF LureInv, LureTypes, Places
<1>4. Given'
  BY <1>1, <1>2 DEF LureInv, Given
<1>5. Followed'
  BY <1>1 DEF LureInv, Followed, OpenRows, Unnotified
<1>6. wake => wake'
  BY <1>1
<1>7. Resting'
  BY <1>1, <1>6 DEF LureInv, Resting, OpenRows
<1>8. LockedWasVerified'
  BY <1>1, <1>2, LocksStay DEF LureInv, LockedWasVerified
<1>9. Stories'
  BY <1>1, StoriesStay
<1> QED
  BY <1>3, <1>4, <1>5, <1>7, <1>8, <1>9 DEF LureInv

-------------------------------------------------------------------------------
\* The poller.
LEMMA TickLure ==
    ASSUME LureInv, Tick \/ TickBlind \/ Polled \/ PolledBlind \/ AnnouncedAll \/ Sleep \/ Awake
    PROVE  LureInv'
<1> USE DEF db, loop, obs
<1>1. /\ UNCHANGED <<server, row, notified, lock, kept, cmd, told, sends>>
      /\ faults' \in {faults, faults + 1}
  BY DEF Tick, TickBlind, Polled, PolledBlind, AnnouncedAll, Sleep, Awake, Fault
<1>2. todo' \in {todo, OpenRows} /\ news' \in {news, Unnotified}
  BY DEF Tick, TickBlind, Polled, PolledBlind, AnnouncedAll, Sleep, Awake
<1>3. todo' \subseteq OpenRows /\ news' \subseteq Unnotified
  BY <1>2 DEF LureInv, Followed
<1>4. OpenRows' = OpenRows
  BY <1>1 DEF OpenRows
<1>5. Resting'
  <2>1. CASE Tick
    BY <1>4, <2>1 DEF Tick, Resting
  <2>2. CASE TickBlind
    BY <2>2 DEF TickBlind, Resting
  <2>3. CASE Polled \/ PolledBlind \/ AnnouncedAll
    BY <1>4, <2>3 DEF Polled, PolledBlind, AnnouncedAll, LureInv, Resting
  <2>4. CASE Sleep
    BY <1>4, <2>4 DEF Sleep, Delay, LureInv, Resting
  <2>5. CASE Awake
    BY <2>5 DEF Awake, Resting
  <2> QED
    BY <2>1, <2>2, <2>3, <2>4, <2>5
<1> QED
  BY <1>1, <1>3, <1>5, QuietLure

LEMMA MissLure ==
    ASSUME LureInv, NEW j \in Commands, PollFails(j) \/ AnnounceFails(j)
    PROVE  LureInv'
<1> USE DEF db, loop, obs
<1>1. /\ UNCHANGED <<server, row, notified, lock, kept, cmd, told, sends, faults>>
      /\ UNCHANGED <<phase, delay, wake, blind>>
      /\ todo' \subseteq todo /\ news' \subseteq news
  BY DEF PollFails, AnnounceFails
<1>2. todo' \subseteq OpenRows /\ news' \subseteq Unnotified
  BY <1>1 DEF LureInv, Followed
<1>3. Resting'
  BY <1>1 DEF LureInv, Resting, OpenRows
<1> QED
  BY <1>1, <1>2, <1>3, QuietLure

\* Only an open row is polled, so no outcome is replaced.
LEMMA PollLure ==
    ASSUME LureInv, NEW j \in Commands, Poll(j)
    PROVE  LureInv'
<1>1. /\ UNCHANGED <<server, notified, lock, kept, cmd, told, sends, faults>>
      /\ UNCHANGED <<phase, delay, wake, blind, news>>
      /\ j \in todo /\ todo' = todo \ {j}
      /\ row' = [row EXCEPT ![j] = Reported(j)]
  BY DEF Poll, obs
<1>2. row[j] \in Open
  BY <1>1 DEF LureInv, Followed, OpenRows
<1>3. server[j] \in Open \union Outcomes \union {"purged"}
  BY <1>2 DEF LureInv, LureTypes, Given, Open
<1>4. Reported(j) \in Open \union Terminal
  BY <1>3 DEF Reported, Terminal, Open, Outcomes
<1>5. LureTypes'
  BY <1>1, <1>4 DEF LureInv, LureTypes
<1>6. /\ \A i \in Commands : i # j => row'[i] = row[i]
      /\ row'[j] = Reported(j)
  BY <1>1 DEF LureInv, LureTypes
<1>7. Given'
  BY <1>1, <1>2, <1>6 DEF LureInv, Given, Open
<1>8. Followed'
  <2>1. todo' \subseteq OpenRows'
    BY <1>1, <1>6 DEF LureInv, Followed, OpenRows
  <2>2. j \notin news
    BY <1>2 DEF LureInv, Followed, Unnotified, Open, Terminal, Outcomes
  <2>3. news' \subseteq Unnotified'
    BY <1>1, <1>6, <2>2 DEF LureInv, Followed, Unnotified
  <2> QED
    BY <2>1, <2>3 DEF Followed
<1>9. told[j] = {}
  BY <1>2 DEF LureInv, Stories, Open, Terminal, Outcomes
<1>10. Stories'
  BY <1>1, <1>6, <1>9 DEF LureInv, Stories
<1>11. row[j] # "verified"
  BY <1>2 DEF Open
<1>12. LockedWasVerified'
  BY <1>1, <1>6, <1>11 DEF LureInv, LockedWasVerified, Key
<1>13. Resting'
  BY <1>1, <1>2 DEF LureInv, Resting, OpenRows
<1> QED
  BY <1>5, <1>7, <1>8, <1>10, <1>12, <1>13 DEF LureInv

\* An announcement tells the outcome of the row, and is repeated only when its mark
\* failed.
LEMMA AnnounceLure ==
    ASSUME LureInv, NEW j \in Commands, Announce(j)
    PROVE  LureInv'
<1>1. /\ UNCHANGED <<server, row, cmd, phase, todo, delay, blind, wake>>
      /\ j \in news /\ news' = news \ {j}
  BY DEF Announce
<1>2. \/ notified' = notified \union {j} /\ faults' = faults
      \/ notified' = notified /\ faults' = faults + 1
      \/ notified' = notified \union {j} /\ faults' = faults + 1
  BY DEF Announce, Mark, Fault, SettleFails
<1>3. \/ told' = [told EXCEPT ![j] = @ \union {row[j]}] /\ sends' = [sends EXCEPT ![j] = @ + 1]
      \/ UNCHANGED <<told, sends>>
  BY DEF Announce, Accepted
<1>4. row[j] \in Terminal /\ j \notin notified
  BY <1>1 DEF LureInv, Followed, Unnotified
<1>5. LureTypes'
  BY <1>1, <1>2, <1>3, <1>4 DEF LureInv, LureTypes
<1>6. Given'
  BY <1>1 DEF LureInv, Given
<1>7. Followed' /\ Resting'
  BY <1>1, <1>2 DEF LureInv, Followed, Resting, OpenRows, Unnotified
<1>8. Stories'
  <2> SUFFICES ASSUME NEW i \in Commands
               PROVE  /\ told'[i] # {} => row[i] \in Terminal /\ told'[i] = {row[i]}
                      /\ sends'[i] <= faults' + 1
                      /\ i \notin notified' => sends'[i] <= faults'
    BY <1>1 DEF Stories
  <2>1. told'[i] # {} => row[i] \in Terminal /\ told'[i] = {row[i]}
    BY <1>3, <1>4 DEF LureInv, LureTypes, Stories
  <2>2. /\ sends[i] \in Nat /\ faults \in Nat
        /\ sends[i] <= faults + 1 /\ (i \notin notified => sends[i] <= faults)
    BY DEF LureInv, LureTypes, Stories
  <2>3. sends'[i] = sends[i] \/ (i = j /\ sends'[i] = sends[i] + 1)
    BY <1>3 DEF LureInv, LureTypes
  <2>4. sends'[i] <= faults' + 1 /\ (i \notin notified' => sends'[i] <= faults')
    BY <1>2, <1>4, <2>2, <2>3
  <2> QED
    BY <2>1, <2>4
<1>9. LockedWasVerified'
  <2>1. \/ row[j] = "verified" /\ lock' = lock \union {Key(j)} /\ kept' = kept \union {Key(j)}
        \/ lock' \subseteq lock /\ kept' = kept
    BY DEF Announce, Settle, SettleFails, Locks, Clears
  <2>2. \A i \in Commands : Key(i)' = Key(i)
    BY <1>1 DEF Key
  <2> QED
    BY <1>1, <2>1, <2>2 DEF LureInv, LockedWasVerified
<1> QED
  BY <1>5, <1>6, <1>7, <1>8, <1>9 DEF LureInv

\* A message whose answer was lost leaves its row as it was.
LEMMA AnswerLostLure ==
    ASSUME LureInv, NEW j \in Commands, AnswerLost(j)
    PROVE  LureInv'
<1>1. /\ UNCHANGED <<server, row, notified, lock, kept, cmd, phase, todo, delay, blind, wake>>
      /\ j \in news /\ news' = news \ {j} /\ faults' = faults + 1
      /\ told' = [told EXCEPT ![j] = @ \union {row[j]}]
      /\ sends' = [sends EXCEPT ![j] = @ + 1]
  BY DEF AnswerLost, Accepted, Fault, db
<1>2. row[j] \in Terminal /\ j \notin notified
  BY <1>1 DEF LureInv, Followed, Unnotified
<1>3. LureTypes'
  BY <1>1, <1>2 DEF LureInv, LureTypes
<1>4. Given'
  BY <1>1 DEF LureInv, Given
<1>5. Followed' /\ Resting'
  BY <1>1 DEF LureInv, Followed, Resting, OpenRows, Unnotified
<1>6. LockedWasVerified'
  BY <1>1, LocksStay DEF LureInv, LockedWasVerified
<1>7. Stories'
  <2> SUFFICES ASSUME NEW i \in Commands
               PROVE  /\ told'[i] # {} => row[i] \in Terminal /\ told'[i] = {row[i]}
                      /\ sends'[i] <= faults' + 1
                      /\ i \notin notified' => sends'[i] <= faults'
    BY <1>1 DEF Stories
  <2>1. told'[i] # {} => row[i] \in Terminal /\ told'[i] = {row[i]}
    BY <1>1, <1>2 DEF LureInv, LureTypes, Stories
  <2>2. /\ sends[i] \in Nat /\ faults \in Nat
        /\ sends[i] <= faults + 1 /\ (i \notin notified => sends[i] <= faults)
    BY DEF LureInv, LureTypes, Stories
  <2>3. sends'[i] = sends[i] \/ (i = j /\ i \notin notified /\ sends'[i] = sends[i] + 1)
    BY <1>1, <1>2 DEF LureInv, LureTypes
  <2>4. sends'[i] <= faults' + 1 /\ (i \notin notified' => sends'[i] <= faults')
    BY <1>1, <2>2, <2>3
  <2> QED
    BY <2>1, <2>4
<1> QED
  BY <1>3, <1>4, <1>5, <1>6, <1>7 DEF LureInv

\* The process may die anywhere, also between the message and its mark.
LEMMA DiesLure ==
    ASSUME LureInv, Dies, NEW j,
           \/ UNCHANGED <<told, sends>>
           \/ j \in news /\ Accepted(j)
    PROVE  LureInv'
<1>1. /\ UNCHANGED <<server, row, notified, lock, kept>>
      /\ faults' = faults + 1 /\ todo' = {} /\ news' = {} /\ phase' = "awake"
      /\ cmd' = [c \in Commands |->
                   IF cmd[c].pc \in {"asked", "replied"}
                   THEN [cmd[c] EXCEPT !.pc = "over"] ELSE cmd[c]]
  BY DEF Dies, Fault, db
<1>2. /\ \A i \in Commands : cmd'[i].order = cmd[i].order /\ cmd'[i].job = cmd[i].job
      /\ \A i \in Commands : cmd'[i].pc # "replied"
      /\ \A i \in Commands : cmd'[i].pc = "idle" => cmd[i].pc = "idle"
  BY <1>1 DEF LureInv, LureTypes
<1>3. j \in news => row[j] \in Terminal /\ j \notin notified
  BY DEF LureInv, Followed, Unnotified
<1>4. LureTypes'
  <2>1. cmd' \in [Commands -> [pc : Places, order : Orders \union {NoOrder}, job : 0..MaxCommands]]
    BY <1>1 DEF LureInv, LureTypes, Places
  <2>2. told' \in [Commands -> SUBSET Terminal] /\ sends' \in [Commands -> Nat]
    BY <1>3 DEF LureInv, LureTypes, Accepted
  <2> QED
    BY <1>1, <2>1, <2>2 DEF LureInv, LureTypes
<1>5. Given'
  BY <1>1, <1>2 DEF LureInv, Given
<1>6. Followed' /\ Resting'
  BY <1>1 DEF Followed, Resting
<1>7. LockedWasVerified'
  BY <1>1, <1>2, LocksStay DEF LureInv, LockedWasVerified
<1>8. Stories'
  <2> SUFFICES ASSUME NEW i \in Commands
               PROVE  /\ told'[i] # {} => row[i] \in Terminal /\ told'[i] = {row[i]}
                      /\ sends'[i] <= faults' + 1
                      /\ i \notin notified' => sends'[i] <= faults'
    BY <1>1 DEF Stories
  <2>1. told'[i] # {} => row[i] \in Terminal /\ told'[i] = {row[i]}
    BY <1>3 DEF LureInv, LureTypes, Stories, Accepted
  <2>2. /\ sends[i] \in Nat /\ faults \in Nat
        /\ sends[i] <= faults + 1 /\ (i \notin notified => sends[i] <= faults)
    BY DEF LureInv, LureTypes, Stories
  <2>3. sends'[i] = sends[i] \/ (i = j /\ i \notin notified /\ sends'[i] = sends[i] + 1)
    BY <1>3 DEF LureInv, LureTypes, Accepted
  <2>4. sends'[i] <= faults' + 1 /\ (i \notin notified' => sends'[i] <= faults')
    BY <1>1, <2>2, <2>3
  <2> QED
    BY <2>1, <2>4
<1> QED
  BY <1>4, <1>5, <1>6, <1>7, <1>8 DEF LureInv

-------------------------------------------------------------------------------
LEMMA NextLure == LureInv /\ [Next]_vars => LureInv'
<1> SUFFICES ASSUME LureInv, [Next]_vars PROVE LureInv'
  OBVIOUS
<1>1. CASE Environment
  BY <1>1, ServerLure, ExpiryLure DEF Environment
<1>2. CASE Lure
  BY <1>2, AskLure, SubmitLure, RecordLure, RecordFailsLure DEF Lure
<1>3. CASE Poller
  BY <1>3, TickLure, MissLure, PollLure, AnnounceLure, AnswerLostLure DEF Poller
<1>4. CASE BotRestart
  BY <1>4, DiesLure DEF BotRestart
<1>5. ASSUME NEW j \in Commands, DiesAnnouncing(j) PROVE LureInv'
  BY <1>5, DiesLure DEF DiesAnnouncing
<1>6. CASE UNCHANGED vars
  <2>1. /\ UNCHANGED <<server, row, notified, lock, kept, cmd, told, sends, faults>>
        /\ UNCHANGED <<phase, delay, wake, blind, todo, news>>
    BY <1>6 DEF vars, db, loop, obs
  <2>2. Resting' /\ todo' \subseteq OpenRows /\ news' \subseteq Unnotified
    BY <2>1 DEF LureInv, Resting, OpenRows, Followed
  <2> QED
    BY <2>1, <2>2, QuietLure
<1> QED
  BY <1>1, <1>2, <1>3, <1>4, <1>5, <1>6 DEF Next

\* polisnatch_jobs.JobPoller with !lure and lure_locks: one outcome is told of a job,
\* and told again only after a crash, a failed write or a lost answer; a locked stop
\* has a lure the server verified; and the poller does not rest for its idle interval
\* on a job recorded meanwhile.
THEOREM LuresAreTold == Spec => []JobsAreTold
<1>1. LureInv => JobsAreTold
  <2> SUFFICES ASSUME LureInv PROVE JobsAreTold
    OBVIOUS
  <2>1. ASSUME NEW j \in Commands PROVE Cardinality(told[j]) <= 1
    <3>1. CASE told[j] = {}
      BY <3>1, FS_EmptySet
    <3>2. CASE told[j] = {row[j]}
      <4>1. Cardinality({row[j]}) = 1
        BY FS_Singleton
      <4> QED
        BY <3>2, <4>1
    <3> QED
      BY <3>1, <3>2 DEF LureInv, Stories
  <2>2. ASSUME NEW j \in Commands PROVE sends[j] <= 1 + faults
    BY DEF LureInv, LureTypes, Stories
  <2>3. OneStory
    BY <2>1, <2>2 DEF OneStory
  <2>4. LockedWasVerified /\ IdleMeansNothingOpen
    BY DEF LureInv, Resting, IdleMeansNothingOpen
  <2> QED
    BY <2>3, <2>4 DEF JobsAreTold
<1> QED
  BY <1>1, InitLure, NextLure, PTL DEF Spec
===============================================================================
